------------------------ MODULE OverflowNamesProofs ------------------------
(***************************************************************************)
(* Generation-stamped names for any number of creators, readers and        *)
(* generations: a creator writes only into a region of its own, a reader   *)
(* finds it as long as the creator holds it, and killed processes cost     *)
(* nobody more than the names they burnt.                                  *)
(***************************************************************************)
EXTENDS OverflowNames, NamedRegionsProofs

HoldingPc == {"fill"} \cup PublishedPc

\* A creator past its loop holds the region its generation names; before, none.
WriterHolds ==
    \A w \in Writers :
        IF wpc[w] \in HoldingPc
        THEN /\ map[w] # 0
             /\ denotes[gen[w]] = map[w]
             /\ owner[map[w]] = w
             /\ body[w] <= regionLen[map[w]]
             /\ wpc[w] \in PublishedPc => map[w] \in filled
        ELSE map[w] = 0

\* Only creators own regions, and a region about to lose its name has no owner.
OwnersWrite == \A k \in 1 .. made : owner[k] \in Writers \cup {NoProc}
DoomedFree == \A k \in doomed : owner[k] = NoProc

\* What a reader copied is true of the region as long as its creator has it.
ReadersKnow ==
    \A r \in Readers : rpc[r] # "idle" =>
        /\ own[r] \in 1 .. made
        /\ \A w \in Writers : map[w] = own[r] =>
            /\ wpc[w] \in PublishedPc
            /\ snap[r].gen = gen[w]
            /\ snap[r].len = body[w]
            /\ rpc[r] = "mapped" => map[r] = own[r]

RegionInv == WriterHolds /\ OwnersWrite /\ DoomedFree /\ ReadersKnow

\* A creator nobody interferes with is alone in its loop, finds every region
\* there orphaned, and on Windows never gets past generation 0.
AloneInLoop ==
    \A w \in alone :
        /\ \A v \in Writers \ {w} : wpc[v] \notin ScanPc
        /\ wpc[w] \in ScanPc => \A p \in Procs : map[p] = 0
        /\ wpc[w] = "reclaim" => denotes[gen[w]] # 0
        /\ wpc[w] = "retry" => windows /\ denotes[gen[w]] = 0
        /\ wpc[w] \in ScanPc /\ windows => gen[w] = 0

AloneSkipsOrphans ==
    \A w \in alone :
        /\ wpc[w] \in ScanPc => \A g \in 0 .. gen[w] - 1 : Orphaned(g)
        /\ wpc[w] \in {"fill", "failed"} /\ windows => wpc[w] = "fill" /\ gen[w] = 0
        /\ wpc[w] = "fill" => \A g \in 0 .. gen[w] - 1 : Orphaned(g)
        /\ wpc[w] = "failed" => \A g \in Names : Orphaned(g)

AloneInv == AloneInLoop /\ AloneSkipsOrphans
-----------------------------------------------------------------------------

(***************************************************************************)
(* Whole pages are long enough.                                            *)
(***************************************************************************)
LEMMA SizeFacts == \A len \in Nat : OverflowSize(len) \in Nat /\ len <= OverflowSize(len)
  BY DEF OverflowSize
-----------------------------------------------------------------------------

(***************************************************************************)
(* Names are the generations, processes the creators and the readers.      *)
(***************************************************************************)
LEMMA NamesAndProcs ==
    /\ Names = 0 .. MaxGeneration /\ MaxGeneration \in Nat
    /\ Writers \subseteq Procs /\ Readers \subseteq Procs
    /\ \A w \in Writers, r \in Readers : w # r
    /\ \A p \in Procs : p # NoProc
  BY OverflowAssumption, RegionsAssumption

(***************************************************************************)
(* The initial state is typed.                                             *)
(***************************************************************************)
LEMMA OverflowTypeInit == OverflowInit => OverflowTypeOK
  <1> SUFFICES ASSUME OverflowInit PROVE OverflowTypeOK
    OBVIOUS
  <1>1. RegionsTyped /\ made = 0
    BY RegionsAssumption DEF OverflowInit, RegionsInit, RegionsTyped
  <1>2. 0 \in 0 .. MaxGeneration /\ 0 \in 0 .. made
    BY <1>1, OverflowAssumption
  <1> QED
    BY <1>1, <1>2 DEF OverflowInit, OverflowTypeOK

(***************************************************************************)
(* The steps of a creator keep the types.                                  *)
(***************************************************************************)
LEMMA OverflowTypeWriter ==
    ASSUME OverflowTypeOK, WriterHolds, NEW w \in Writers,
           \/ \E len \in Lengths : BeginOverflow(w, len)
           \/ TryCreate(w) \/ Reclaim(w) \/ RetryCreate(w)
           \/ FillAndPublish(w) \/ ReleaseOverflow(w) \/ DropConnection(w) \/ WriterKill(w)
           \/ \E r \in Readers : ReaderClaim(r, w)
    PROVE  OverflowTypeOK'
  <1> USE NamesAndProcs DEF ScanPc, PublishedPc
  <1>1. /\ RegionsTyped
        /\ gen[w] \in Names
        /\ body[w] \in Lengths \cup {0} /\ OverflowSize(body[w]) \in Nat
        /\ alone \subseteq Writers
        /\ made \in Nat
    <2>1. RegionsTyped /\ gen[w] \in Names /\ body[w] \in Lengths \cup {0} /\ alone \subseteq Writers
      BY DEF OverflowTypeOK
    <2>2. body[w] \in Nat
      BY <2>1, OverflowAssumption
    <2>3. made \in Nat
      BY <2>1, RegionsAssumption DEF RegionsTyped
    <2> QED
      BY <2>1, <2>2, <2>3, SizeFacts
  <1>2. ASSUME RegionsTyped', made' \in Nat, made <= made',
               UNCHANGED <<rpc, snap, own>>,
               wpc' = wpc \/ \E pc \in {"idle", "fill", "failed", "try", "reclaim", "retry", "ready"} :
                                 wpc' = [wpc EXCEPT ![w] = pc],
               gen' = gen \/ \E g \in Names : gen' = [gen EXCEPT ![w] = g],
               body' = body \/ \E len \in Lengths \cup {0} : body' = [body EXCEPT ![w] = len],
               filled' = filled \/ (map[w] # 0 /\ filled' = filled \cup {map[w]}),
               alone' \subseteq Writers
        PROVE  OverflowTypeOK'
    <2>1. 1 .. made \subseteq 1 .. made' /\ 0 .. made \subseteq 0 .. made'
      BY <1>1, <1>2
    <2>2. map[w] # 0 => map[w] \in 1 .. made
      BY <1>1 DEF RegionsTyped
    <2>3. filled' \subseteq 1 .. made' /\ own' \in [Readers -> 0 .. made']
      BY <1>2, <2>1, <2>2 DEF OverflowTypeOK
    <2>4. wpc' \in [Writers -> {"idle", "fill", "failed"} \cup ScanPc \cup PublishedPc]
      BY <1>2 DEF OverflowTypeOK
    <2>5. gen' \in [Writers -> 0 .. MaxGeneration]
      BY <1>2 DEF OverflowTypeOK
    <2>6. body' \in [Writers -> Lengths \cup {0}]
      BY <1>2 DEF OverflowTypeOK
    <2> QED
      BY <1>2, <2>3, <2>4, <2>5, <2>6 DEF OverflowTypeOK
  <1>0. UNCHANGED regionVars => RegionsTyped' /\ made' \in Nat /\ made <= made'
    BY <1>1 DEF regionVars, RegionsTyped
  <1>3. CASE \E len \in Lengths : BeginOverflow(w, len)
    <2>1. 0 \in Names
      OBVIOUS
    <2>2. /\ UNCHANGED <<regionVars, filled, rpc, snap, own>>
          /\ wpc' = [wpc EXCEPT ![w] = "try"]
          /\ gen' = [gen EXCEPT ![w] = 0]
          /\ \E len \in Lengths \cup {0} : body' = [body EXCEPT ![w] = len]
          /\ alone' \subseteq Writers
      BY <1>3 DEF BeginOverflow
    <2> QED
      BY <1>0, <1>2, <2>1, <2>2
  <1>4. ASSUME NextGeneration(w)
        PROVE  /\ \E pc \in {"try", "failed"} : wpc' = [wpc EXCEPT ![w] = pc]
               /\ gen' = gen \/ \E g \in Names : gen' = [gen EXCEPT ![w] = g]
    BY <1>1, <1>4 DEF NextGeneration
  <1>5. ASSUME Created(w)
        PROVE  RegionsTyped' /\ made' \in Nat /\ made <= made' /\ alone' \subseteq Writers
               /\ wpc' = [wpc EXCEPT ![w] = "fill"] /\ UNCHANGED gen
    <2>1. RegionsTyped' /\ made' = made + 1
      BY <1>1, <1>5, CreateFacts DEF Created
    <2> QED
      BY <1>1, <1>5, <2>1 DEF Created
  <1>6. CASE TryCreate(w)
    <2>1. CASE Created(w)
      BY <1>2, <1>5, <1>6, <2>1 DEF TryCreate
    <2>2. CASE wpc' = [wpc EXCEPT ![w] = "reclaim"] /\ UNCHANGED <<regionVars, gen, alone>>
      BY <1>0, <1>1, <1>2, <1>6, <2>2 DEF TryCreate
    <2> QED
      BY <1>6, <2>1, <2>2 DEF TryCreate
  <1>7. CASE Reclaim(w)
    <2>1. CASE ReclaimRegion(gen[w]) /\ wpc' = [wpc EXCEPT ![w] = "retry"] /\ UNCHANGED gen
      <3>1. RegionsTyped' /\ UNCHANGED made
        BY <1>1, <2>1, ReclaimFacts
      <3> QED
        BY <1>1, <1>2, <1>7, <2>1, <3>1 DEF Reclaim
    <2>2. CASE NextGeneration(w) /\ UNCHANGED regionVars
      BY <1>0, <1>1, <1>2, <1>4, <1>7, <2>2 DEF Reclaim
    <2> QED
      BY <1>7, <2>1, <2>2 DEF Reclaim
  <1>8. CASE RetryCreate(w)
    <2>1. CASE Created(w)
      BY <1>2, <1>5, <1>8, <2>1 DEF RetryCreate
    <2>2. CASE NextGeneration(w) /\ UNCHANGED <<regionVars, alone>>
      BY <1>0, <1>1, <1>2, <1>4, <1>8, <2>2 DEF RetryCreate
    <2> QED
      BY <1>8, <2>1, <2>2 DEF RetryCreate
  <1>9. CASE FillAndPublish(w)
    <2>1. map[w] # 0
      BY <1>9 DEF FillAndPublish, WriterHolds, HoldingPc
    <2> QED
      BY <1>0, <1>1, <1>2, <1>9, <2>1 DEF FillAndPublish
  <1>10. CASE ReleaseOverflow(w) \/ DropConnection(w) \/ WriterKill(w)
    <2>1. RegionsTyped' /\ UNCHANGED made
      BY <1>1, <1>10, CloseFacts, KillFacts DEF ReleaseOverflow, DropConnection, WriterKill
    <2>2. Settle(w)
      BY <1>10 DEF ReleaseOverflow, DropConnection, WriterKill
    <2>3. 0 \in Names
      OBVIOUS
    <2>4. /\ UNCHANGED <<filled, rpc, snap, own>>
          /\ wpc' = [wpc EXCEPT ![w] = "idle"]
          /\ \E g \in Names : gen' = [gen EXCEPT ![w] = g]
          /\ \E len \in Lengths \cup {0} : body' = [body EXCEPT ![w] = len]
          /\ alone' \subseteq Writers
      BY <1>1, <2>2, <2>3 DEF Settle
    <2>5. made' \in Nat /\ made <= made'
      BY <1>1, <2>1
    <2> QED
      BY <1>2, <2>1, <2>4, <2>5
  <1>11. ASSUME NEW r \in Readers, ReaderClaim(r, w)
         PROVE  OverflowTypeOK'
    <2>1. /\ UNCHANGED <<regionVars, gen, body, filled, alone>>
          /\ rpc' = [rpc EXCEPT ![r] = "claimed"]
          /\ wpc' = [wpc EXCEPT ![w] = "claimed"]
          /\ snap' = [snap EXCEPT ![r] = [gen |-> gen[w], len |-> body[w]]]
          /\ own' = [own EXCEPT ![r] = map[w]]
      BY <1>11 DEF ReaderClaim
    <2>2. map[w] \in 0 .. made /\ [gen |-> gen[w], len |-> body[w]] \in [gen : 0 .. MaxGeneration, len : Lengths \cup {0}]
      BY <1>1 DEF RegionsTyped
    <2> QED
      BY <1>1, <2>1, <2>2 DEF OverflowTypeOK, regionVars, RegionsTyped
  <1> QED
    BY <1>3, <1>6, <1>7, <1>8, <1>9, <1>10, <1>11

(***************************************************************************)
(* The steps of a reader keep the types.                                   *)
(***************************************************************************)
LEMMA OverflowTypeReader ==
    ASSUME OverflowTypeOK, NEW r \in Readers, ReaderOpen(r) \/ ReaderFinish(r) \/ ReaderKill(r)
    PROVE  OverflowTypeOK'
  <1> USE NamesAndProcs
  <1>1. RegionsTyped /\ snap[r].gen \in Names
    BY DEF OverflowTypeOK
  <1>2. RegionsTyped' /\ UNCHANGED made
    BY <1>1, OpenFacts, CloseFacts, KillFacts DEF ReaderOpen, ReaderFinish, ReaderKill, regionVars,
        RegionsTyped
  <1>3. UNCHANGED <<gen, body, filled>> /\ alone' \subseteq Writers
    BY DEF ReaderOpen, ReaderFinish, ReaderKill, ReadOver, OverflowTypeOK
  <1>4. /\ rpc' \in [Readers -> {"idle", "claimed", "mapped"}]
        /\ snap' \in [Readers -> [gen : 0 .. MaxGeneration, len : Lengths \cup {0}]]
        /\ own' \in [Readers -> 0 .. made']
    <2>1. CASE UNCHANGED <<snap, own>> /\ rpc' = [rpc EXCEPT ![r] = "mapped"]
      BY <1>2, <2>1 DEF OverflowTypeOK
    <2>2. CASE ReadOver(r)
      <3>1. [gen |-> 0, len |-> 0] \in [gen : 0 .. MaxGeneration, len : Lengths \cup {0}]
        OBVIOUS
      <3>2. 0 \in 0 .. made
        BY <1>1, RegionsAssumption DEF RegionsTyped
      <3> QED
        BY <1>2, <2>2, <3>1, <3>2 DEF OverflowTypeOK, ReadOver
    <2> QED
      BY <2>1, <2>2 DEF ReaderOpen, ReaderFinish, ReaderKill
  <1>5. wpc' \in [Writers -> {"idle", "fill", "failed"} \cup ScanPc \cup PublishedPc]
    <2>1. UNCHANGED wpc \/ SlotReleased(r)
      BY DEF ReaderOpen, ReaderFinish, ReaderKill
    <2> QED
      BY <2>1 DEF SlotReleased, OverflowTypeOK, PublishedPc
  <1> QED
    BY <1>2, <1>3, <1>4, <1>5 DEF OverflowTypeOK
-----------------------------------------------------------------------------

(***************************************************************************)
(* At the start nobody holds anything.                                     *)
(***************************************************************************)
LEMMA RegionInit == OverflowInit => RegionInv
  BY NamesAndProcs DEF OverflowInit, RegionsInit, RegionInv, WriterHolds, OwnersWrite, DoomedFree,
      ReadersKnow, HoldingPc, PublishedPc

(***************************************************************************)
(* A creator on its way through the loop holds no region; nothing that is  *)
(* held changes with it.                                                   *)
(***************************************************************************)
LEMMA RegionLoop ==
    ASSUME OverflowTypeOK, RegionInv, NEW w \in Writers,
           UNCHANGED <<regionVars, filled, rpc, snap, own>>,
           wpc[w] \notin HoldingPc, wpc'[w] \notin HoldingPc,
           \A v \in Writers \ {w} : wpc'[v] = wpc[v] /\ gen'[v] = gen[v] /\ body'[v] = body[v]
    PROVE  RegionInv'
  <1>1. map[w] = 0
    BY DEF RegionInv, WriterHolds
  <1>2. UNCHANGED <<windows, made, denotes, regionLen, owner, map, doomed>>
    BY DEF regionVars
  <1>3. WriterHolds'
    BY <1>1, <1>2 DEF RegionInv, WriterHolds
  <1>4. OwnersWrite' /\ DoomedFree'
    BY <1>2 DEF RegionInv, OwnersWrite, DoomedFree
  <1>5. ReadersKnow'
    <2>1. \A r \in Readers : rpc[r] # "idle" => own[r] # map[w]
      BY <1>1 DEF RegionInv, ReadersKnow, OverflowTypeOK, RegionsTyped
    <2> QED
      BY <1>1, <1>2, <2>1 DEF RegionInv, ReadersKnow
  <1> QED
    BY <1>3, <1>4, <1>5 DEF RegionInv

(***************************************************************************)
(* A region is created: nobody has heard of it.                            *)
(***************************************************************************)
LEMMA RegionCreated ==
    ASSUME OverflowTypeOK, RegionInv, NEW w \in Writers, wpc[w] \notin HoldingPc,
           Created(w), UNCHANGED <<body, filled, rpc, snap, own>>
    PROVE  RegionInv'
  <1> USE NamesAndProcs
  <1>1. RegionsTyped /\ gen[w] \in Names /\ body[w] \in Nat /\ made \in Nat
    <2>1. RegionsTyped /\ gen[w] \in Names /\ body[w] \in Lengths \cup {0}
      BY DEF OverflowTypeOK
    <2>2. made \in Nat
      BY <2>1, RegionsAssumption DEF RegionsTyped
    <2>3. Lengths \cup {0} \subseteq Nat
      BY OverflowAssumption
    <2> QED
      BY <2>1, <2>2, <2>3
  <1>2. OverflowSize(body[w]) \in Nat /\ body[w] <= OverflowSize(body[w])
    BY <1>1, SizeFacts
  <1> DEFINE k == made + 1
  <1>3. /\ made' = k
        /\ k \in Regions
        /\ denotes[gen[w]] = 0
        /\ \A m \in Names : denotes'[m] = IF m = gen[w] THEN k ELSE denotes[m]
        /\ \A j \in Regions : regionLen'[j] = IF j = k THEN OverflowSize(body[w]) ELSE regionLen[j]
        /\ \A j \in Regions : owner'[j] = IF j = k THEN w ELSE owner[j]
        /\ \A q \in Procs : map'[q] = IF q = w THEN k ELSE map[q]
        /\ UNCHANGED doomed
    BY <1>1, <1>2, CreateFacts DEF Created
  <1>4. /\ wpc' = [wpc EXCEPT ![w] = "fill"]
        /\ wpc \in [Writers -> {"idle", "fill", "failed"} \cup ScanPc \cup PublishedPc]
        /\ UNCHANGED <<gen, body>>
    BY DEF Created, OverflowTypeOK
  <1>5. /\ \A q \in Procs : map[q] \in 0 .. made
        /\ \A j \in 1 .. made : j \in Regions /\ j # k
        /\ doomed \subseteq 1 .. made
        /\ k \notin 0 .. made
    BY <1>1, RegionsAssumption DEF RegionsTyped, Regions
  <1>6. WriterHolds'
    <2> SUFFICES ASSUME NEW v \in Writers
                 PROVE  IF wpc'[v] \in HoldingPc
                        THEN /\ map'[v] # 0
                             /\ denotes'[gen'[v]] = map'[v]
                             /\ owner'[map'[v]] = v
                             /\ body'[v] <= regionLen'[map'[v]]
                             /\ wpc'[v] \in PublishedPc => map'[v] \in filled'
                        ELSE map'[v] = 0
      BY DEF WriterHolds
    <2>1. CASE v = w
      BY <1>1, <1>2, <1>3, <1>4, <2>1 DEF HoldingPc, PublishedPc
    <2>2. CASE v # w
      <3>1. wpc'[v] = wpc[v] /\ map'[v] = map[v]
        BY <1>3, <1>4, <2>2
      <3>2. CASE wpc[v] \in HoldingPc
        <4>1. /\ map[v] # 0 /\ denotes[gen[v]] = map[v] /\ owner[map[v]] = v
              /\ body[v] <= regionLen[map[v]]
              /\ wpc[v] \in PublishedPc => map[v] \in filled
          BY <3>2 DEF RegionInv, WriterHolds
        <4>2. map[v] \in 1 .. made /\ map[v] \in Regions /\ map[v] # k
          BY <1>5, <4>1
        <4>3. gen[v] \in Names /\ gen[v] # gen[w]
          BY <1>3, <4>1 DEF OverflowTypeOK
        <4>4. /\ gen'[v] = gen[v] /\ body'[v] = body[v] /\ filled' = filled
              /\ denotes'[gen[v]] = denotes[gen[v]]
              /\ owner'[map[v]] = owner[map[v]]
              /\ regionLen'[map[v]] = regionLen[map[v]]
          BY <1>3, <1>4, <4>2, <4>3
        <4> QED
          BY <3>1, <3>2, <4>1, <4>4
      <3>3. CASE wpc[v] \notin HoldingPc
        BY <3>1, <3>3 DEF RegionInv, WriterHolds
      <3> QED
        BY <3>2, <3>3
    <2> QED
      BY <2>1, <2>2
  <1>7. OwnersWrite'
    BY <1>1, <1>3, <1>5 DEF RegionInv, OwnersWrite
  <1>8. DoomedFree'
    BY <1>1, <1>3, <1>5 DEF RegionInv, DoomedFree
  <1>9. ReadersKnow'
    <2> SUFFICES ASSUME NEW r \in Readers, rpc[r] # "idle"
                 PROVE  /\ own[r] \in 1 .. made'
                        /\ \A v \in Writers : map'[v] = own[r] =>
                            /\ wpc'[v] \in PublishedPc
                            /\ snap[r].gen = gen[v]
                            /\ snap[r].len = body[v]
                            /\ rpc[r] = "mapped" => map'[r] = own[r]
      BY <1>4 DEF ReadersKnow
    <2>1. own[r] \in 1 .. made /\ own[r] # k
      BY <1>5 DEF RegionInv, ReadersKnow
    <2>2. \A v \in Writers : map'[v] = own[r] => v # w /\ map[v] = own[r] /\ wpc'[v] = wpc[v]
      BY <1>3, <1>4, <2>1
    <2>3. map'[r] = map[r]
      BY <1>3
    <2> QED
      BY <1>1, <1>3, <2>1, <2>2, <2>3 DEF RegionInv, ReadersKnow
  <1> QED
    BY <1>6, <1>7, <1>8, <1>9 DEF RegionInv

(***************************************************************************)
(* An orphan is reclaimed: it is nobody's.                                 *)
(***************************************************************************)
LEMMA RegionReclaimed ==
    ASSUME OverflowTypeOK, RegionInv, NEW w \in Writers, wpc[w] \notin HoldingPc,
           ReclaimRegion(gen[w]), wpc' = [wpc EXCEPT ![w] = "retry"],
           UNCHANGED <<gen, body, filled, rpc, snap, own>>
    PROVE  RegionInv'
  <1> USE NamesAndProcs
  <1>1. RegionsTyped /\ gen[w] \in Names
    BY DEF OverflowTypeOK
  <1>2. /\ Orphaned(gen[w])
        /\ \A m \in Names : denotes'[m] = IF m = gen[w] THEN 0 ELSE denotes[m]
        /\ UNCHANGED <<windows, made, regionLen, owner, map, doomed>>
    BY <1>1, ReclaimFacts
  <1>3. /\ \A v \in Writers \ {w} : wpc'[v] = wpc[v]
        /\ wpc'[w] \notin HoldingPc
    BY DEF OverflowTypeOK, HoldingPc, PublishedPc
  <1>4. \A v \in Writers : gen[v] \in Names /\ map[v] # denotes[gen[w]]
    BY <1>2 DEF Orphaned, Users, OverflowTypeOK
  <1>5. WriterHolds'
    BY <1>2, <1>3, <1>4 DEF RegionInv, WriterHolds
  <1>6. OwnersWrite' /\ DoomedFree'
    BY <1>2 DEF RegionInv, OwnersWrite, DoomedFree
  <1>7. ReadersKnow'
    <2>1. \A r \in Readers : rpc[r] # "idle" => own[r] # map[w]
      BY <1>1 DEF RegionInv, WriterHolds, ReadersKnow
    <2> QED
      BY <1>2, <1>3, <2>1 DEF RegionInv, ReadersKnow
  <1> QED
    BY <1>5, <1>6, <1>7 DEF RegionInv

(***************************************************************************)
(* A handle goes, closed or with its process: what other creators hold     *)
(* keeps its name and its owner.                                           *)
(***************************************************************************)
LEMMA HandleGone ==
    ASSUME OverflowTypeOK, RegionInv, NEW p \in Procs, CloseRegion(p) \/ KillRegion(p)
    PROVE  /\ OwnersWrite' /\ DoomedFree'
           /\ \A q \in Procs : map'[q] = IF q = p THEN 0 ELSE map[q]
           /\ \A v \in Writers \ {p} : wpc[v] \in HoldingPc =>
                denotes'[gen[v]] = map[v] /\ owner'[map[v]] = v
           /\ UNCHANGED <<made, regionLen>>
  <1> USE NamesAndProcs
  <1>1. /\ RegionsTyped
        /\ \A v \in Writers : gen[v] \in Names
        /\ \A q \in Procs : map[q] # 0 => map[q] \in Regions /\ map[q] \in 1 .. made
        /\ \A k \in 1 .. made : k \in Regions
        /\ doomed \subseteq 1 .. made
    BY RegionsAssumption DEF OverflowTypeOK, RegionsTyped, Regions
  <1>2. \A v \in Writers : wpc[v] \in HoldingPc =>
            map[v] # 0 /\ denotes[gen[v]] = map[v] /\ owner[map[v]] = v /\ map[v] \notin doomed
    BY DEF RegionInv, WriterHolds, DoomedFree
  <1>3. \A v \in Writers \ {p} : wpc[v] \in HoldingPc /\ map[v] = map[p] =>
            p \notin Writers /\ owner[map[p]] # p
    BY <1>2 DEF RegionInv, WriterHolds
  <1>4. CASE CloseRegion(p)
    <2>1. /\ RegionsTyped'
          /\ \A q \in Procs : map'[q] = IF q = p THEN 0 ELSE map[q]
          /\ \A n \in Names : denotes'[n] = denotes[n] \/ (denotes[n] = map[p] /\ denotes'[n] = 0)
          /\ \A k \in Regions : owner'[k] = owner[k] \/ (k = map[p] /\ owner'[k] = NoProc)
          /\ \A k \in doomed' : k \in doomed \/ (k = map[p] /\ owner'[k] = NoProc)
          /\ map[p] # 0 /\ owner[map[p]] # p /\ map[p] \notin doomed =>
                UNCHANGED <<denotes, owner, doomed>>
          /\ UNCHANGED <<windows, made, regionLen>>
      BY <1>1, <1>4, CloseFacts
    <2>2. OwnersWrite' /\ DoomedFree'
      BY <1>1, <2>1 DEF RegionInv, OwnersWrite, DoomedFree
    <2>3. ASSUME NEW v \in Writers \ {p}, wpc[v] \in HoldingPc
          PROVE  denotes'[gen[v]] = map[v] /\ owner'[map[v]] = v
      <3>1. CASE map[v] = map[p]
        BY <1>1, <1>2, <1>3, <2>1, <2>3, <3>1
      <3>2. CASE map[v] # map[p]
        BY <1>1, <1>2, <2>1, <2>3, <3>2
      <3> QED
        BY <3>1, <3>2
    <2> QED
      BY <2>1, <2>2, <2>3
  <1>5. CASE KillRegion(p)
    <2>1. /\ \A q \in Procs : map'[q] = IF q = p THEN 0 ELSE map[q]
          /\ \A n \in Names : denotes'[n] = denotes[n]
                \/ (denotes[n] = map[p] /\ denotes'[n] = 0 /\ map[p] \in doomed)
          /\ \A k \in Regions : owner'[k] = IF owner[k] = p THEN NoProc ELSE owner[k]
          /\ doomed' \subseteq doomed
          /\ UNCHANGED <<windows, made, regionLen>>
      BY <1>1, <1>5, KillFacts
    <2>2. OwnersWrite' /\ DoomedFree'
      BY <1>1, <2>1 DEF RegionInv, OwnersWrite, DoomedFree
    <2>3. ASSUME NEW v \in Writers \ {p}, wpc[v] \in HoldingPc
          PROVE  denotes'[gen[v]] = map[v] /\ owner'[map[v]] = v
      BY <1>1, <1>2, <2>1, <2>3
    <2> QED
      BY <2>1, <2>2, <2>3
  <1> QED
    BY <1>4, <1>5

(***************************************************************************)
(* A creator gives its region up, or is killed.                            *)
(***************************************************************************)
LEMMA RegionGivenUp ==
    ASSUME OverflowTypeOK, RegionInv, NEW w \in Writers,
           CloseRegion(w) \/ KillRegion(w), Settle(w)
    PROVE  RegionInv'
  <1> USE NamesAndProcs
  <1>1. /\ OwnersWrite' /\ DoomedFree'
        /\ \A q \in Procs : map'[q] = IF q = w THEN 0 ELSE map[q]
        /\ \A v \in Writers \ {w} : wpc[v] \in HoldingPc =>
             denotes'[gen[v]] = map[v] /\ owner'[map[v]] = v
        /\ UNCHANGED <<made, regionLen>>
    BY HandleGone
  <1>2. /\ \A v \in Writers \ {w} : wpc'[v] = wpc[v] /\ gen'[v] = gen[v] /\ body'[v] = body[v]
        /\ wpc'[w] \notin HoldingPc
        /\ UNCHANGED <<filled, rpc, snap, own>>
    BY DEF Settle, OverflowTypeOK, HoldingPc, PublishedPc
  <1>3. WriterHolds'
    BY <1>1, <1>2 DEF RegionInv, WriterHolds
  <1>4. ReadersKnow'
    <2>1. \A r \in Readers : rpc[r] # "idle" => own[r] \in 1 .. made /\ own[r] # 0
      BY DEF RegionInv, ReadersKnow
    <2> QED
      BY <1>1, <1>2, <2>1 DEF RegionInv, ReadersKnow
  <1> QED
    BY <1>1, <1>3, <1>4 DEF RegionInv

(***************************************************************************)
(* The steps of a creator keep who holds what.                             *)
(***************************************************************************)
LEMMA RegionWriter ==
    ASSUME OverflowTypeOK, RegionInv, NEW w \in Writers,
           \/ \E len \in Lengths : BeginOverflow(w, len)
           \/ TryCreate(w) \/ Reclaim(w) \/ RetryCreate(w)
           \/ FillAndPublish(w) \/ ReleaseOverflow(w) \/ DropConnection(w) \/ WriterKill(w)
    PROVE  RegionInv'
  <1> USE DEF HoldingPc, PublishedPc
  <1>1. wpc \in [Writers -> {"idle", "fill", "failed"} \cup ScanPc \cup PublishedPc]
        /\ gen \in [Writers -> 0 .. MaxGeneration] /\ body \in [Writers -> Lengths \cup {0}]
    BY DEF OverflowTypeOK
  <1>2. ASSUME UNCHANGED <<regionVars, body, filled, rpc, snap, own>>, NextGeneration(w),
               wpc[w] \in {"reclaim", "retry"}
        PROVE  RegionInv'
    <2>1. /\ wpc'[w] \notin HoldingPc
          /\ \A v \in Writers \ {w} : wpc'[v] = wpc[v] /\ gen'[v] = gen[v]
      BY <1>1, <1>2 DEF NextGeneration
    <2> QED
      BY <1>2, <2>1, RegionLoop
  <1>3. CASE \E len \in Lengths : BeginOverflow(w, len)
    <2>1. /\ wpc[w] \notin HoldingPc /\ wpc'[w] \notin HoldingPc
          /\ \A v \in Writers \ {w} : wpc'[v] = wpc[v] /\ gen'[v] = gen[v] /\ body'[v] = body[v]
          /\ UNCHANGED <<regionVars, filled, rpc, snap, own>>
      BY <1>1, <1>3 DEF BeginOverflow
    <2> QED
      BY <2>1, RegionLoop
  <1>4. CASE TryCreate(w)
    <2>1. CASE Created(w)
      BY <1>4, <2>1, RegionCreated DEF TryCreate
    <2>2. CASE wpc' = [wpc EXCEPT ![w] = "reclaim"] /\ UNCHANGED <<regionVars, gen, alone>>
      <3>1. /\ wpc[w] \notin HoldingPc /\ wpc'[w] \notin HoldingPc
            /\ \A v \in Writers \ {w} : wpc'[v] = wpc[v] /\ gen'[v] = gen[v] /\ body'[v] = body[v]
            /\ UNCHANGED <<regionVars, filled, rpc, snap, own>>
        BY <1>1, <1>4, <2>2 DEF TryCreate
      <3> QED
        BY <3>1, RegionLoop
    <2> QED
      BY <1>4, <2>1, <2>2 DEF TryCreate
  <1>5. CASE Reclaim(w)
    <2>1. CASE ReclaimRegion(gen[w]) /\ wpc' = [wpc EXCEPT ![w] = "retry"] /\ UNCHANGED gen
      BY <1>5, <2>1, RegionReclaimed DEF Reclaim
    <2>2. CASE NextGeneration(w) /\ UNCHANGED regionVars
      BY <1>2, <1>5, <2>2 DEF Reclaim
    <2> QED
      BY <1>5, <2>1, <2>2 DEF Reclaim
  <1>6. CASE RetryCreate(w)
    <2>1. CASE Created(w)
      BY <1>6, <2>1, RegionCreated DEF RetryCreate
    <2>2. CASE NextGeneration(w) /\ UNCHANGED <<regionVars, alone>>
      BY <1>2, <1>6, <2>2 DEF RetryCreate
    <2> QED
      BY <1>6, <2>1, <2>2 DEF RetryCreate
  <1>7. CASE FillAndPublish(w)
    <2>1. /\ UNCHANGED <<windows, made, denotes, regionLen, owner, map, doomed>>
          /\ UNCHANGED <<gen, body, rpc, snap, own>>
          /\ wpc[w] = "fill" /\ wpc' = [wpc EXCEPT ![w] = "ready"]
          /\ filled' = filled \cup {map[w]}
      BY <1>7 DEF FillAndPublish, regionVars
    <2>2. WriterHolds'
      BY <1>1, <2>1 DEF RegionInv, WriterHolds
    <2>3. OwnersWrite' /\ DoomedFree'
      BY <2>1 DEF RegionInv, OwnersWrite, DoomedFree
    <2>4. ReadersKnow'
      BY <1>1, <2>1 DEF RegionInv, ReadersKnow
    <2> QED
      BY <2>2, <2>3, <2>4 DEF RegionInv
  <1>8. CASE ReleaseOverflow(w) \/ DropConnection(w) \/ WriterKill(w)
    BY <1>8, RegionGivenUp DEF ReleaseOverflow, DropConnection, WriterKill
  <1> QED
    BY <1>3, <1>4, <1>5, <1>6, <1>7, <1>8

(***************************************************************************)
(* A claimed slot: only its creator holds the region that was copied.      *)
(***************************************************************************)
LEMMA RegionClaimed ==
    ASSUME OverflowTypeOK, RegionInv, NEW w \in Writers, NEW r \in Readers, ReaderClaim(r, w)
    PROVE  RegionInv'
  <1> USE NamesAndProcs DEF HoldingPc, PublishedPc
  <1>1. /\ UNCHANGED <<windows, made, denotes, regionLen, owner, map, doomed>>
        /\ UNCHANGED <<gen, body, filled>>
        /\ rpc[r] = "idle" /\ wpc[w] = "ready"
        /\ rpc' = [rpc EXCEPT ![r] = "claimed"]
        /\ wpc' = [wpc EXCEPT ![w] = "claimed"]
        /\ snap' = [snap EXCEPT ![r] = [gen |-> gen[w], len |-> body[w]]]
        /\ own' = [own EXCEPT ![r] = map[w]]
    BY DEF ReaderClaim, regionVars
  <1>2. /\ wpc \in [Writers -> {"idle", "fill", "failed"} \cup ScanPc \cup PublishedPc]
        /\ rpc \in [Readers -> {"idle", "claimed", "mapped"}]
        /\ snap \in [Readers -> [gen : 0 .. MaxGeneration, len : Lengths \cup {0}]]
        /\ own \in [Readers -> 0 .. made]
        /\ map[w] \in 0 .. made
    BY DEF OverflowTypeOK, RegionsTyped
  <1>3. map[w] \in 1 .. made /\ owner[map[w]] = w
    BY <1>1, <1>2 DEF RegionInv, WriterHolds
  <1>4. WriterHolds'
    BY <1>1, <1>2 DEF RegionInv, WriterHolds
  <1>5. OwnersWrite' /\ DoomedFree'
    BY <1>1 DEF RegionInv, OwnersWrite, DoomedFree
  <1>6. ReadersKnow'
    <2> SUFFICES ASSUME NEW s \in Readers, rpc'[s] # "idle"
                 PROVE  /\ own'[s] \in 1 .. made
                        /\ \A v \in Writers : map[v] = own'[s] =>
                            /\ wpc'[v] \in PublishedPc
                            /\ snap'[s].gen = gen[v]
                            /\ snap'[s].len = body[v]
                            /\ rpc'[s] = "mapped" => map[s] = own'[s]
      BY <1>1 DEF ReadersKnow
    <2>1. CASE s = r
      <3>1. own'[r] = map[w] /\ rpc'[r] = "claimed" /\ snap'[r] = [gen |-> gen[w], len |-> body[w]]
        BY <1>1, <1>2
      <3>2. \A v \in Writers : map[v] = map[w] => v = w
        BY <1>3 DEF RegionInv, WriterHolds
      <3>3. wpc'[w] \in PublishedPc
        BY <1>1, <1>2
      <3> QED
        BY <1>3, <2>1, <3>1, <3>2, <3>3
    <2>2. CASE s # r
      <3>1. own'[s] = own[s] /\ rpc'[s] = rpc[s] /\ snap'[s] = snap[s]
        BY <1>1, <2>2
      <3>2. \A v \in Writers : wpc[v] \in PublishedPc => wpc'[v] \in PublishedPc
        BY <1>1, <1>2
      <3> QED
        BY <3>1, <3>2 DEF RegionInv, ReadersKnow
    <2> QED
      BY <2>1, <2>2
  <1> QED
    BY <1>4, <1>5, <1>6 DEF RegionInv

(***************************************************************************)
(* A read is over: its handle is gone, and the slot it claimed may have    *)
(* been released.                                                          *)
(***************************************************************************)
LEMMA RegionReadOver ==
    ASSUME OverflowTypeOK, RegionInv, NEW r \in Readers,
           UNCHANGED regionVars \/ CloseRegion(r) \/ KillRegion(r),
           ReadOver(r), UNCHANGED wpc \/ SlotReleased(r)
    PROVE  RegionInv'
  <1> USE NamesAndProcs DEF HoldingPc, PublishedPc
  <1>1. /\ OwnersWrite' /\ DoomedFree'
        /\ \A v \in Writers : map'[v] = map[v]
        /\ \A s \in Readers \ {r} : map'[s] = map[s]
        /\ \A v \in Writers : wpc[v] \in HoldingPc =>
             denotes'[gen[v]] = map[v] /\ owner'[map[v]] = v
        /\ UNCHANGED <<made, regionLen>>
    <2>1. CASE UNCHANGED regionVars
      BY <2>1 DEF RegionInv, OwnersWrite, DoomedFree, WriterHolds, regionVars
    <2>2. CASE CloseRegion(r) \/ KillRegion(r)
      <3>1. r \in Procs /\ r \notin Writers
        OBVIOUS
      <3> QED
        BY <2>2, <3>1, HandleGone
    <2> QED
      BY <2>1, <2>2
  <1>2. /\ UNCHANGED <<gen, body, filled>>
        /\ rpc'[r] = "idle"
        /\ \A s \in Readers \ {r} : rpc'[s] = rpc[s] /\ snap'[s] = snap[s] /\ own'[s] = own[s]
    BY DEF ReadOver, OverflowTypeOK
  <1>3. \A v \in Writers : /\ wpc'[v] \in PublishedPc <=> wpc[v] \in PublishedPc
                           /\ wpc'[v] \in HoldingPc <=> wpc[v] \in HoldingPc
    BY DEF SlotReleased
  <1>4. WriterHolds'
    BY <1>1, <1>2, <1>3 DEF RegionInv, WriterHolds
  <1>5. ReadersKnow'
    BY <1>1, <1>2, <1>3 DEF RegionInv, ReadersKnow
  <1> QED
    BY <1>1, <1>4, <1>5 DEF RegionInv

(***************************************************************************)
(* The steps of a reader keep who holds what.                              *)
(***************************************************************************)
LEMMA RegionReader ==
    ASSUME OverflowTypeOK, RegionInv, NEW r \in Readers,
           ReaderOpen(r) \/ ReaderFinish(r) \/ ReaderKill(r)
    PROVE  RegionInv'
  <1> USE NamesAndProcs
  <1>1. CASE /\ OpenRegion(r, snap[r].gen)
             /\ rpc' = [rpc EXCEPT ![r] = "mapped"]
             /\ UNCHANGED <<wpc, gen, body, filled, snap, own>>
    <2>1. RegionsTyped /\ snap[r].gen \in Names /\ r \in Procs /\ rpc \in [Readers -> {"idle", "claimed", "mapped"}]
      BY DEF OverflowTypeOK
    <2>2. /\ \A q \in Procs : map'[q] = IF q = r THEN denotes[snap[r].gen] ELSE map[q]
          /\ UNCHANGED <<made, denotes, regionLen, owner, doomed>>
      BY <1>1, <2>1, OpenFacts
    <2>3. \A v \in Writers : map'[v] = map[v]
      BY <2>2
    <2>4. WriterHolds'
      BY <1>1, <2>2, <2>3 DEF RegionInv, WriterHolds
    <2>5. OwnersWrite' /\ DoomedFree'
      BY <2>2 DEF RegionInv, OwnersWrite, DoomedFree
    <2>6. ReadersKnow'
      <3> SUFFICES ASSUME NEW s \in Readers, rpc'[s] # "idle"
                   PROVE  /\ own[s] \in 1 .. made
                          /\ \A v \in Writers : map[v] = own[s] =>
                              /\ wpc[v] \in PublishedPc
                              /\ snap[s].gen = gen[v]
                              /\ snap[s].len = body[v]
                              /\ rpc'[s] = "mapped" => map'[s] = own[s]
        BY <1>1, <2>2, <2>3 DEF ReadersKnow
      <3>1. rpc[s] # "idle"
        BY <1>1, <2>1 DEF ReaderOpen, ReaderFinish, ReaderKill
      <3>2. /\ own[s] \in 1 .. made
            /\ \A v \in Writers : map[v] = own[s] =>
                /\ wpc[v] \in PublishedPc
                /\ snap[s].gen = gen[v]
                /\ snap[s].len = body[v]
                /\ rpc[s] = "mapped" => map[s] = own[s]
        BY <3>1 DEF RegionInv, ReadersKnow
      <3>3. CASE s = r
        <4>1. \A v \in Writers : wpc[v] \in PublishedPc => denotes[gen[v]] = map[v]
          BY DEF RegionInv, WriterHolds, HoldingPc
        <4>2. map'[r] = denotes[snap[r].gen]
          BY <2>2
        <4> QED
          BY <3>2, <3>3, <4>1, <4>2
      <3>4. CASE s # r
        BY <1>1, <2>1, <2>2, <3>2, <3>4
      <3> QED
        BY <3>3, <3>4
    <2> QED
      BY <2>4, <2>5, <2>6 DEF RegionInv
  <1>2. CASE ReadOver(r) /\ (UNCHANGED wpc \/ SlotReleased(r))
             /\ (UNCHANGED regionVars \/ CloseRegion(r) \/ KillRegion(r))
    BY <1>2, RegionReadOver
  <1> QED
    BY <1>1, <1>2 DEF ReaderOpen, ReaderFinish, ReaderKill

(***************************************************************************)
(* Every step keeps the types and who holds what.                          *)
(***************************************************************************)
LEMMA RegionStep ==
    ASSUME OverflowTypeOK, RegionInv, [OverflowNext]_overflowVars
    PROVE  OverflowTypeOK' /\ RegionInv'
  <1>1. CASE UNCHANGED overflowVars
    <2>1. OverflowTypeOK'
      BY <1>1 DEF overflowVars, regionVars, OverflowTypeOK, RegionsTyped
    <2>2. RegionInv'
      BY <1>1 DEF overflowVars, regionVars, RegionInv, WriterHolds, OwnersWrite, DoomedFree, ReadersKnow
    <2> QED
      BY <2>1, <2>2
  <1>2. ASSUME NEW w \in Writers,
               \/ \E len \in Lengths : BeginOverflow(w, len)
               \/ TryCreate(w) \/ Reclaim(w) \/ RetryCreate(w)
               \/ FillAndPublish(w) \/ ReleaseOverflow(w) \/ DropConnection(w) \/ WriterKill(w)
        PROVE  OverflowTypeOK' /\ RegionInv'
    <2>1. OverflowTypeOK'
      BY <1>2, OverflowTypeWriter DEF RegionInv
    <2>2. RegionInv'
      BY <1>2, RegionWriter
    <2> QED
      BY <2>1, <2>2
  <1>3. ASSUME NEW w \in Writers, NEW r \in Readers, ReaderClaim(r, w)
        PROVE  OverflowTypeOK' /\ RegionInv'
    BY <1>3, OverflowTypeWriter, RegionClaimed DEF RegionInv
  <1>4. ASSUME NEW r \in Readers, ReaderOpen(r) \/ ReaderFinish(r) \/ ReaderKill(r)
        PROVE  OverflowTypeOK' /\ RegionInv'
    BY <1>4, OverflowTypeReader, RegionReader
  <1> QED
    BY <1>1, <1>2, <1>3, <1>4 DEF OverflowNext

(***************************************************************************)
(* In every behaviour the types hold, a creator past its loop holds the    *)
(* region its generation names, and readers know what they claimed.        *)
(***************************************************************************)
THEOREM RegionInvCorrect == OverflowSpec => [](OverflowTypeOK /\ RegionInv)
  <1>1. OverflowInit => OverflowTypeOK /\ RegionInv
    BY OverflowTypeInit, RegionInit
  <1>2. (OverflowTypeOK /\ RegionInv) /\ [OverflowNext]_overflowVars => (OverflowTypeOK /\ RegionInv)'
    BY RegionStep
  <1> QED
    BY <1>1, <1>2, PTL DEF OverflowSpec

(***************************************************************************)
(* Type correctness of the creators' loop and of the regions.              *)
(***************************************************************************)
THEOREM OverflowTypeCorrect == OverflowSpec => []OverflowTypeOK
  BY RegionInvCorrect, PTL

(***************************************************************************)
(* No creator copies past the end of its mapping or into one that another  *)
(* creator writes, however many create, are dropped or are killed.         *)
(***************************************************************************)
THEOREM WritesStayInside == OverflowSpec => []NoWildWrite
  <1>1. OverflowTypeOK /\ RegionInv => NoWildWrite
    BY DEF NoWildWrite, RegionInv, WriterHolds, HoldingPc
  <1> QED
    BY <1>1, RegionInvCorrect, PTL

(***************************************************************************)
(* A reader finds the region and the whole payload for as long as the      *)
(* creator holds it.                                                       *)
(***************************************************************************)
THEOREM ReadersServed == OverflowSpec => []SlowReaderServed
  <1>1. ASSUME OverflowTypeOK, RegionInv, NEW r \in Readers, rpc[r] # "idle",
               NEW w \in Writers, map[w] = own[r]
        PROVE  /\ IF rpc[r] = "mapped" THEN map[r] = own[r]
                  ELSE CanOpen(snap[r].gen) /\ denotes[snap[r].gen] = own[r]
               /\ own[r] \in filled
               /\ snap[r].len <= regionLen[own[r]]
    <2>1. /\ own[r] \in 1 .. made
          /\ wpc[w] \in PublishedPc
          /\ snap[r].gen = gen[w]
          /\ snap[r].len = body[w]
          /\ rpc[r] = "mapped" => map[r] = own[r]
      BY <1>1 DEF RegionInv, ReadersKnow
    <2>2. /\ map[w] # 0 /\ denotes[gen[w]] = map[w] /\ owner[map[w]] = w
          /\ body[w] <= regionLen[map[w]] /\ map[w] \in filled
      BY <1>1, <2>1 DEF RegionInv, WriterHolds, HoldingPc
    <2>3. map[w] \notin doomed
      <3>1. w # NoProc
        BY NamesAndProcs
      <3> QED
        BY <1>1, <2>2, <3>1 DEF RegionInv, DoomedFree
    <2> QED
      BY <1>1, <2>1, <2>2, <2>3 DEF CanOpen
  <1>2. OverflowTypeOK /\ RegionInv => SlowReaderServed
    BY <1>1 DEF SlowReaderServed
  <1> QED
    BY <1>2, RegionInvCorrect, PTL
-----------------------------------------------------------------------------

(***************************************************************************)
(* While one creator is in its loop, at most that one is alone.            *)
(***************************************************************************)
LEMMA OnlyOneAlone ==
    ASSUME OverflowTypeOK, AloneInv, NEW w \in Writers, wpc[w] \in ScanPc
    PROVE  alone \subseteq {w}
  BY DEF AloneInv, AloneInLoop, OverflowTypeOK

(***************************************************************************)
(* Handles that go, and progress elsewhere that is not in the loop, touch  *)
(* no orphan.                                                              *)
(***************************************************************************)
LEMMA AloneKept ==
    ASSUME OverflowTypeOK, AloneInv, alone' \subseteq alone, UNCHANGED windows,
           \A v \in alone' : gen'[v] = gen[v],
           \A v \in Writers : wpc'[v] \in ScanPc \cup {"fill", "failed"} => wpc'[v] = wpc[v],
           \A p \in Procs : map'[p] = map[p] \/ map'[p] = 0,
           \A n \in Names : denotes'[n] = denotes[n]
                              \/ \E p \in Procs : map[p] # 0 /\ map[p] = denotes[n]
    PROVE  AloneInv'
  <1>1. \A v \in alone' : v \in alone /\ v \in Writers /\ gen[v] \in Names
    BY NamesAndProcs DEF OverflowTypeOK
  <1>2. \A g \in Names : Orphaned(g) => Orphaned(g)'
    <2> SUFFICES ASSUME NEW g \in Names, Orphaned(g) PROVE Orphaned(g)'
      OBVIOUS
    <2>1. denotes[g] # 0 /\ \A p \in Procs : map[p] # denotes[g]
      BY DEF Orphaned, Users
    <2>2. denotes'[g] = denotes[g]
      BY <2>1
    <2>3. \A p \in Procs : map'[p] # denotes'[g]
      BY <2>1, <2>2
    <2> QED
      BY <2>1, <2>2, <2>3 DEF Orphaned, Users
  <1>3. \A w \in Writers : gen[w] \in Names => 0 .. gen[w] - 1 \subseteq Names
    BY NamesAndProcs
  <1>4. AloneInLoop'
    <2>1. ASSUME NEW w \in alone', NEW v \in Writers \ {w} PROVE wpc'[v] \notin ScanPc
      BY <1>1, <2>1 DEF AloneInv, AloneInLoop
    <2>2. ASSUME NEW w \in alone', wpc'[w] \in ScanPc
          PROVE  /\ wpc[w] = wpc'[w] /\ gen'[w] = gen[w]
                 /\ \A p \in Procs : map'[p] = 0
                 /\ denotes'[gen[w]] = denotes[gen[w]]
      BY <1>1, <2>2 DEF AloneInv, AloneInLoop
    <2>3. ASSUME NEW w \in alone'
          PROVE  /\ wpc'[w] \in ScanPc => \A p \in Procs : map'[p] = 0
                 /\ wpc'[w] = "reclaim" => denotes'[gen'[w]] # 0
                 /\ wpc'[w] = "retry" => windows' /\ denotes'[gen'[w]] = 0
                 /\ wpc'[w] \in ScanPc /\ windows' => gen'[w] = 0
      BY <1>1, <2>2, <2>3 DEF AloneInv, AloneInLoop, ScanPc
    <2> QED
      BY <2>1, <2>3 DEF AloneInLoop
  <1>5. AloneSkipsOrphans'
    <2> SUFFICES ASSUME NEW w \in alone'
                 PROVE  /\ wpc'[w] \in ScanPc => \A g \in 0 .. gen'[w] - 1 : Orphaned(g)'
                        /\ wpc'[w] \in {"fill", "failed"} /\ windows' => wpc'[w] = "fill" /\ gen'[w] = 0
                        /\ wpc'[w] = "fill" => \A g \in 0 .. gen'[w] - 1 : Orphaned(g)'
                        /\ wpc'[w] = "failed" => \A g \in Names : Orphaned(g)'
      BY DEF AloneSkipsOrphans
    <2>1. gen'[w] = gen[w] /\ w \in alone /\ w \in Writers
      BY <1>1
    <2>2. wpc'[w] \in ScanPc \cup {"fill", "failed"} => wpc'[w] = wpc[w]
      BY <2>1
    <2>3. \A g \in 0 .. gen[w] - 1 : g \in Names
      BY <1>1, <1>3
    <2> QED
      BY <1>2, <2>1, <2>2, <2>3 DEF AloneInv, AloneSkipsOrphans
  <1> QED
    BY <1>4, <1>5 DEF AloneInv

(***************************************************************************)
(* A region is created by a creator that is alone.                         *)
(***************************************************************************)
LEMMA AloneCreated ==
    ASSUME OverflowTypeOK, AloneInv, NEW w \in Writers, wpc[w] \in ScanPc, Created(w)
    PROVE  AloneInv'
  <1> USE NamesAndProcs
  <1>1. RegionsTyped /\ gen[w] \in Names /\ made \in Nat /\ OverflowSize(body[w]) \in Nat
    <2>1. RegionsTyped /\ gen[w] \in Names /\ body[w] \in Lengths \cup {0}
      BY DEF OverflowTypeOK
    <2>2. made \in Nat
      BY <2>1, RegionsAssumption DEF RegionsTyped
    <2>3. Lengths \cup {0} \subseteq Nat
      BY OverflowAssumption
    <2> QED
      BY <2>1, <2>2, <2>3, SizeFacts
  <1>2. /\ denotes[gen[w]] = 0
        /\ \A m \in Names : denotes'[m] = IF m = gen[w] THEN made + 1 ELSE denotes[m]
        /\ \A q \in Procs : map'[q] = IF q = w THEN made + 1 ELSE map[q]
        /\ UNCHANGED windows
    BY <1>1, CreateFacts DEF Created
  <1>3. /\ alone' = alone \cap {w} /\ UNCHANGED gen /\ wpc'[w] = "fill"
        /\ \A v \in Writers \ {w} : wpc'[v] = wpc[v]
    BY DEF Created, OverflowTypeOK
  <1>4. CASE w \notin alone
    BY <1>3, <1>4 DEF AloneInv, AloneInLoop, AloneSkipsOrphans
  <1>5. CASE w \in alone
    <2>1. /\ \A v \in Writers \ {w} : wpc[v] \notin ScanPc
          /\ windows => gen[w] = 0
          /\ \A g \in 0 .. gen[w] - 1 : Orphaned(g)
      BY <1>5 DEF AloneInv, AloneInLoop, AloneSkipsOrphans
    <2>2. \A g \in 0 .. gen[w] - 1 : g \in Names /\ g # gen[w] /\ denotes[g] # made + 1
      BY <1>1 DEF RegionsTyped
    <2>3. \A g \in 0 .. gen[w] - 1 : Orphaned(g)'
      BY <1>2, <2>1, <2>2 DEF Orphaned, Users
    <2>4. AloneInLoop'
      BY <1>3, <2>1 DEF AloneInLoop, ScanPc
    <2>5. AloneSkipsOrphans'
      BY <1>2, <1>3, <2>1, <2>3 DEF AloneSkipsOrphans, ScanPc
    <2> QED
      BY <2>4, <2>5 DEF AloneInv
  <1> QED
    BY <1>4, <1>5

(***************************************************************************)
(* A generation is passed over by a creator that is alone: on Unix only,   *)
(* and it is an orphan's.                                                  *)
(***************************************************************************)
LEMMA AlonePasses ==
    ASSUME OverflowTypeOK, AloneInv, NEW w \in Writers, wpc[w] \in ScanPc,
           UNCHANGED <<regionVars, alone>>, NextGeneration(w),
           w \in alone => ~windows /\ denotes[gen[w]] # 0
    PROVE  AloneInv'
  <1> USE NamesAndProcs
  <1>1. CASE w \notin alone
    BY <1>1, OnlyOneAlone DEF AloneInv, AloneInLoop, AloneSkipsOrphans
  <1>2. CASE w \in alone
    <2>1. /\ alone' = {w}
          /\ UNCHANGED <<windows, denotes, map>>
          /\ \A v \in Writers \ {w} : wpc'[v] = wpc[v]
          /\ IF gen[w] < MaxGeneration
             THEN wpc'[w] = "try" /\ gen'[w] = gen[w] + 1
             ELSE wpc'[w] = "failed" /\ gen'[w] = gen[w]
      BY <1>2, OnlyOneAlone DEF NextGeneration, regionVars, OverflowTypeOK
    <2>2. /\ ~windows
          /\ gen[w] \in 0 .. MaxGeneration
          /\ \A v \in Writers \ {w} : wpc[v] \notin ScanPc
          /\ \A p \in Procs : map[p] = 0
          /\ \A g \in 0 .. gen[w] - 1 : Orphaned(g)
      BY <1>2 DEF AloneInv, AloneInLoop, AloneSkipsOrphans, OverflowTypeOK
    <2>3. Orphaned(gen[w])
      BY <1>2, <2>2 DEF Orphaned, Users
    <2>4. \A g \in 0 .. gen[w] : Orphaned(g)'
      <3>1. \A g \in 0 .. gen[w] : g = gen[w] \/ g \in 0 .. gen[w] - 1
        BY <2>2
      <3>2. \A g \in 0 .. gen[w] : Orphaned(g)
        BY <2>2, <2>3, <3>1
      <3> QED
        BY <2>1, <3>2 DEF Orphaned, Users
    <2>5. AloneInLoop'
      BY <2>1, <2>2 DEF AloneInLoop, ScanPc
    <2>6. AloneSkipsOrphans'
      <3>1. CASE gen[w] < MaxGeneration
        <4>1. 0 .. gen'[w] - 1 = 0 .. gen[w] /\ wpc'[w] = "try"
          BY <2>1, <2>2, <3>1
        <4> QED
          BY <2>1, <2>2, <2>4, <4>1 DEF AloneSkipsOrphans
      <3>2. CASE ~(gen[w] < MaxGeneration)
        <4>1. Names = 0 .. gen[w] /\ wpc'[w] = "failed"
          BY <2>1, <2>2, <3>2
        <4> QED
          BY <2>1, <2>2, <2>4, <4>1 DEF AloneSkipsOrphans, ScanPc
      <3> QED
        BY <3>1, <3>2
    <2> QED
      BY <2>5, <2>6 DEF AloneInv
  <1> QED
    BY <1>1, <1>2

(***************************************************************************)
(* The steps of a creator in its loop.                                     *)
(***************************************************************************)
LEMMA AloneLoop ==
    ASSUME OverflowTypeOK, RegionInv, AloneInv, NEW w \in Writers,
           \/ \E len \in Lengths : BeginOverflow(w, len)
           \/ TryCreate(w) \/ Reclaim(w) \/ RetryCreate(w)
    PROVE  AloneInv'
  <1> USE NamesAndProcs
  <1>1. CASE \E len \in Lengths : BeginOverflow(w, len)
    <2>1. /\ UNCHANGED <<windows, denotes, map>>
          /\ wpc'[w] = "try" /\ gen'[w] = 0
          /\ \A v \in Writers \ {w} : wpc'[v] = wpc[v]
          /\ alone' = IF Quiet(w) THEN {w} ELSE {}
      BY <1>1 DEF BeginOverflow, regionVars, OverflowTypeOK
    <2>2. map[w] = 0
      BY <1>1 DEF BeginOverflow, RegionInv, WriterHolds, HoldingPc, PublishedPc
    <2>3. 0 .. gen'[w] - 1 = {}
      BY <2>1
    <2>4. Quiet(w) => (\A p \in Procs : map[p] = 0) /\ \A v \in Writers \ {w} : wpc[v] \notin ScanPc
      BY <2>2 DEF Quiet
    <2>5. AloneInLoop'
      BY <2>1, <2>4 DEF AloneInLoop
    <2>6. AloneSkipsOrphans'
      BY <2>1, <2>3 DEF AloneSkipsOrphans
    <2> QED
      BY <2>5, <2>6 DEF AloneInv
  <1>2. CASE TryCreate(w)
    <2>1. CASE Created(w)
      BY <1>2, <2>1, AloneCreated DEF TryCreate, ScanPc
    <2>2. CASE /\ denotes[gen[w]] # 0 /\ wpc' = [wpc EXCEPT ![w] = "reclaim"]
               /\ UNCHANGED <<regionVars, gen, alone>>
      <3>1. wpc[w] = "try" /\ alone \subseteq {w}
        BY <1>2, OnlyOneAlone DEF TryCreate, ScanPc
      <3>2. /\ UNCHANGED <<windows, denotes, map, gen, alone>>
            /\ wpc'[w] = "reclaim"
            /\ \A v \in Writers \ {w} : wpc'[v] = wpc[v]
        BY <2>2 DEF regionVars, OverflowTypeOK
      <3>3. \A g : Orphaned(g) => Orphaned(g)'
        BY <3>2 DEF Orphaned, Users
      <3>4. AloneInLoop'
        BY <2>2, <3>1, <3>2 DEF AloneInv, AloneInLoop, ScanPc
      <3>5. AloneSkipsOrphans'
        BY <3>1, <3>2, <3>3 DEF AloneInv, AloneSkipsOrphans, ScanPc
      <3> QED
        BY <3>4, <3>5 DEF AloneInv
    <2> QED
      BY <1>2, <2>1, <2>2 DEF TryCreate
  <1>3. CASE Reclaim(w)
    <2>1. wpc[w] = "reclaim" /\ alone' = alone /\ alone \subseteq {w}
      BY <1>3, OnlyOneAlone DEF Reclaim, ScanPc
    <2>2. w \in alone => Orphaned(gen[w])
      BY <2>1 DEF AloneInv, AloneInLoop, ScanPc, Orphaned, Users
    <2>3. CASE ReclaimRegion(gen[w]) /\ wpc' = [wpc EXCEPT ![w] = "retry"] /\ UNCHANGED gen
      <3>1. RegionsTyped /\ gen[w] \in Names
        BY DEF OverflowTypeOK
      <3>2. windows /\ denotes'[gen[w]] = 0 /\ UNCHANGED <<windows, map>>
        BY <2>3, <3>1, ReclaimFacts
      <3>3. wpc'[w] = "retry" /\ gen'[w] = gen[w] /\ \A v \in Writers \ {w} : wpc'[v] = wpc[v]
        BY <2>3 DEF OverflowTypeOK
      <3>4. w \in alone => gen[w] = 0 /\ 0 .. gen[w] - 1 = {}
        BY <2>1, <3>2 DEF AloneInv, AloneInLoop, ScanPc
      <3>5. AloneInLoop'
        BY <2>1, <3>2, <3>3, <3>4 DEF AloneInv, AloneInLoop, ScanPc
      <3>6. AloneSkipsOrphans'
        BY <2>1, <3>3, <3>4 DEF AloneSkipsOrphans, ScanPc
      <3> QED
        BY <3>5, <3>6 DEF AloneInv
    <2>4. CASE ~CanReclaim(gen[w]) /\ NextGeneration(w) /\ UNCHANGED regionVars
      <3>1. w \in alone => ~windows /\ denotes[gen[w]] # 0
        BY <2>2, <2>4 DEF CanReclaim, Orphaned
      <3> QED
        BY <2>1, <2>4, <3>1, AlonePasses DEF ScanPc
    <2> QED
      BY <1>3, <2>3, <2>4 DEF Reclaim
  <1>4. CASE RetryCreate(w)
    <2>1. CASE Created(w)
      BY <1>4, <2>1, AloneCreated DEF RetryCreate, ScanPc
    <2>2. CASE denotes[gen[w]] # 0 /\ NextGeneration(w) /\ UNCHANGED <<regionVars, alone>>
      <3>1. w \notin alone
        BY <1>4, <2>2 DEF RetryCreate, AloneInv, AloneInLoop
      <3> QED
        BY <1>4, <2>2, <3>1, AlonePasses DEF RetryCreate, ScanPc
    <2> QED
      BY <1>4, <2>1, <2>2 DEF RetryCreate
  <1> QED
    BY <1>1, <1>2, <1>3, <1>4

(***************************************************************************)
(* The other steps: a handle goes, or a slot moves on.                     *)
(***************************************************************************)
LEMMA AloneElsewhere ==
    ASSUME OverflowTypeOK, AloneInv,
           UNCHANGED regionVars \/ \E p \in Procs : CloseRegion(p) \/ KillRegion(p),
           alone' \subseteq alone,
           \A v \in alone' : gen'[v] = gen[v],
           \A v \in Writers : wpc'[v] \in ScanPc \cup {"fill", "failed"} => wpc'[v] = wpc[v]
    PROVE  AloneInv'
  <1> USE NamesAndProcs
  <1>1. /\ UNCHANGED windows
        /\ \A p \in Procs : map'[p] = map[p] \/ map'[p] = 0
        /\ \A n \in Names : denotes'[n] = denotes[n]
                              \/ \E p \in Procs : map[p] # 0 /\ map[p] = denotes[n]
    <2>1. CASE UNCHANGED regionVars
      BY <2>1 DEF regionVars
    <2>2. ASSUME NEW p \in Procs, CloseRegion(p)
          PROVE  /\ UNCHANGED windows
                 /\ \A q \in Procs : map'[q] = map[q] \/ map'[q] = 0
                 /\ \A n \in Names : denotes'[n] = denotes[n] \/ (map[p] # 0 /\ map[p] = denotes[n])
      <3>1. RegionsTyped
        BY DEF OverflowTypeOK
      <3> QED
        BY <2>2, <3>1, CloseFacts
    <2>3. ASSUME NEW p \in Procs, KillRegion(p)
          PROVE  /\ UNCHANGED windows
                 /\ \A q \in Procs : map'[q] = map[q] \/ map'[q] = 0
                 /\ \A n \in Names : denotes'[n] = denotes[n] \/ (map[p] # 0 /\ map[p] = denotes[n])
      <3>1. RegionsTyped
        BY DEF OverflowTypeOK
      <3> QED
        BY <2>3, <3>1, KillFacts
    <2> QED
      BY <2>1, <2>2, <2>3
  <1> QED
    BY <1>1, AloneKept

(***************************************************************************)
(* Every step keeps what a creator nobody interferes with knows.           *)
(***************************************************************************)
LEMMA AloneStep ==
    ASSUME OverflowTypeOK, RegionInv, AloneInv, [OverflowNext]_overflowVars
    PROVE  AloneInv'
  <1> USE NamesAndProcs
  <1>0. wpc \in [Writers -> {"idle", "fill", "failed"} \cup ScanPc \cup PublishedPc] /\ alone \subseteq Writers
        /\ gen \in [Writers -> Names]
    BY DEF OverflowTypeOK
  <1>1. CASE UNCHANGED overflowVars
    BY <1>1, AloneElsewhere DEF overflowVars
  <1>2. ASSUME NEW w \in Writers,
               \/ \E len \in Lengths : BeginOverflow(w, len)
               \/ TryCreate(w) \/ Reclaim(w) \/ RetryCreate(w)
        PROVE  AloneInv'
    BY <1>2, AloneLoop
  <1>3. ASSUME NEW w \in Writers, FillAndPublish(w) \/ \E r \in Readers : ReaderClaim(r, w)
        PROVE  AloneInv'
    <2>1. /\ UNCHANGED <<regionVars, alone, gen>>
          /\ \E pc \in {"ready", "claimed"} : wpc' = [wpc EXCEPT ![w] = pc]
      BY <1>3 DEF FillAndPublish, ReaderClaim
    <2>2. \A v \in Writers : wpc'[v] \in ScanPc \cup {"fill", "failed"} => wpc'[v] = wpc[v]
      BY <1>0, <2>1 DEF ScanPc
    <2> QED
      BY <2>1, <2>2, AloneElsewhere
  <1>4. ASSUME NEW w \in Writers, ReleaseOverflow(w) \/ DropConnection(w) \/ WriterKill(w)
        PROVE  AloneInv'
    <2>1. (CloseRegion(w) \/ KillRegion(w)) /\ Settle(w)
      BY <1>4 DEF ReleaseOverflow, DropConnection, WriterKill
    <2>2. /\ alone' \subseteq alone
          /\ \A v \in alone' : gen'[v] = gen[v]
          /\ \A v \in Writers : wpc'[v] \in ScanPc \cup {"fill", "failed"} => wpc'[v] = wpc[v]
      BY <1>0, <2>1 DEF Settle, ScanPc
    <2> QED
      BY <2>1, <2>2, AloneElsewhere
  <1>5. ASSUME NEW r \in Readers, ReaderOpen(r) \/ ReaderFinish(r) \/ ReaderKill(r)
        PROVE  AloneInv'
    <2>1. CASE alone' = {}
      BY <2>1 DEF AloneInv, AloneInLoop, AloneSkipsOrphans
    <2>2. CASE /\ UNCHANGED regionVars \/ CloseRegion(r) \/ KillRegion(r)
               /\ UNCHANGED <<alone, gen>>
               /\ UNCHANGED wpc \/ SlotReleased(r)
      <3>1. \A v \in Writers : wpc'[v] \in ScanPc \cup {"fill", "failed"} => wpc'[v] = wpc[v]
        BY <2>2 DEF SlotReleased, ScanPc
      <3> QED
        BY <2>2, <3>1, AloneElsewhere
    <2> QED
      BY <1>5, <2>1, <2>2 DEF ReaderOpen, ReaderFinish, ReaderKill, ReadOver
  <1> QED
    BY <1>1, <1>2, <1>3, <1>4, <1>5 DEF OverflowNext

(***************************************************************************)
(* Killed processes cost a creator nobody interferes with no name on       *)
(* Windows, and on Unix exactly the names of their orphans.                *)
(***************************************************************************)
THEOREM KillsCost == OverflowSpec => []KillsCostNoNames
  <1>1. OverflowInit => AloneInv
    BY DEF OverflowInit, AloneInv, AloneInLoop, AloneSkipsOrphans
  <1>2. OverflowTypeOK /\ RegionInv /\ AloneInv /\ [OverflowNext]_overflowVars => AloneInv'
    BY AloneStep
  <1>3. AloneInv => KillsCostNoNames
    BY DEF AloneInv, AloneSkipsOrphans, KillsCostNoNames
  <1> QED
    BY <1>1, <1>2, <1>3, RegionInvCorrect, PTL DEF OverflowSpec
=============================================================================
