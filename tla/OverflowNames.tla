---------------------------- MODULE OverflowNames ----------------------------
(***************************************************************************)
(* Generation-stamped names of overflow regions: the loop of               *)
(* create_overflow_fresh, one attempt at a time, over the names of one     *)
(* slot and direction, and the peer that reads a region by the marker it   *)
(* found in the slot.  Connections over these names follow one another in  *)
(* each creating process, and a forgotten one may live on in another; any  *)
(* process may be killed.                                                  *)
(***************************************************************************)
EXTENDS NamedRegions

CONSTANTS
    Writers,       \* processes that create regions: hubs, for requests
    Readers,       \* threads of peers that claim a slot and read its body
    MaxGeneration, \* MAX_OVERFLOW_GENERATION
    Lengths        \* lengths of bodies that do not fit inline

ASSUME OverflowAssumption ==
    /\ MaxGeneration \in Nat
    /\ Names = 0 .. MaxGeneration
    /\ Procs = Writers \cup Readers
    /\ Writers \cap Readers = {}
    /\ Lengths \subseteq Nat \ {0}

VARIABLES
    wpc,      \* how far the creator's payload has come
    gen,      \* the generation its loop is at
    body,     \* the length of its payload
    filled,   \* the regions that hold their payload
    rpc,      \* how far each reader has come
    snap,     \* what a reader copied from the slot: generation and length
    own,      \* the region that body was put in (not in the code)
    alone     \* creators nobody has interfered with (not in the code)

overflowVars == <<regionVars, wpc, gen, body, filled, rpc, snap, own, alone>>

ScanPc == {"try", "reclaim", "retry"}
PublishedPc == {"ready", "claimed", "answered"}

OverflowTypeOK ==
    /\ RegionsTyped
    /\ wpc \in [Writers -> {"idle", "fill", "failed"} \cup ScanPc \cup PublishedPc]
    /\ gen \in [Writers -> 0 .. MaxGeneration]
    /\ body \in [Writers -> Lengths \cup {0}]
    /\ filled \subseteq 1 .. made
    /\ rpc \in [Readers -> {"idle", "claimed", "mapped"}]
    /\ snap \in [Readers -> [gen : 0 .. MaxGeneration, len : Lengths \cup {0}]]
    /\ own \in [Readers -> 0 .. made]
    /\ alone \subseteq Writers

OverflowInit ==
    /\ RegionsInit
    /\ wpc = [w \in Writers |-> "idle"]
    /\ gen = [w \in Writers |-> 0]
    /\ body = [w \in Writers |-> 0]
    /\ filled = {}
    /\ rpc = [r \in Readers |-> "idle"]
    /\ snap = [r \in Readers |-> [gen |-> 0, len |-> 0]]
    /\ own = [r \in Readers |-> 0]
    /\ alone = {}

\* overflow_size_for: whole pages, one at least.
OverflowSize(len) == 4096 * ((len + 4095) \div 4096)

Quiet(w) ==
    /\ \A p \in Procs \ {w} : map[p] = 0
    /\ \A v \in Writers \ {w} : wpc[v] \notin ScanPc
-----------------------------------------------------------------------------
\* A payload that spills: the loop starts at generation 0.
BeginOverflow(w, len) ==
    /\ wpc[w] \in {"idle", "failed"}
    /\ wpc' = [wpc EXCEPT ![w] = "try"]
    /\ gen' = [gen EXCEPT ![w] = 0]
    /\ body' = [body EXCEPT ![w] = len]
    /\ alone' = IF Quiet(w) THEN {w} ELSE {}
    /\ UNCHANGED <<regionVars, filled, rpc, snap, own>>

\* NextGeneration gone wrong: the loop runs one generation too far.
MutOneGenerationMore(w) ==
    IF gen[w] <= MaxGeneration
    THEN wpc' = [wpc EXCEPT ![w] = "try"] /\ gen' = [gen EXCEPT ![w] = @ + 1]
    ELSE wpc' = [wpc EXCEPT ![w] = "failed"] /\ UNCHANGED gen

\* create_exclusive returned None.
NextGeneration(w) ==
    IF gen[w] < MaxGeneration
    THEN wpc' = [wpc EXCEPT ![w] = "try"] /\ gen' = [gen EXCEPT ![w] = @ + 1]
    ELSE wpc' = [wpc EXCEPT ![w] = "failed"] /\ UNCHANGED gen

\* try_create_exclusive finds the name free.
Created(w) ==
    /\ CreateRegion(w, gen[w], OverflowSize(body[w]))
    /\ wpc' = [wpc EXCEPT ![w] = "fill"]
    /\ alone' = alone \cap {w}
    /\ UNCHANGED gen

\* TryCreate gone wrong: an existing region of that name is used.
MutAdoptExisting(w) ==
    /\ wpc[w] = "try"
    /\ \/ Created(w)
       \/ /\ OpenRegion(w, gen[w])
          /\ wpc' = [wpc EXCEPT ![w] = "fill"]
          /\ alone' = alone \cap {w}
          /\ UNCHANGED gen
    /\ UNCHANGED <<body, filled, rpc, snap, own>>

\* The first attempt of create_exclusive.
TryCreate(w) ==
    /\ wpc[w] = "try"
    /\ \/ Created(w)
       \/ /\ denotes[gen[w]] # 0
          /\ wpc' = [wpc EXCEPT ![w] = "reclaim"]
          /\ UNCHANGED <<regionVars, gen, alone>>
    /\ UNCHANGED <<body, filled, rpc, snap, own>>

\* Reclaim gone wrong: the name that became free is not tried again.
MutReclaimNoRetry(w) ==
    /\ wpc[w] = "reclaim"
    /\ IF CanReclaim(gen[w]) THEN ReclaimRegion(gen[w]) ELSE UNCHANGED regionVars
    /\ NextGeneration(w)
    /\ UNCHANGED <<body, filled, rpc, snap, own, alone>>

\* The attempt to reclaim an orphan: false when somebody has it open, or when
\* it has gone meanwhile.
Reclaim(w) ==
    /\ wpc[w] = "reclaim"
    /\ \/ /\ ReclaimRegion(gen[w])
          /\ wpc' = [wpc EXCEPT ![w] = "retry"]
          /\ UNCHANGED gen
       \/ /\ ~CanReclaim(gen[w])
          /\ NextGeneration(w)
          /\ UNCHANGED regionVars
    /\ UNCHANGED <<body, filled, rpc, snap, own, alone>>

\* The second attempt, which another process may have anticipated.
RetryCreate(w) ==
    /\ wpc[w] = "retry"
    /\ \/ Created(w)
       \/ /\ denotes[gen[w]] # 0
          /\ NextGeneration(w)
          /\ UNCHANGED <<regionVars, alone>>
    /\ UNCHANGED <<body, filled, rpc, snap, own>>

\* fill_overflow; then the marker is stored and the slot published.
FillAndPublish(w) ==
    /\ wpc[w] = "fill"
    /\ filled' = filled \cup {map[w]}
    /\ wpc' = [wpc EXCEPT ![w] = "ready"]
    /\ UNCHANGED <<regionVars, gen, body, rpc, snap, own, alone>>

\* The creator is done with a payload, its locals are gone.
Settle(w) ==
    /\ wpc' = [wpc EXCEPT ![w] = "idle"]
    /\ gen' = [gen EXCEPT ![w] = 0]
    /\ body' = [body EXCEPT ![w] = 0]
    /\ alone' = alone \ {w}
    /\ UNCHANGED <<filled, rpc, snap, own>>

\* The watcher has freed the slot, or the next dispatch() of it begins: the
\* handle is dropped.
ReleaseOverflow(w) == wpc[w] = "answered" /\ CloseRegion(w) /\ Settle(w)

\* The connection is dropped with all its handles, whatever state its slots are
\* in; the next one of this process starts with none.
DropConnection(w) == wpc[w] \in {"ready", "claimed"} /\ CloseRegion(w) /\ Settle(w)

WriterKill(w) == wpc[w] \in ScanPc \cup PublishedPc \cup {"fill"} /\ KillRegion(w) /\ Settle(w)
-----------------------------------------------------------------------------
\* A reader claims the slot and copies marker and length.
ReaderClaim(r, w) ==
    /\ rpc[r] = "idle"
    /\ wpc[w] = "ready"
    /\ rpc' = [rpc EXCEPT ![r] = "claimed"]
    /\ wpc' = [wpc EXCEPT ![w] = "claimed"]
    /\ snap' = [snap EXCEPT ![r] = [gen |-> gen[w], len |-> body[w]]]
    /\ own' = [own EXCEPT ![r] = map[w]]
    /\ UNCHANGED <<regionVars, gen, body, filled, alone>>

\* The slot of reader r is released, in the control region it was claimed in:
\* its creator may be gone, or on another payload.
SlotReleased(r) ==
    wpc' = [w \in Writers |-> IF wpc[w] = "claimed" /\ map[w] = own[r] THEN "answered" ELSE wpc[w]]

\* The read is over, one way or another.
ReadOver(r) ==
    /\ rpc' = [rpc EXCEPT ![r] = "idle"]
    /\ snap' = [snap EXCEPT ![r] = [gen |-> 0, len |-> 0]]
    /\ own' = [own EXCEPT ![r] = 0]
    /\ UNCHANGED <<gen, body, filled>>

\* read_overflow opens the region by name, or the read fails.
ReaderOpen(r) ==
    /\ rpc[r] = "claimed"
    /\ \/ /\ OpenRegion(r, snap[r].gen)
          /\ rpc' = [rpc EXCEPT ![r] = "mapped"]
          /\ alone' = {}
          /\ UNCHANGED <<wpc, gen, body, filled, snap, own>>
       \/ /\ ~CanOpen(snap[r].gen)
          /\ ReadOver(r)
          /\ SlotReleased(r)
          /\ UNCHANGED <<regionVars, alone>>

\* It copies what fits the mapping, closes it, and the slot is answered.
ReaderFinish(r) ==
    /\ rpc[r] = "mapped"
    /\ CloseRegion(r)
    /\ ReadOver(r)
    /\ SlotReleased(r)
    /\ UNCHANGED alone

\* The peer is killed: its slot stays claimed.
ReaderKill(r) ==
    /\ rpc[r] # "idle"
    /\ KillRegion(r)
    /\ ReadOver(r)
    /\ UNCHANGED <<wpc, alone>>

OverflowNext ==
    \/ \E w \in Writers :
        \/ \E len \in Lengths : BeginOverflow(w, len)
        \/ TryCreate(w) \/ Reclaim(w) \/ RetryCreate(w)
        \/ FillAndPublish(w) \/ ReleaseOverflow(w) \/ DropConnection(w) \/ WriterKill(w)
        \/ \E r \in Readers : ReaderClaim(r, w)
    \/ \E r \in Readers : ReaderOpen(r) \/ ReaderFinish(r) \/ ReaderKill(r)

OverflowSpec == OverflowInit /\ [][OverflowNext]_overflowVars
-----------------------------------------------------------------------------
(***************************************************************************)
(* A payload is copied into a mapping that is long enough for it and that  *)
(* no other creator writes: adopting a region of that name would copy past *)
(* its end ("a wild write", create_overflow).                              *)
(***************************************************************************)
NoWildWrite ==
    \A w \in Writers : wpc[w] = "fill" =>
        /\ map[w] # 0 /\ body[w] <= regionLen[map[w]]
        /\ \A v \in Writers \ {w} : map[v] # map[w]

(***************************************************************************)
(* As long as its creator holds a region, a reader that found its marker,  *)
(* however slow, opens that region by name and finds the whole payload,    *)
(* whatever other creators make, skip or reclaim meanwhile.                *)
(***************************************************************************)
SlowReaderServed ==
    \A r \in Readers : rpc[r] # "idle" /\ (\E w \in Writers : map[w] = own[r]) =>
        /\ IF rpc[r] = "mapped" THEN map[r] = own[r]
           ELSE CanOpen(snap[r].gen) /\ denotes[snap[r].gen] = own[r]
        /\ own[r] \in filled
        /\ snap[r].len <= regionLen[own[r]]

(***************************************************************************)
(* What killed processes cost a creator nobody interferes with: nothing on *)
(* Windows, where it always gets generation 0; on Unix exactly the         *)
(* generations their orphans occupy, and an error only when those occupy   *)
(* every one (reclaim_orphaned_backing_file, create_exclusive).            *)
(***************************************************************************)
KillsCostNoNames ==
    \A w \in alone :
        /\ wpc[w] \in {"fill", "failed"} /\ windows => wpc[w] = "fill" /\ gen[w] = 0
        /\ wpc[w] = "fill" => \A g \in 0 .. gen[w] - 1 : Orphaned(g)
        /\ wpc[w] = "failed" => \A g \in Names : Orphaned(g)

(***************************************************************************)
(* What README says of the names: "a slow reader can never be handed a new *)
(* region created for a reused slot under the same name".                  *)
(***************************************************************************)
NewRegionNeverHanded == \A r \in Readers : rpc[r] = "mapped" => map[r] = own[r]
=============================================================================
