---------------------------- MODULE NamedRegions ----------------------------
(***************************************************************************)
(* Named shared-memory regions as region.rs sees them: an exclusive        *)
(* create that fails when the name is taken, opening by name, the owner's  *)
(* handle that removes the name, processes killed before they could, and   *)
(* on Windows the reclaiming of a file nobody holds.  The operating system *)
(* and the shared_memory crate are modelled from how region.rs uses them.  *)
(* The actions here are parts of those of Attach and OverflowNames.        *)
(***************************************************************************)
EXTENDS Integers

CONSTANTS
    Names,        \* names a region may have
    Procs,        \* processes; each maps at most one region at a time
    MaxRegions,   \* bound: regions created in one behaviour
    NoProc        \* no process

ASSUME RegionsAssumption == MaxRegions \in Nat /\ NoProc \notin Procs

Regions == 1 .. MaxRegions

VARIABLES
    windows,   \* the platform: Windows or Unix; no step changes it
    made,      \* how many regions were created
    denotes,   \* the region a name stands for, 0 for none
    regionLen, \* the length of each mapping
    owner,     \* the process whose handle removes the name: the creator
    map,       \* the region each process has mapped, 0 for none
    doomed     \* Windows: regions whose name goes with the last handle

regionVars == <<windows, made, denotes, regionLen, owner, map, doomed>>

RegionsTyped ==
    /\ windows \in BOOLEAN
    /\ made \in 0 .. MaxRegions
    /\ denotes \in [Names -> 0 .. made]
    /\ regionLen \in [Regions -> Nat]
    /\ owner \in [Regions -> Procs \cup {NoProc}]
    /\ map \in [Procs -> 0 .. made]
    /\ doomed \subseteq 1 .. made

RegionsInit ==
    /\ windows \in BOOLEAN
    /\ made = 0
    /\ denotes = [n \in Names |-> 0]
    /\ regionLen = [k \in Regions |-> 0]
    /\ owner = [k \in Regions |-> NoProc]
    /\ map = [p \in Procs |-> 0]
    /\ doomed = {}

Users(k) == {p \in Procs : map[p] = k}

\* A live user of a region, creator or opener, is one that still maps it.
Orphaned(n) == denotes[n] # 0 /\ Users(denotes[n]) = {}

\* try_create_exclusive succeeds.
CreateRegion(p, n, l) ==
    /\ denotes[n] = 0
    /\ made < MaxRegions
    /\ made' = made + 1
    /\ denotes' = [denotes EXCEPT ![n] = made + 1]
    /\ regionLen' = [regionLen EXCEPT ![made + 1] = l]
    /\ owner' = [owner EXCEPT ![made + 1] = p]
    /\ map' = [map EXCEPT ![p] = made + 1]
    /\ UNCHANGED <<windows, doomed>>

\* open: the mapping has the length it was created with.
CanOpen(n) == denotes[n] # 0 /\ denotes[n] \notin doomed
OpenRegion(p, n) ==
    /\ CanOpen(n)
    /\ map' = [map EXCEPT ![p] = denotes[n]]
    /\ UNCHANGED <<windows, made, denotes, regionLen, owner, doomed>>

\* CanReclaim gone wrong: the file is removed whoever has it open.
MutReclaimAny(n) == windows /\ denotes[n] # 0

\* reclaim_orphaned_backing_file: the exclusive open succeeds only on a file
\* nobody has open, and only Windows can tell; the name goes with it.
CanReclaim(n) == windows /\ Orphaned(n)
ReclaimRegion(n) ==
    /\ CanReclaim(n)
    /\ denotes' = [denotes EXCEPT ![n] = 0]
    /\ UNCHANGED <<windows, made, regionLen, owner, map, doomed>>

\* Region k loses its name.
Unnamed(k) == [n \in Names |-> IF denotes[n] = k THEN 0 ELSE denotes[n]]

\* The handle of p is dropped.  Dropping the owner's removes the name: at once
\* on Unix; on Windows at once or, while others have the file open, with the
\* last of their handles.
CloseRegion(p) ==
    LET k == map[p] IN
    /\ map' = [map EXCEPT ![p] = 0]
    /\ UNCHANGED <<windows, made, regionLen>>
    /\ IF k = 0 \/ (owner[k] # p /\ k \notin doomed)
       THEN UNCHANGED <<denotes, owner, doomed>>
       ELSE /\ owner' = [owner EXCEPT ![k] = NoProc]
            /\ \/ /\ owner[k] = p \/ Users(k) = {p}
                  /\ denotes' = Unnamed(k)
                  /\ doomed' = doomed \ {k}
               \/ /\ windows
                  /\ Users(k) # {p}
                  /\ doomed' = doomed \cup {k}
                  /\ UNCHANGED denotes

\* The process is killed: its handles are closed, no destructor runs.  A region
\* it owned keeps its name.
KillRegion(p) ==
    LET k == map[p] IN
    /\ map' = [map EXCEPT ![p] = 0]
    /\ owner' = [r \in Regions |-> IF owner[r] = p THEN NoProc ELSE owner[r]]
    /\ IF k \in doomed /\ Users(k) = {p}
       THEN denotes' = Unnamed(k) /\ doomed' = doomed \ {k}
       ELSE UNCHANGED <<denotes, doomed>>
    /\ UNCHANGED <<windows, made, regionLen>>
=============================================================================
