------------------------- MODULE NamedRegionsProofs -------------------------
(***************************************************************************)
(* What each operation on named regions changes, for any names, processes  *)
(* and number of regions: the lemmas OverflowNamesProofs and AttachProofs  *)
(* rest on.                                                                *)
(***************************************************************************)
EXTENDS NamedRegions, TLAPS

(***************************************************************************)
(* What each operation on a region changes: it keeps the types, and the    *)
(* lengths of the regions there are.                                       *)
(***************************************************************************)
LEMMA CreateFacts ==
    ASSUME RegionsTyped, NEW p \in Procs, NEW n \in Names, NEW l \in Nat, CreateRegion(p, n, l)
    PROVE  /\ RegionsTyped'
           /\ made' = made + 1
           /\ made + 1 \in Regions
           /\ denotes[n] = 0
           /\ \A m \in Names : denotes'[m] = IF m = n THEN made + 1 ELSE denotes[m]
           /\ \A k \in Regions : regionLen'[k] = IF k = made + 1 THEN l ELSE regionLen[k]
           /\ \A k \in Regions : owner'[k] = IF k = made + 1 THEN p ELSE owner[k]
           /\ \A q \in Procs : map'[q] = IF q = p THEN made + 1 ELSE map[q]
           /\ UNCHANGED <<windows, doomed>>
  <1>1. made \in Nat /\ made + 1 \in Regions /\ 0 .. made \subseteq 0 .. made + 1
    BY RegionsAssumption DEF RegionsTyped, CreateRegion, Regions
  <1>2. /\ made' = made + 1
        /\ denotes[n] = 0
        /\ denotes' = [denotes EXCEPT ![n] = made + 1]
        /\ regionLen' = [regionLen EXCEPT ![made + 1] = l]
        /\ owner' = [owner EXCEPT ![made + 1] = p]
        /\ map' = [map EXCEPT ![p] = made + 1]
        /\ UNCHANGED <<windows, doomed>>
    BY DEF CreateRegion
  <1>3. made' \in 0 .. MaxRegions /\ doomed' \subseteq 1 .. made' /\ windows' \in BOOLEAN
    BY <1>1, <1>2 DEF RegionsTyped, Regions
  <1>4. denotes' \in [Names -> 0 .. made'] /\ map' \in [Procs -> 0 .. made']
    BY <1>1, <1>2 DEF RegionsTyped
  <1>5. regionLen' \in [Regions -> Nat] /\ owner' \in [Regions -> Procs \cup {NoProc}]
    BY <1>1, <1>2 DEF RegionsTyped
  <1>6. RegionsTyped'
    BY <1>3, <1>4, <1>5 DEF RegionsTyped
  <1> QED
    BY <1>1, <1>2, <1>6 DEF RegionsTyped

(***************************************************************************)
(* A region is opened by its name: only the opener's mapping changes.      *)
(***************************************************************************)
LEMMA OpenFacts ==
    ASSUME RegionsTyped, NEW p \in Procs, NEW n \in Names, OpenRegion(p, n)
    PROVE  /\ RegionsTyped'
           /\ \A q \in Procs : map'[q] = IF q = p THEN denotes[n] ELSE map[q]
           /\ UNCHANGED <<windows, made, denotes, regionLen, owner, doomed>>
  BY DEF RegionsTyped, OpenRegion

(***************************************************************************)
(* An orphan is reclaimed: only its name goes, and only on Windows.        *)
(***************************************************************************)
LEMMA ReclaimFacts ==
    ASSUME RegionsTyped, NEW n \in Names, ReclaimRegion(n)
    PROVE  /\ RegionsTyped'
           /\ windows
           /\ Orphaned(n)
           /\ \A m \in Names : denotes'[m] = IF m = n THEN 0 ELSE denotes[m]
           /\ UNCHANGED <<windows, made, regionLen, owner, map, doomed>>
  BY DEF RegionsTyped, ReclaimRegion, CanReclaim

(***************************************************************************)
(* A handle is dropped, with its process or without: only the region it    *)
(* was on may lose its name, and only if that was due or its owner's.      *)
(***************************************************************************)
LEMMA CloseFacts ==
    ASSUME RegionsTyped, NEW p \in Procs, CloseRegion(p)
    PROVE  /\ RegionsTyped'
           /\ \A q \in Procs : map'[q] = IF q = p THEN 0 ELSE map[q]
           /\ \A n \in Names : denotes'[n] = denotes[n] \/ (denotes[n] = map[p] /\ denotes'[n] = 0)
           /\ \A k \in Regions : owner'[k] = owner[k] \/ (k = map[p] /\ owner'[k] = NoProc)
           /\ \A k \in doomed' : k \in doomed \/ (k = map[p] /\ owner'[k] = NoProc)
           /\ map[p] # 0 /\ owner[map[p]] # p /\ map[p] \notin doomed =>
                UNCHANGED <<denotes, owner, doomed>>
           /\ map[p] # 0 /\ owner[map[p]] = p => owner'[map[p]] = NoProc
           /\ map[p] = 0 => UNCHANGED <<denotes, owner, doomed>>
           /\ UNCHANGED <<windows, made, regionLen>>
  <1>1. /\ map[p] \in 0 .. made /\ made \in 0 .. MaxRegions
        /\ map[p] # 0 => map[p] \in 1 .. made /\ map[p] \in Regions
    BY RegionsAssumption DEF RegionsTyped, Regions
  <1>2. /\ UNCHANGED <<windows, made, regionLen>>
        /\ map' = [map EXCEPT ![p] = 0]
    BY DEF CloseRegion
  <1>3. CASE map[p] = 0 \/ (owner[map[p]] # p /\ map[p] \notin doomed)
    <2>1. UNCHANGED <<denotes, owner, doomed>>
      BY <1>3 DEF CloseRegion
    <2>2. RegionsTyped' /\ \A q \in Procs : map'[q] = IF q = p THEN 0 ELSE map[q]
      BY <1>1, <1>2, <2>1 DEF RegionsTyped
    <2> QED
      BY <1>2, <1>3, <2>1, <2>2
  <1>4. CASE map[p] # 0 /\ (owner[map[p]] = p \/ map[p] \in doomed)
    <2>1. /\ owner' = [owner EXCEPT ![map[p]] = NoProc]
          /\ \/ /\ denotes' = Unnamed(map[p])
                /\ doomed' = doomed \ {map[p]}
             \/ /\ doomed' = doomed \cup {map[p]}
                /\ UNCHANGED denotes
      BY <1>4 DEF CloseRegion
    <2>2. RegionsTyped'
      <3>1. doomed' \subseteq 1 .. made /\ denotes' \in [Names -> 0 .. made]
        <4>1. CASE denotes' = Unnamed(map[p]) /\ doomed' = doomed \ {map[p]}
          <5>1. 0 \in 0 .. made
            BY <1>1
          <5>2. \A n \in Names : (IF denotes[n] = map[p] THEN 0 ELSE denotes[n]) \in 0 .. made
            BY <5>1 DEF RegionsTyped
          <5> QED
            BY <4>1, <5>2 DEF RegionsTyped, Unnamed
        <4>2. CASE doomed' = doomed \cup {map[p]} /\ UNCHANGED denotes
          BY <1>1, <1>4, <4>2 DEF RegionsTyped
        <4> QED
          BY <2>1, <4>1, <4>2
      <3>2. owner' \in [Regions -> Procs \cup {NoProc}]
        BY <2>1 DEF RegionsTyped
      <3> QED
        BY <1>1, <1>2, <3>1, <3>2 DEF RegionsTyped
    <2>3. \A k \in Regions : owner'[k] = IF k = map[p] THEN NoProc ELSE owner[k]
      BY <2>1 DEF RegionsTyped
    <2>4. \A n \in Names : denotes'[n] = denotes[n] \/ (denotes[n] = map[p] /\ denotes'[n] = 0)
      BY <2>1 DEF Unnamed
    <2>5. \A k \in doomed' : k \in doomed \/ k = map[p]
      BY <2>1
    <2>6. \A q \in Procs : map'[q] = IF q = p THEN 0 ELSE map[q]
      BY <1>2 DEF RegionsTyped
    <2> QED
      BY <1>1, <1>2, <1>4, <2>2, <2>3, <2>4, <2>5, <2>6
  <1> QED
    BY <1>3, <1>4

(***************************************************************************)
(* A process is killed: it owns nothing any more, and a name goes only if  *)
(* that was due.                                                           *)
(***************************************************************************)
LEMMA KillFacts ==
    ASSUME RegionsTyped, NEW p \in Procs, KillRegion(p)
    PROVE  /\ RegionsTyped'
           /\ \A q \in Procs : map'[q] = IF q = p THEN 0 ELSE map[q]
           /\ \A n \in Names : denotes'[n] = denotes[n]
                \/ (denotes[n] = map[p] /\ denotes'[n] = 0 /\ map[p] \in doomed)
           /\ \A k \in Regions : owner'[k] = IF owner[k] = p THEN NoProc ELSE owner[k]
           /\ doomed' \subseteq doomed
           /\ map[p] = 0 => UNCHANGED denotes
           /\ UNCHANGED <<windows, made, regionLen>>
  <1>1. /\ UNCHANGED <<windows, made, regionLen>>
        /\ map' = [map EXCEPT ![p] = 0]
        /\ owner' = [r \in Regions |-> IF owner[r] = p THEN NoProc ELSE owner[r]]
        /\ \/ denotes' = Unnamed(map[p]) /\ doomed' = doomed \ {map[p]} /\ map[p] \in doomed
           \/ UNCHANGED <<denotes, doomed>>
    BY DEF KillRegion
  <1>2. 0 \notin doomed /\ 0 \in 0 .. made
    BY DEF RegionsTyped
  <1>3. RegionsTyped'
    BY <1>1, <1>2 DEF RegionsTyped, Unnamed
  <1>4. \A n \in Names : denotes'[n] = denotes[n]
            \/ (denotes[n] = map[p] /\ denotes'[n] = 0 /\ map[p] \in doomed)
    BY <1>1 DEF Unnamed
  <1> QED
    BY <1>1, <1>2, <1>3, <1>4 DEF RegionsTyped

(***************************************************************************)
(* A region loses its name with the handle of its owner, or when no        *)
(* process maps it any more.                                               *)
(***************************************************************************)
LEMMA NameLost ==
    ASSUME RegionsTyped, NEW n \in Names, NEW k \in Regions, denotes[n] = k, denotes'[n] # k,
           \/ UNCHANGED regionVars
           \/ \E p \in Procs :
                \/ \E m \in Names, l \in Nat : CreateRegion(p, m, l)
                \/ \E m \in Names : OpenRegion(p, m) \/ ReclaimRegion(m)
                \/ CloseRegion(p) \/ KillRegion(p)
    PROVE  \/ \A p \in Procs : map'[p] # k
           \/ \E p \in Procs : owner[k] = p /\ map[p] = k /\ map'[p] # k
  <1>1. k # 0 /\ denotes \in [Names -> 0 .. made] /\ map \in [Procs -> 0 .. made]
    BY DEF RegionsTyped, Regions
  <1>2. ASSUME NEW p \in Procs, NEW m \in Names, NEW l \in Nat, CreateRegion(p, m, l)
        PROVE  FALSE
    BY <1>1, <1>2 DEF CreateRegion
  <1>3. ASSUME NEW p \in Procs, NEW m \in Names, OpenRegion(p, m)
        PROVE  FALSE
    BY <1>3 DEF OpenRegion
  <1>4. ASSUME NEW m \in Names, ReclaimRegion(m)
        PROVE  \A p \in Procs : map'[p] # k
    BY <1>1, <1>4 DEF ReclaimRegion, CanReclaim, Orphaned, Users
  <1>5. ASSUME NEW p \in Procs, CloseRegion(p)
        PROVE  \/ \A q \in Procs : map'[q] # k
               \/ owner[k] = p /\ map[p] = k /\ map'[p] # k
    <2>1. map' = [map EXCEPT ![p] = 0] /\ map[p] = k /\ (owner[k] = p \/ Users(k) = {p})
      BY <1>1, <1>5 DEF CloseRegion, Unnamed
    <2> QED
      BY <1>1, <2>1 DEF Users
  <1>6. ASSUME NEW p \in Procs, KillRegion(p)
        PROVE  \A q \in Procs : map'[q] # k
    <2>1. map' = [map EXCEPT ![p] = 0] /\ map[p] = k /\ Users(k) = {p}
      BY <1>1, <1>6 DEF KillRegion, Unnamed
    <2> QED
      BY <1>1, <2>1 DEF Users
  <1> QED
    BY <1>2, <1>3, <1>4, <1>5, <1>6 DEF regionVars
=============================================================================
