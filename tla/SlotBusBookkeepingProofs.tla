---------------------- MODULE SlotBusBookkeepingProofs ----------------------
(***************************************************************************)
(* The bookkeeping dispatch() and send_response() do after they have       *)
(* published a slot: every overflow region has one handle, orphans are     *)
(* left alone, and the pending map loses an entry to nobody but the        *)
(* watcher that resolves it.                                               *)
(***************************************************************************)
EXTENDS SlotBusOwnershipProofs

ShmType == [Slots -> [Markers -> Payloads]]
OvfType == [Slots -> 0 .. MaxMarker]
SlotOf == [Calls -> Slots]
LocType == [Calls -> 0 .. MaxMarker]

(***************************************************************************)
(* A call without a local handle may be given another slot.                *)
(***************************************************************************)
LEMMA HandlesMoveCall ==
    ASSUME NEW shm, NEW ovf, NEW slot, NEW loc, NEW slot2, NEW B, NEW c \in Calls,
           HandleTable(shm, ovf, slot, loc, B), loc[c] = 0,
           \A d \in Calls \ {c} : slot2[d] = slot[d]
    PROVE  HandleTable(shm, ovf, slot2, loc, B)
  <1>1. LocalHandles(shm, ovf, slot2, loc, B)
    BY DEF HandleTable, LocalHandles
  <1>2. NamesHeld(shm, ovf, slot2, loc, B)
    BY BusAssumption DEF HandleTable, NamesHeld, Markers
  <1> QED
    BY <1>1, <1>2 DEF HandleTable

(***************************************************************************)
(* The handle in the map is dropped, and its name with it.                 *)
(***************************************************************************)
LEMMA HandlesRemove ==
    ASSUME NEW shm \in ShmType, NEW ovf \in OvfType, NEW slot \in SlotOf, NEW loc \in LocType, NEW B,
           NEW k \in Slots, HandleTable(shm, ovf, slot, loc, B)
    PROVE  HandleTable(DropHandle(shm, k, ovf[k]), [ovf EXCEPT ![k] = 0], slot, loc, B)
  <1> DEFINE shm2 == DropHandle(shm, k, ovf[k])
             ovf2 == [ovf EXCEPT ![k] = 0]
  <1>1. \A i \in Slots, m \in Markers :
            shm2[i][m] = IF i = k /\ m = ovf[k] THEN None ELSE shm[i][m]
    BY DEF DropHandle, ShmType
  <1>2. \A i \in Slots : ovf2[i] = IF i = k THEN 0 ELSE ovf[i]
    BY DEF OvfType
  <1>3. \A m \in 0 .. MaxMarker : m # 0 => m \in Markers
    BY BusAssumption DEF Markers
  <1>4. MapHandles(shm2, ovf2, B)
    BY <1>1, <1>2, <1>3 DEF HandleTable, MapHandles, OvfType
  <1>5. LocalHandles(shm2, ovf2, slot, loc, B)
    BY <1>1, <1>2, <1>3 DEF HandleTable, LocalHandles, SlotOf, LocType
  <1>6. NamesHeld(shm2, ovf2, slot, loc, B)
    BY <1>1, <1>2 DEF HandleTable, NamesHeld
  <1>7. BurntKept(shm2, B)
    BY <1>1, BusAssumption DEF HandleTable, MapHandles, BurntKept, Markers
  <1> QED
    BY <1>4, <1>5, <1>6, <1>7 DEF HandleTable

(***************************************************************************)
(* A region is created under a free name, with a local handle.             *)
(***************************************************************************)
LEMMA HandlesCreate ==
    ASSUME NEW shm \in ShmType, NEW ovf \in OvfType, NEW slot \in SlotOf, NEW loc \in LocType, NEW B,
           NEW c \in Calls, NEW m \in Markers,
           HandleTable(shm, ovf, slot, loc, B), loc[c] = 0, IsFreshMarker(shm, slot[c], m)
    PROVE  /\ HandleTable([shm EXCEPT ![slot[c]][m] = c], ovf, slot, [loc EXCEPT ![c] = m], B)
           /\ <<slot[c], m>> \notin B
  <1> DEFINE shm2 == [shm EXCEPT ![slot[c]][m] = c]
             loc2 == [loc EXCEPT ![c] = m]
  <1>1. \A i \in Slots, n \in Markers : shm2[i][n] = IF i = slot[c] /\ n = m THEN c ELSE shm[i][n]
    BY DEF ShmType, SlotOf
  <1>2. \A d \in Calls : loc2[d] = IF d = c THEN m ELSE loc[d]
    BY DEF LocType
  <1>3. /\ slot[c] \in Slots
        /\ shm[slot[c]][m] = None
        /\ m # 0
        /\ c # None
    BY BusAssumption DEF IsFreshMarker, FreeMarkers, Markers, SlotOf
  <1>4. <<slot[c], m>> \notin B
    BY <1>3 DEF HandleTable, BurntKept
  <1>5. \A n \in 0 .. MaxMarker : n # 0 => n \in Markers
    BY BusAssumption DEF Markers
  <1>6. MapHandles(shm2, ovf, B)
    BY <1>1, <1>3, <1>5 DEF HandleTable, MapHandles, OvfType
  <1>7. LocalHandles(shm2, ovf, slot, loc2, B)
    <2> SUFFICES ASSUME NEW e \in Calls, loc2[e] # 0
                 PROVE  /\ <<slot[e], loc2[e]>> \notin B
                        /\ shm2[slot[e]][loc2[e]] # None
                        /\ ovf[slot[e]] # loc2[e]
                        /\ \A d \in Calls \ {e} : slot[d] = slot[e] => loc2[d] # loc2[e]
      BY DEF LocalHandles
    <2>1. CASE e = c
      <3>1. shm2[slot[c]][m] # None
        BY <1>1, <1>3
      <3>2. ovf[slot[c]] # m
        BY <1>3 DEF HandleTable, MapHandles
      <3>3. \A d \in Calls \ {c} : slot[d] = slot[c] => loc[d] # m
        BY <1>3 DEF HandleTable, LocalHandles
      <3> QED
        BY <2>1, <1>2, <1>4, <3>1, <3>2, <3>3
    <2>2. CASE e # c
      <3>1. loc2[e] = loc[e] /\ loc[e] \in Markers /\ slot[e] \in Slots
        BY <2>2, <1>2, <1>5 DEF LocType, SlotOf
      <3>0. loc[e] # 0
        BY <3>1, BusAssumption DEF Markers
      <3>4. shm[slot[e]][loc[e]] # None /\ <<slot[e], loc[e]>> \notin B
        BY <3>0 DEF HandleTable, LocalHandles
      <3>2. shm2[slot[e]][loc[e]] # None
        BY <3>1, <3>4, <1>1, <1>3
      <3>3. \A d \in Calls \ {e} : slot[d] = slot[e] => loc2[d] # loc[e]
        BY <3>1, <1>2, <1>3 DEF HandleTable, LocalHandles
      <3> QED
        BY <3>0, <3>1, <3>2, <3>3, <3>4 DEF HandleTable, LocalHandles
    <2> QED
      BY <2>1, <2>2
  <1>8. NamesHeld(shm2, ovf, slot, loc2, B)
    <2> SUFFICES ASSUME NEW i \in Slots, NEW n \in Markers, shm2[i][n] # None, <<i, n>> \notin B
                 PROVE  ovf[i] = n \/ \E d \in Calls : slot[d] = i /\ loc2[d] = n
      BY DEF NamesHeld
    <2>1. CASE i = slot[c] /\ n = m
      BY <2>1, <1>2
    <2>2. CASE ~(i = slot[c] /\ n = m)
      <3>1. shm[i][n] # None
        BY <2>2, <1>1
      <3>2. n # 0
        BY BusAssumption DEF Markers
      <3> QED
        BY <3>1, <3>2, <1>2 DEF HandleTable, NamesHeld
    <2> QED
      BY <2>1, <2>2
  <1>9. BurntKept(shm2, B)
    BY <1>1, <1>4 DEF HandleTable, BurntKept
  <1> QED
    BY <1>4, <1>6, <1>7, <1>8, <1>9 DEF HandleTable

(***************************************************************************)
(* A local handle goes into the map; the one it replaces is dropped.       *)
(***************************************************************************)
LEMMA HandlesStore ==
    ASSUME NEW shm \in ShmType, NEW ovf \in OvfType, NEW slot \in SlotOf, NEW loc \in LocType, NEW B,
           NEW c \in Calls, HandleTable(shm, ovf, slot, loc, B), loc[c] # 0
    PROVE  HandleTable(DropHandle(shm, slot[c], ovf[slot[c]]),
                       [ovf EXCEPT ![slot[c]] = loc[c]], slot, [loc EXCEPT ![c] = 0], B)
  <1> DEFINE k == slot[c]
             shm2 == DropHandle(shm, k, ovf[k])
             ovf2 == [ovf EXCEPT ![k] = loc[c]]
             loc2 == [loc EXCEPT ![c] = 0]
  <1>1. \A i \in Slots, m \in Markers :
            shm2[i][m] = IF i = k /\ m = ovf[k] THEN None ELSE shm[i][m]
    BY DEF DropHandle, ShmType
  <1>2. \A i \in Slots : ovf2[i] = IF i = k THEN loc[c] ELSE ovf[i]
    BY DEF OvfType
  <1>3. \A d \in Calls : loc2[d] = IF d = c THEN 0 ELSE loc[d]
    BY DEF LocType
  <1>4. \A m \in 0 .. MaxMarker : m # 0 => m \in Markers
    BY BusAssumption DEF Markers
  <1>5. /\ k \in Slots
        /\ loc[c] \in Markers /\ <<k, loc[c]>> \notin B
        /\ shm[k][loc[c]] # None
        /\ ovf[k] # loc[c]
        /\ \A d \in Calls \ {c} : slot[d] = k => loc[d] # loc[c]
    BY <1>4 DEF HandleTable, LocalHandles, LocType, SlotOf
  <1>6. MapHandles(shm2, ovf2, B)
    BY <1>1, <1>2, <1>4, <1>5 DEF HandleTable, MapHandles, OvfType
  <1>7. LocalHandles(shm2, ovf2, slot, loc2, B)
    BY <1>1, <1>2, <1>3, <1>4, <1>5 DEF HandleTable, LocalHandles, SlotOf, LocType
  <1>8. NamesHeld(shm2, ovf2, slot, loc2, B)
    <2> SUFFICES ASSUME NEW i \in Slots, NEW n \in Markers, shm2[i][n] # None, <<i, n>> \notin B
                 PROVE  ovf2[i] = n \/ \E d \in Calls : slot[d] = i /\ loc2[d] = n
      BY DEF NamesHeld
    <2>1. shm[i][n] # None /\ ~(i = k /\ n = ovf[k])
      BY <1>1
    <2>2. CASE ovf[i] = n
      BY <2>1, <2>2, <1>2
    <2>3. ASSUME NEW d \in Calls, slot[d] = i, loc[d] = n
          PROVE  ovf2[i] = n \/ \E e \in Calls : slot[e] = i /\ loc2[e] = n
      BY <2>3, <1>2, <1>3
    <2> QED
      BY <2>1, <2>2, <2>3 DEF HandleTable, NamesHeld
  <1>9. BurntKept(shm2, B)
    BY <1>1, BusAssumption DEF HandleTable, MapHandles, BurntKept, Markers
  <1> QED
    BY <1>6, <1>7, <1>8, <1>9 DEF HandleTable

(***************************************************************************)
(* The names of the orphans, told apart by their marker.                   *)
(***************************************************************************)
LEMMA OrphanNamesFacts ==
    \A m : \A i \in Slots : <<i, m>> \in OrphanNames <=> m \in Orphans
  BY DEF OrphanNames

(***************************************************************************)
(* At the start only orphans have names, and nobody has a handle.          *)
(***************************************************************************)
LEMMA HandleInit == Init => HandleInv({}, {})
  <1> SUFFICES ASSUME Init PROVE HandleInv({}, {})
    OBVIOUS
  <1>1. \A i \in Slots, m \in Markers :
            /\ reqShm[i][m] = IF m \in Orphans THEN Mixed ELSE None
            /\ rspShm[i][m] = IF m \in Orphans THEN Mixed ELSE None
    BY DEF Init
  <1>2. Orphans \subseteq Markers /\ 0 \notin Orphans
    BY BusAssumption DEF Markers
  <1>3. HandleTable(reqShm, hubOvf, at, held, OrphanNames)
    BY <1>1, <1>2, OrphanNamesFacts, BusAssumption
        DEF Init, HandleTable, MapHandles, LocalHandles, NamesHeld, BurntKept
  <1>4. HandleTable(rspShm, wkOvf, hat, LiveLocals({}), OrphanNames \cup {})
    BY <1>1, <1>2, OrphanNamesFacts, BusAssumption
        DEF Init, HandleTable, MapHandles, LocalHandles, NamesHeld, BurntKept, LiveLocals
  <1>5. LocalsInUse /\ MarkersLive
    BY <1>2 DEF Init, LocalsInUse, MarkersLive
  <1> QED
    BY <1>3, <1>4, <1>5 DEF HandleInv

(***************************************************************************)
(* What the type invariant says of the tables of handles.                  *)
(***************************************************************************)
LEMMA TablesTyped ==
    ASSUME TypeOK
    PROVE  /\ reqShm \in ShmType /\ rspShm \in ShmType
           /\ hubOvf \in OvfType /\ wkOvf \in OvfType
           /\ at \in SlotOf /\ hat \in SlotOf
           /\ held \in LocType /\ hheld \in LocType
  BY DEF TypeOK, OsTyped, DispatchTyped, WorkerTyped, ShmType, OvfType, SlotOf, LocType

(***************************************************************************)
(* How the local handles of the live handlers follow hheld.                *)
(***************************************************************************)
LEMMA LiveLocalsFacts ==
    ASSUME TypeOK, NEW D
    PROVE  /\ LiveLocals(D) \in LocType
           /\ \A c \in Calls : hheld[c] = 0 \/ c \notin D => LiveLocals(D)[c] = hheld[c]
           /\ hheld' = hheld => LiveLocals(D)' = LiveLocals(D)
           /\ \A m : \A c \in Calls : c \notin D /\ hheld' = [hheld EXCEPT ![c] = m] =>
                  LiveLocals(D)' = [LiveLocals(D) EXCEPT ![c] = m]
  <1>1. hheld \in LocType /\ 0 \in 0 .. MaxMarker
    BY BusAssumption DEF TypeOK, WorkerTyped, LocType
  <1> QED
    BY <1>1 DEF LiveLocals, LocType

(***************************************************************************)
(* The steps of a dispatch(): it touches the tables of the hub only.       *)
(***************************************************************************)
LEMMA HandleDispatch ==
    ASSUME TypeOK, NEW D, NEW B, HandleInv(D, B), NEW c \in Calls, Start(c) \/ Dispatch(c)
    PROVE  HandleInv(D, B)'
  <1> USE TablesTyped
  <1>1. HandleTable(reqShm, hubOvf, at, held, OrphanNames) /\ HandleTable(rspShm, wkOvf, hat, LiveLocals(D), OrphanNames \cup B)
    BY DEF HandleInv
  <1>2. HandleTable(rspShm, wkOvf, hat, LiveLocals(D), OrphanNames \cup B)'
    BY <1>1 DEF Start, Dispatch, ClaimFreeSlot, DropStaleRequestOverflow, WriteRequest,
        PublishRequest, ReleaseFailedWrite, StoreRequestOverflow, RegisterPending, SignalRequest,
        osVars, slotVars, workerVars, HandleTable, MapHandles, LocalHandles, NamesHeld, BurntKept, LiveLocals
  <1>3. (\A d \in Calls : hheld[d] # 0 => hand[d] \in {"written", "published"})'
    BY DEF HandleInv, LocalsInUse, Start, Dispatch, ClaimFreeSlot, DropStaleRequestOverflow, WriteRequest,
        PublishRequest, ReleaseFailedWrite, StoreRequestOverflow, RegisterPending, SignalRequest,
        workerVars
  <1>4. ASSUME UNCHANGED <<reqShm, hubOvf, held>>,
               held[c] = 0 \/ at' = at,
               \A d \in Calls \ {c} : at'[d] = at[d]
        PROVE  HandleTable(reqShm, hubOvf, at, held, OrphanNames)'
    <2>1. CASE held[c] = 0
      BY <1>1, <1>4, <2>1, HandlesMoveCall
    <2>2. CASE at' = at
      BY <1>1, <1>4, <2>2 DEF HandleTable, MapHandles, LocalHandles, NamesHeld, BurntKept
    <2> QED
      BY <1>4, <2>1, <2>2
  <1>5. ASSUME UNCHANGED <<reqMarker, rspMarker, held>>,
               HandleTable(reqShm, hubOvf, at, held, OrphanNames)',
               \A d \in Calls \ {c} : disp'[d] = disp[d],
               held[c] # 0 => disp'[c] \in {"written", "published"}
        PROVE  HandleInv(D, B)'
    <2>1. LocalsInUse'
      BY <1>3, <1>5 DEF HandleInv, LocalsInUse
    <2>2. MarkersLive'
      BY <1>5 DEF HandleInv, MarkersLive
    <2> QED
      BY <1>2, <1>5, <2>1, <2>2 DEF HandleInv
  <1>6. \A d \in Calls : held[d] # 0 => disp[d] \in {"written", "published"}
    BY DEF HandleInv, LocalsInUse
  <1>7. CASE Start(c)
    <2>1. /\ UNCHANGED <<reqShm, hubOvf, held, reqMarker, rspMarker>>
          /\ held[c] = 0
          /\ \A d \in Calls \ {c} : at'[d] = at[d] /\ disp'[d] = disp[d]
      BY <1>6, <1>7 DEF Start, TypeOK, DispatchTyped, slotVars, osVars
    <2> QED
      BY <2>1, <1>4, <1>5
  <1>8. CASE ClaimFreeSlot(c)
    <2>1. /\ UNCHANGED <<reqShm, hubOvf, held, reqMarker, rspMarker>>
          /\ held[c] = 0
          /\ \A d \in Calls \ {c} : at'[d] = at[d] /\ disp'[d] = disp[d]
      BY <1>6, <1>8 DEF ClaimFreeSlot, TypeOK, DispatchTyped, osVars
    <2> QED
      BY <2>1, <1>4, <1>5
  <1>9. CASE DropStaleRequestOverflow(c)
    <2>1. /\ UNCHANGED <<at, held, reqMarker, rspMarker>>
          /\ held[c] = 0
          /\ \A d \in Calls \ {c} : disp'[d] = disp[d]
          /\ at[c] \in Slots
      BY <1>6, <1>9 DEF DropStaleRequestOverflow, TypeOK, DispatchTyped, slotVars
    <2>2. HandleTable(reqShm, hubOvf, at, held, OrphanNames)'
      BY <1>1, <1>9, <2>1, HandlesRemove DEF DropStaleRequestOverflow
    <2> QED
      BY <2>1, <2>2, <1>5
  <1>10. CASE WriteRequest(c)
    <2>1. /\ UNCHANGED <<at, hubOvf, rspMarker>>
          /\ held[c] = 0
          /\ at[c] \in Slots
      BY <1>6, <1>10 DEF WriteRequest, TypeOK, DispatchTyped
    <2>2. CASE UNCHANGED <<reqShm, held>> /\ (UNCHANGED reqMarker \/ reqMarker' = [reqMarker EXCEPT ![at[c]] = 0])
      <3>1. HandleTable(reqShm, hubOvf, at, held, OrphanNames)'
        BY <2>1, <2>2, <1>4
      <3>2. LocalsInUse'
        BY <1>3, <1>6, <1>10, <2>1, <2>2 DEF LocalsInUse, WriteRequest, TypeOK, DispatchTyped
      <3>3. MarkersLive'
        BY <2>1, <2>2, BusAssumption DEF HandleInv, MarkersLive, TypeOK, SlotsTyped
      <3> QED
        BY <1>2, <3>1, <3>2, <3>3 DEF HandleInv
    <2>3. ASSUME NEW m \in Markers, IsFreshMarker(reqShm, at[c], m),
                 reqShm' = [reqShm EXCEPT ![at[c]][m] = c],
                 reqMarker' = [reqMarker EXCEPT ![at[c]] = m],
                 held' = [held EXCEPT ![c] = m],
                 disp' = [disp EXCEPT ![c] = "written"]
          PROVE  HandleInv(D, B)'
      <3>1. HandleTable(reqShm, hubOvf, at, held, OrphanNames)' /\ <<at[c], m>> \notin OrphanNames
        BY <1>1, <2>1, <2>3, HandlesCreate
      <3>2. LocalsInUse'
        BY <1>3, <1>6, <2>3 DEF LocalsInUse, TypeOK, DispatchTyped
      <3>3. MarkersLive'
        BY <2>1, <2>3, <3>1 DEF HandleInv, MarkersLive, OrphanNames, TypeOK, SlotsTyped
      <3> QED
        BY <1>2, <3>1, <3>2, <3>3 DEF HandleInv
    <2> QED
      BY <1>10, <2>2, <2>3 DEF WriteRequest
  <1>11. CASE PublishRequest(c)
    <2>1. /\ UNCHANGED <<reqShm, hubOvf, at, held, reqMarker, rspMarker>>
          /\ disp'[c] = "published"
          /\ \A d \in Calls \ {c} : disp'[d] = disp[d]
      BY <1>11 DEF PublishRequest, TypeOK, DispatchTyped, osVars
    <2> QED
      BY <2>1, <1>4, <1>5
  <1>12. CASE ReleaseFailedWrite(c)
    <2>1. /\ UNCHANGED <<reqShm, hubOvf, at, held, reqMarker, rspMarker>>
          /\ held[c] = 0
          /\ \A d \in Calls \ {c} : disp'[d] = disp[d]
      BY <1>6, <1>12 DEF ReleaseFailedWrite, TypeOK, DispatchTyped, osVars
    <2> QED
      BY <2>1, <1>4, <1>5
  <1>13. CASE StoreRequestOverflow(c)
    <2>1. /\ UNCHANGED <<at, reqMarker, rspMarker>>
          /\ held' = [held EXCEPT ![c] = 0]
          /\ \A d \in Calls \ {c} : disp'[d] = disp[d]
          /\ held \in [Calls -> 0 .. MaxMarker]
      BY <1>13 DEF StoreRequestOverflow, TypeOK, DispatchTyped, slotVars
    <2>2. HandleTable(reqShm, hubOvf, at, held, OrphanNames)'
      <3>1. CASE held[c] = 0
        <4>1. held' = held
          BY <2>1, <3>1
        <4> QED
          BY <1>4, <1>13, <3>1, <4>1, <2>1 DEF StoreRequestOverflow
      <3>2. CASE held[c] # 0
        <4>1. HandleTable(DropHandle(reqShm, at[c], hubOvf[at[c]]),
                          [hubOvf EXCEPT ![at[c]] = held[c]], at, [held EXCEPT ![c] = 0],
                          OrphanNames)
          BY <1>1, <3>2, HandlesStore
        <4>2. /\ reqShm' = DropHandle(reqShm, at[c], hubOvf[at[c]])
              /\ hubOvf' = [hubOvf EXCEPT ![at[c]] = held[c]]
          BY <1>13, <3>2 DEF StoreRequestOverflow
        <4> QED
          BY <2>1, <4>1, <4>2
      <3> QED
        BY <3>1, <3>2
    <2>3. LocalsInUse'
      BY <1>3, <1>6, <2>1 DEF LocalsInUse
    <2>4. MarkersLive'
      BY <2>1 DEF HandleInv, MarkersLive
    <2> QED
      BY <1>2, <2>2, <2>3, <2>4 DEF HandleInv
  <1>14. CASE RegisterPending(c)
    <2>1. /\ UNCHANGED <<reqShm, hubOvf, at, held, reqMarker, rspMarker>>
          /\ held[c] = 0
          /\ \A d \in Calls \ {c} : disp'[d] = disp[d]
      BY <1>6, <1>14 DEF RegisterPending, TypeOK, DispatchTyped, osVars, slotVars
    <2> QED
      BY <2>1, <1>4, <1>5
  <1>15. CASE SignalRequest(c)
    <2>1. /\ UNCHANGED <<reqShm, hubOvf, at, held, reqMarker, rspMarker>>
          /\ held[c] = 0
          /\ \A d \in Calls \ {c} : disp'[d] = disp[d]
      BY <1>6, <1>15 DEF SignalRequest, TypeOK, DispatchTyped, slotVars
    <2> QED
      BY <2>1, <1>4, <1>5
  <1> QED
    BY <1>7, <1>8, <1>9, <1>10, <1>11, <1>12, <1>13, <1>14, <1>15 DEF Dispatch

(***************************************************************************)
(* The steps of the watcher: it may drop the handle of the slot it freed.  *)
(***************************************************************************)
LEMMA HandleWatcher ==
    ASSUME TypeOK, NEW D, NEW B, HandleInv(D, B), Watcher
    PROVE  HandleInv(D, B)'
  <1> USE TablesTyped
  <1>1. HandleTable(reqShm, hubOvf, at, held, OrphanNames) /\ HandleTable(rspShm, wkOvf, hat, LiveLocals(D), OrphanNames \cup B)
    BY DEF HandleInv
  <1>2. /\ UNCHANGED <<rspShm, wkOvf, hat, hheld, at, held, disp, hand, reqMarker, rspMarker>>
        /\ wat \in Slots
    BY DEF Watcher, WatchWait, WatchScan, WatchRead, WatchRelease, WatchDropOverflow,
        WatchResolve, slotVars, osVars, dispVars, workerVars, TypeOK, WatcherTyped
  <1>3. HandleTable(rspShm, wkOvf, hat, LiveLocals(D), OrphanNames \cup B)'
    BY <1>1, <1>2 DEF HandleTable, MapHandles, LocalHandles, NamesHeld, BurntKept, LiveLocals
  <1>4. LocalsInUse' /\ MarkersLive'
    BY <1>2 DEF HandleInv, LocalsInUse, MarkersLive
  <1>5. HandleTable(reqShm, hubOvf, at, held, OrphanNames)'
    <2>1. CASE WatchDropOverflow
      BY <1>1, <1>2, <2>1, HandlesRemove DEF WatchDropOverflow
    <2>2. CASE UNCHANGED <<reqShm, hubOvf>>
      BY <1>1, <1>2, <2>2 DEF HandleTable, MapHandles, LocalHandles, NamesHeld, BurntKept
    <2>3. WatchDropOverflow \/ UNCHANGED <<reqShm, hubOvf>>
      BY DEF Watcher, WatchWait, WatchScan, WatchRead, WatchRelease, WatchResolve, osVars
    <2> QED
      BY <2>1, <2>2, <2>3
  <1> QED
    BY <1>3, <1>4, <1>5 DEF HandleInv

(***************************************************************************)
(* The steps of the receive loop: a handler that starts has no handle yet. *)
(***************************************************************************)
LEMMA HandleReceiveLoop ==
    ASSUME TypeOK, OwnershipInv, NEW D, NEW B, HandleInv(D, B), ReceiveLoop
    PROVE  HandleInv(D, B)'
  <1> USE TablesTyped
  <1>1. HandleTable(reqShm, hubOvf, at, held, OrphanNames) /\ HandleTable(rspShm, wkOvf, hat, LiveLocals(D), OrphanNames \cup B)
    BY DEF HandleInv
  <1>2. UNCHANGED <<reqShm, hubOvf, at, held, disp, rspShm, wkOvf, hheld, reqMarker, rspMarker>>
    BY DEF ReceiveLoop, RecvWait, RecvScan, RecvDeliver, RecvDiscard, slotVars, osVars, hubVars,
        handVars
  <1>3. HandleTable(reqShm, hubOvf, at, held, OrphanNames)'
    BY <1>1, <1>2 DEF HandleTable, MapHandles, LocalHandles, NamesHeld, BurntKept
  <1>4. MarkersLive'
    BY <1>2 DEF HandleInv, MarkersLive
  <1>5. CASE RecvDeliver
    <2>1. PICK c \in Calls : /\ hand[c] = "none"
                             /\ hand' = [hand EXCEPT ![c] = "got"]
                             /\ hat' = [hat EXCEPT ![c] = rat]
      BY <1>5 DEF RecvDeliver, OwnershipInv, RecvOwns, BusyContent, Busy, TypeOK, WorkerTyped
    <2>2. hheld[c] = 0
      BY <2>1 DEF HandleInv, LocalsInUse
    <2>3. \A d \in Calls \ {c} : hat'[d] = hat[d] /\ hand'[d] = hand[d]
      BY <2>1 DEF TypeOK, WorkerTyped
    <2>4. HandleTable(rspShm, wkOvf, hat, LiveLocals(D), OrphanNames \cup B)'
      BY <1>1, <1>2, <2>2, <2>3, HandlesMoveCall, LiveLocalsFacts
    <2>5. LocalsInUse'
      BY <1>2, <2>2, <2>3 DEF HandleInv, LocalsInUse
    <2> QED
      BY <1>3, <1>4, <2>4, <2>5 DEF HandleInv
  <1>6. CASE UNCHANGED <<hand, hat>>
    <2>1. HandleTable(rspShm, wkOvf, hat, LiveLocals(D), OrphanNames \cup B)'
      BY <1>1, <1>2, <1>6 DEF HandleTable, MapHandles, LocalHandles, NamesHeld, BurntKept, LiveLocals
    <2>2. LocalsInUse'
      BY <1>2, <1>6 DEF HandleInv, LocalsInUse
    <2> QED
      BY <1>3, <1>4, <2>1, <2>2 DEF HandleInv
  <1>7. RecvDeliver \/ UNCHANGED <<hand, hat>>
    BY DEF ReceiveLoop, RecvWait, RecvScan, RecvDiscard, handVars
  <1> QED
    BY <1>5, <1>6, <1>7

(***************************************************************************)
(* The steps of a handler: it touches the tables of the worker only.       *)
(***************************************************************************)
LEMMA HandleHandler ==
    ASSUME TypeOK, NEW D, NEW B, HandleInv(D, B), NEW c \in Calls \ D, Handler(c)
    PROVE  HandleInv(D, B)'
  <1> USE TablesTyped, LiveLocalsFacts
  <1>1. HandleTable(reqShm, hubOvf, at, held, OrphanNames) /\ HandleTable(rspShm, wkOvf, hat, LiveLocals(D), OrphanNames \cup B)
    BY DEF HandleInv
  <1>2. /\ UNCHANGED <<reqShm, hubOvf, at, held, disp, hat, reqMarker>>
        /\ hat[c] \in Slots
    BY DEF Handler, DropStaleResponseOverflow, WriteResponse, PublishResponse,
        ReleaseFailedResponse, StoreResponseOverflow, SignalResponse, slotVars, osVars, hubVars,
        TypeOK, WorkerTyped
  <1>3. HandleTable(reqShm, hubOvf, at, held, OrphanNames)'
    BY <1>1, <1>2 DEF HandleTable, MapHandles, LocalHandles, NamesHeld, BurntKept
  <1>4. \A d \in Calls : hheld[d] # 0 => hand[d] \in {"written", "published"}
    BY DEF HandleInv, LocalsInUse
  <1>5. ASSUME UNCHANGED <<rspMarker, hheld>>,
               HandleTable(rspShm, wkOvf, hat, LiveLocals(D), OrphanNames \cup B)',
               \A d \in Calls \ {c} : hand'[d] = hand[d],
               hheld[c] # 0 => hand'[c] \in {"written", "published"}
        PROVE  HandleInv(D, B)'
    <2>1. LocalsInUse' /\ MarkersLive'
      BY <1>2, <1>4, <1>5 DEF HandleInv, LocalsInUse, MarkersLive
    <2> QED
      BY <1>3, <1>5, <2>1 DEF HandleInv
  <1>6. ASSUME UNCHANGED <<rspShm, wkOvf, hheld>>
        PROVE  HandleTable(rspShm, wkOvf, hat, LiveLocals(D), OrphanNames \cup B)'
    BY <1>1, <1>2, <1>6 DEF HandleTable, MapHandles, LocalHandles, NamesHeld, BurntKept
  <1>7. CASE DropStaleResponseOverflow(c)
    <2>1. /\ UNCHANGED <<hheld, rspMarker>>
          /\ hheld[c] = 0
          /\ \A d \in Calls \ {c} : hand'[d] = hand[d]
      BY <1>4, <1>7 DEF DropStaleResponseOverflow, TypeOK, WorkerTyped, slotVars
    <2>2. HandleTable(rspShm, wkOvf, hat, LiveLocals(D), OrphanNames \cup B)'
      <3>1. LiveLocals(D)' = LiveLocals(D)
        BY <2>1
      <3>2. HandleTable(DropHandle(rspShm, hat[c], wkOvf[hat[c]]), [wkOvf EXCEPT ![hat[c]] = 0], hat,
                        LiveLocals(D), OrphanNames \cup B)
        BY <1>1, <1>2, HandlesRemove
      <3> QED
        BY <1>2, <1>7, <3>1, <3>2 DEF DropStaleResponseOverflow
    <2> QED
      BY <2>1, <2>2, <1>5
  <1>8. CASE WriteResponse(c)
    <2>1. UNCHANGED wkOvf /\ hheld[c] = 0
      BY <1>4, <1>8 DEF WriteResponse, TypeOK, WorkerTyped
    <2>2. CASE UNCHANGED <<rspShm, hheld>> /\ (UNCHANGED rspMarker \/ rspMarker' = [rspMarker EXCEPT ![hat[c]] = 0])
      <3>1. HandleTable(rspShm, wkOvf, hat, LiveLocals(D), OrphanNames \cup B)'
        BY <2>1, <2>2, <1>6
      <3>2. LocalsInUse'
        BY <1>2, <1>4, <1>8, <2>1, <2>2 DEF HandleInv, LocalsInUse, WriteResponse, TypeOK, WorkerTyped
      <3>3. MarkersLive'
        BY <1>2, <2>2, BusAssumption DEF HandleInv, MarkersLive, TypeOK, SlotsTyped
      <3> QED
        BY <1>3, <3>1, <3>2, <3>3 DEF HandleInv
    <2>3. ASSUME NEW m \in Markers, IsFreshMarker(rspShm, hat[c], m),
                 rspShm' = [rspShm EXCEPT ![hat[c]][m] = c],
                 rspMarker' = [rspMarker EXCEPT ![hat[c]] = m],
                 hheld' = [hheld EXCEPT ![c] = m],
                 hand' = [hand EXCEPT ![c] = "written"]
          PROVE  HandleInv(D, B)'
      <3>1. HandleTable(rspShm, wkOvf, hat, LiveLocals(D), OrphanNames \cup B)'
           /\ <<hat[c], m>> \notin OrphanNames \cup B
        <4>1. LiveLocals(D)[c] = 0 /\ LiveLocals(D)' = [LiveLocals(D) EXCEPT ![c] = m]
          BY <2>1, <2>3
        <4>2. /\ HandleTable([rspShm EXCEPT ![hat[c]][m] = c], wkOvf, hat,
                             [LiveLocals(D) EXCEPT ![c] = m], OrphanNames \cup B)
              /\ <<hat[c], m>> \notin OrphanNames \cup B
          BY <1>1, <2>3, <4>1, HandlesCreate
        <4> QED
          BY <1>2, <2>1, <2>3, <4>1, <4>2
      <3>2. LocalsInUse'
        BY <1>2, <1>4, <2>3 DEF HandleInv, LocalsInUse, TypeOK, WorkerTyped
      <3>3. MarkersLive'
        BY <1>2, <2>3, <3>1 DEF HandleInv, MarkersLive, OrphanNames, TypeOK, SlotsTyped
      <3> QED
        BY <1>3, <3>1, <3>2, <3>3 DEF HandleInv
    <2> QED
      BY <1>8, <2>2, <2>3 DEF WriteResponse
  <1>9. CASE PublishResponse(c)
    <2>1. /\ UNCHANGED <<rspShm, wkOvf, hheld, rspMarker>>
          /\ hand'[c] = "published"
          /\ \A d \in Calls \ {c} : hand'[d] = hand[d]
      BY <1>9 DEF PublishResponse, TypeOK, WorkerTyped, osVars
    <2> QED
      BY <2>1, <1>5, <1>6
  <1>10. CASE ReleaseFailedResponse(c)
    <2>1. /\ UNCHANGED <<rspShm, wkOvf, hheld, rspMarker>>
          /\ hheld[c] = 0
          /\ \A d \in Calls \ {c} : hand'[d] = hand[d]
      BY <1>4, <1>10 DEF ReleaseFailedResponse, TypeOK, WorkerTyped, osVars
    <2> QED
      BY <2>1, <1>5, <1>6
  <1>11. CASE StoreResponseOverflow(c)
    <2>1. /\ UNCHANGED rspMarker
          /\ hheld' = [hheld EXCEPT ![c] = 0]
          /\ \A d \in Calls \ {c} : hand'[d] = hand[d]
          /\ hheld \in [Calls -> 0 .. MaxMarker]
      BY <1>11 DEF StoreResponseOverflow, TypeOK, WorkerTyped, slotVars
    <2>2. HandleTable(rspShm, wkOvf, hat, LiveLocals(D), OrphanNames \cup B)'
      <3>1. CASE hheld[c] = 0
        <4>1. hheld' = hheld
          BY <2>1, <3>1
        <4> QED
          BY <1>6, <1>11, <3>1, <4>1 DEF StoreResponseOverflow
      <3>2. CASE hheld[c] # 0
        <4>1. HandleTable(DropHandle(rspShm, hat[c], wkOvf[hat[c]]),
                          [wkOvf EXCEPT ![hat[c]] = hheld[c]], hat,
                          [LiveLocals(D) EXCEPT ![c] = 0], OrphanNames \cup B)
          <5>1. LiveLocals(D)[c] = hheld[c]
            OBVIOUS
          <5> QED
            BY <1>1, <3>2, <5>1, HandlesStore
        <4>2. /\ rspShm' = DropHandle(rspShm, hat[c], wkOvf[hat[c]])
              /\ wkOvf' = [wkOvf EXCEPT ![hat[c]] = hheld[c]]
          BY <1>11, <3>2 DEF StoreResponseOverflow
        <4> QED
          BY <1>2, <2>1, <4>1, <4>2
      <3> QED
        BY <3>1, <3>2
    <2>3. LocalsInUse' /\ MarkersLive'
      BY <1>2, <1>4, <2>1 DEF HandleInv, LocalsInUse, MarkersLive
    <2> QED
      BY <1>3, <2>2, <2>3 DEF HandleInv
  <1>12. CASE SignalResponse(c)
    <2>1. /\ UNCHANGED <<rspShm, wkOvf, hheld, rspMarker>>
          /\ hheld[c] = 0
          /\ \A d \in Calls \ {c} : hand'[d] = hand[d]
      BY <1>4, <1>12 DEF SignalResponse, TypeOK, WorkerTyped, slotVars
    <2> QED
      BY <2>1, <1>5, <1>6
  <1> QED
    BY <1>7, <1>8, <1>9, <1>10, <1>11, <1>12 DEF Handler

(***************************************************************************)
(* Every step keeps the tables of handles.                                 *)
(***************************************************************************)
LEMMA HandleStep == TypeOK /\ OwnershipInv /\ HandleInv({}, {}) /\ [Next]_vars => HandleInv({}, {})'
  <1> SUFFICES ASSUME TypeOK, OwnershipInv, HandleInv({}, {}), [Next]_vars
               PROVE  HandleInv({}, {})'
    OBVIOUS
  <1>1. CASE UNCHANGED vars
    BY <1>1 DEF HandleInv, HandleTable, MapHandles, LocalHandles, NamesHeld, BurntKept,
        LiveLocals, LocalsInUse, MarkersLive, vars, slotVars, osVars, hubVars, workerVars
  <1>2. ASSUME NEW c \in Calls, Start(c) \/ Dispatch(c) PROVE HandleInv({}, {})'
    BY <1>2, HandleDispatch
  <1>3. ASSUME NEW c \in Calls, Handler(c) PROVE HandleInv({}, {})'
    BY <1>3, HandleHandler
  <1>4. CASE Watcher
    BY <1>4, HandleWatcher
  <1>5. CASE ReceiveLoop
    BY <1>5, HandleReceiveLoop
  <1> QED
    BY <1>1, <1>2, <1>3, <1>4, <1>5 DEF Next

(***************************************************************************)
(* The tables of handles are right in every reachable state.               *)
(***************************************************************************)
THEOREM HandlesCorrect == Spec => [](TypeOK /\ OwnershipInv /\ HandleInv({}, {}))
  <1>1. Init => TypeOK /\ OwnershipInv /\ HandleInv({}, {})
    BY TypeInit, OwnershipInit, HandleInit
  <1>2. (TypeOK /\ OwnershipInv /\ HandleInv({}, {})) /\ [Next]_vars
        => (TypeOK /\ OwnershipInv /\ HandleInv({}, {}))'
    BY TypeStep, OwnershipStep, HandleStep
  <1> QED
    BY <1>1, <1>2, PTL DEF Spec

(***************************************************************************)
(* In a table of handles a name in use has one handle and a free name none.*)
(***************************************************************************)
LEMMA TableHeldOnce ==
    ASSUME NEW shm, NEW ovf, NEW slot, NEW loc, NEW B, HandleTable(shm, ovf, slot, loc, B),
           NEW i \in Slots, NEW m \in Markers, <<i, m>> \notin B, NEW handles,
           \A x : x \in handles <=>
               \/ x = <<"map", None>> /\ ovf[i] = m
               \/ \E c \in Calls : x = <<"local", c>> /\ slot[c] = i /\ loc[c] = m
    PROVE  HeldOnce(handles, shm[i][m] # None)
  <1> DEFINE InMap(x) == x = <<"map", None>> /\ ovf[i] = m
             Local(x) == \E c \in Calls : x = <<"local", c>> /\ slot[c] = i /\ loc[c] = m
  <1>1. \A x : x \in handles <=> InMap(x) \/ Local(x)
    OBVIOUS
  <1>2. m # 0
    BY BusAssumption DEF Markers
  <1>3. \A x, y \in handles : x = y
    <2>1. ~(ovf[i] = m /\ \E c \in Calls : slot[c] = i /\ loc[c] = m)
      BY <1>2 DEF HandleTable, LocalHandles
    <2>2. \A c, d \in Calls : slot[c] = i /\ loc[c] = m /\ slot[d] = i /\ loc[d] = m => c = d
      BY <1>2 DEF HandleTable, LocalHandles
    <2> QED
      BY <1>1, <2>1, <2>2
  <1>4. shm[i][m] # None => handles # {}
    <2>1. shm[i][m] # None => InMap(<<"map", None>>) \/ \E c \in Calls : Local(<<"local", c>>)
      BY DEF HandleTable, NamesHeld
    <2> QED
      BY <1>1, <2>1
  <1>5. handles # {} => shm[i][m] # None
    BY <1>1, <1>2 DEF HandleTable, MapHandles, LocalHandles
  <1> QED
    BY <1>3, <1>4, <1>5 DEF HeldOnce

(***************************************************************************)
(* For every number of calls, slots and generations: each overflow region  *)
(* has exactly one handle as long as its name exists.                      *)
(***************************************************************************)
THEOREM RegionsHeldOnce == Spec => []EveryRegionHeldOnce
  <1>1. ASSUME TypeOK, HandleInv({}, {}), NEW i \in Slots, NEW m \in Markers \ Orphans
        PROVE  /\ HeldOnce(RequestHandles(i, m), reqShm[i][m] # None)
               /\ HeldOnce(ResponseHandles(i, m), rspShm[i][m] # None)
    <2>1. \A x : x \in RequestHandles(i, m) <=>
              \/ x = <<"map", None>> /\ hubOvf[i] = m
              \/ \E c \in Calls : x = <<"local", c>> /\ at[c] = i /\ held[c] = m
      BY DEF RequestHandles
    <2>2. \A x : x \in ResponseHandles(i, m) <=>
              \/ x = <<"map", None>> /\ wkOvf[i] = m
              \/ \E c \in Calls : x = <<"local", c>> /\ hat[c] = i /\ hheld[c] = m
      BY DEF ResponseHandles
    <2>3. HandleTable(reqShm, hubOvf, at, held, OrphanNames) /\ HandleTable(rspShm, wkOvf, hat, LiveLocals({}), OrphanNames \cup {})
      BY <1>1 DEF HandleInv
    <2>4. HeldOnce(RequestHandles(i, m), reqShm[i][m] # None)
      <3>1. <<i, m>> \notin OrphanNames
        BY OrphanNamesFacts
      <3> QED
        BY <2>1, <2>3, <3>1, TableHeldOnce
    <2>5. HeldOnce(ResponseHandles(i, m), rspShm[i][m] # None)
      <3>1. <<i, m>> \notin OrphanNames \cup {}
        BY OrphanNamesFacts
      <3>2. \A c \in Calls : LiveLocals({})[c] = hheld[c]
        BY <1>1, LiveLocalsFacts
      <3>3. \A x : x \in ResponseHandles(i, m) <=>
                \/ x = <<"map", None>> /\ wkOvf[i] = m
                \/ \E c \in Calls : x = <<"local", c>> /\ hat[c] = i /\ LiveLocals({})[c] = m
        BY <2>2, <3>2
      <3> QED
        BY <2>3, <3>1, <3>3, TableHeldOnce
    <2> QED
      BY <2>4, <2>5
  <1>2. TypeOK /\ HandleInv({}, {}) => EveryRegionHeldOnce
    BY <1>1 DEF EveryRegionHeldOnce
  <1> QED
    BY HandlesCorrect, <1>2, PTL

(***************************************************************************)
(* For every set of orphans: none is written, removed or pointed to.       *)
(***************************************************************************)
THEOREM OrphansUntouched == Spec => []OrphansLeftAlone
  <1>1. HandleInv({}, {}) => OrphansLeftAlone
    BY OrphanNamesFacts, BusAssumption DEF HandleInv, HandleTable, BurntKept, MarkersLive,
        OrphansLeftAlone, Markers
  <1> QED
    BY HandlesCorrect, <1>1, PTL
-----------------------------------------------------------------------------

(***************************************************************************)
(* Nothing is pending at the start, and nothing in a slot.                 *)
(***************************************************************************)
LEMMA PendingInit == Init => WatcherInv /\ PendingInv
  BY DEF Init, WatcherInv, PendingInv, IdCurrent, BusyPending, TakenOut, TakenPending, Busy,
      FREE, READY, CLAIMED, DONE

(***************************************************************************)
(* The worker does not touch the pending map; it only moves slots on.      *)
(***************************************************************************)
LEMMA PendingUntouched ==
    ASSUME WatcherInv, UNCHANGED <<reqId, reqArena, disp, pending, watch, wat, wid>>,
           \A i \in Slots : status'[i] \in Busy => status[i] \in Busy
    PROVE  WatcherInv' /\ (PendingInv => PendingInv')
  <1>1. IdCurrent'
    BY DEF WatcherInv, PendingInv, IdCurrent
  <1>2. PendingInv => BusyPending'
    BY DEF WatcherInv, PendingInv, BusyPending
  <1>3. TakenOut' /\ (PendingInv => TakenPending')
    BY DEF WatcherInv, PendingInv, TakenOut, TakenPending
  <1> QED
    BY <1>1, <1>2, <1>3 DEF WatcherInv, PendingInv

(***************************************************************************)
(* The steps of a dispatch(): its request enters a slot before its entry   *)
(* enters the map, and it writes to a slot the watcher is not looking at.  *)
(***************************************************************************)
LEMMA PendingDispatch ==
    ASSUME TypeOK, OwnershipInv, WatcherInv, NEW c \in Calls, Start(c) \/ Dispatch(c)
    PROVE  WatcherInv' /\ (PendingInv => PendingInv')
  <1> USE DEF RegisteredPc, PublishedPc, WritingPc
  <1>1. UNCHANGED <<watch, wat, wid>> /\ disp \in [Calls -> DispPc] /\ at[c] \in Slots
    BY DEF Start, Dispatch, ClaimFreeSlot, DropStaleRequestOverflow, WriteRequest,
        PublishRequest, ReleaseFailedWrite, StoreRequestOverflow, RegisterPending, SignalRequest,
        watchVars, TypeOK, DispatchTyped
  <1>2. ASSUME UNCHANGED <<reqId, reqArena, pending>>,
               \A i \in Slots : status'[i] \in Busy => status[i] \in Busy,
               NEW pc, disp' = [disp EXCEPT ![c] = pc],
               disp[c] \in PublishedPc => pc \in PublishedPc,
               pc \in RegisteredPc => disp[c] \in RegisteredPc
        PROVE  WatcherInv' /\ (PendingInv => PendingInv')
    <2>1. /\ \A d \in Calls : disp'[d] \in RegisteredPc => disp[d] \in RegisteredPc
          /\ \A d \in Calls : disp[d] \in PublishedPc => disp'[d] \in PublishedPc
      BY <1>1, <1>2
    <2>2. IdCurrent'
      BY <1>1, <1>2 DEF WatcherInv, PendingInv, IdCurrent
    <2>3. PendingInv => BusyPending'
      BY <1>1, <1>2, <2>1 DEF WatcherInv, PendingInv, BusyPending, OwnershipInv, BusyContent
    <2>4. TakenOut' /\ (PendingInv => TakenPending')
      BY <1>1, <1>2, <2>1 DEF WatcherInv, PendingInv, TakenOut, TakenPending
    <2> QED
      BY <2>2, <2>3, <2>4 DEF WatcherInv, PendingInv
  <1>3. CASE Start(c)
    <2>1. disp[c] = "idle" /\ disp' = [disp EXCEPT ![c] = "scan"]
          /\ UNCHANGED <<reqId, reqArena, pending, status>>
      BY <1>3 DEF Start, slotVars
    <2> QED
      BY <2>1, <1>2
  <1>4. CASE ClaimFreeSlot(c)
    <2>1. /\ disp[c] = "scan"
          /\ UNCHANGED <<reqId, reqArena, pending>>
          /\ \/ UNCHANGED disp
             \/ \E pc \in {"claimed", "rejected"} : disp' = [disp EXCEPT ![c] = pc]
          /\ \A i \in Slots : status'[i] \in Busy => status[i] \in Busy
      BY <1>4 DEF ClaimFreeSlot, Busy, READY, CLAIMED, DONE, WRITING, TypeOK, SlotsTyped
    <2>2. CASE UNCHANGED disp
      BY <1>1, <2>1, <2>2, PendingUntouched
    <2> QED
      BY <2>1, <2>2, <1>2
  <1>5. CASE DropStaleRequestOverflow(c)
    <2>1. disp[c] = "claimed" /\ disp' = [disp EXCEPT ![c] = "clean"]
          /\ UNCHANGED <<reqId, reqArena, pending, status>>
      BY <1>5 DEF DropStaleRequestOverflow, slotVars
    <2> QED
      BY <2>1, <1>2
  <1>6. CASE WriteRequest(c)
    <2>1. /\ disp[c] = "clean"
          /\ \E pc \in {"written", "failed"} : disp' = [disp EXCEPT ![c] = pc]
          /\ UNCHANGED <<pending, status>>
          /\ \A i \in Slots : i # at[c] => reqId'[i] = reqId[i] /\ reqArena'[i] = reqArena[i]
      BY <1>6 DEF WriteRequest, TypeOK, SlotsTyped
    <2>2. status[at[c]] = WRITING
      BY <2>1 DEF OwnershipInv, WritersOwn
    <2>3. /\ \A d \in Calls : disp'[d] \in RegisteredPc <=> disp[d] \in RegisteredPc
          /\ \A d \in Calls : disp'[d] \in PublishedPc <=> disp[d] \in PublishedPc
      BY <1>1, <2>1
    <2>4. IdCurrent'
      BY <1>1, <2>1, <2>2 DEF WatcherInv, PendingInv, IdCurrent, OwnershipInv, WatcherOwns, WRITING, DONE,
          TypeOK, WatcherTyped
    <2>5. \A i \in Slots : status'[i] \in Busy => status[i] \in Busy /\ reqArena'[i] = reqArena[i]
      BY <2>1, <2>2 DEF Busy, READY, CLAIMED, DONE, WRITING
    <2>6. PendingInv => BusyPending'
      BY <2>1, <2>3, <2>5 DEF WatcherInv, PendingInv, BusyPending, OwnershipInv, BusyContent
    <2>7. TakenOut' /\ (PendingInv => TakenPending')
      BY <1>1, <2>1, <2>3, <2>5 DEF WatcherInv, PendingInv, TakenOut, TakenPending
    <2> QED
      BY <2>4, <2>6, <2>7 DEF WatcherInv, PendingInv
  <1>7. CASE PublishRequest(c)
    <2>1. /\ disp[c] = "written" /\ disp' = [disp EXCEPT ![c] = "published"]
          /\ UNCHANGED <<reqId, reqArena, pending>>
          /\ \A i \in Slots : i # at[c] => status'[i] = status[i]
      BY <1>7 DEF PublishRequest, TypeOK, SlotsTyped
    <2>2. reqArena[at[c]] = c
      BY <2>1 DEF OwnershipInv, WrittenSlot
    <2>3. /\ \A d \in Calls : disp'[d] \in RegisteredPc <=> disp[d] \in RegisteredPc
          /\ \A d \in Calls : disp[d] \in PublishedPc => disp'[d] \in PublishedPc
          /\ disp[c] \notin PublishedPc
      BY <1>1, <2>1
    <2>4. IdCurrent'
      BY <1>1, <2>1 DEF WatcherInv, PendingInv, IdCurrent
    <2>5. PendingInv => BusyPending'
      BY <2>1, <2>2, <2>3 DEF WatcherInv, PendingInv, BusyPending, OwnershipInv, BusyContent
    <2>6. TakenOut' /\ (PendingInv => TakenPending')
      BY <1>1, <2>1, <2>2, <2>3 DEF WatcherInv, PendingInv, TakenOut, TakenPending
    <2> QED
      BY <2>4, <2>5, <2>6 DEF WatcherInv, PendingInv
  <1>8. CASE ReleaseFailedWrite(c)
    <2>1. /\ disp[c] = "failed" /\ disp' = [disp EXCEPT ![c] = "error"]
          /\ UNCHANGED <<reqId, reqArena, pending>>
          /\ \A i \in Slots : status'[i] \in Busy => status[i] \in Busy
      BY <1>8 DEF ReleaseFailedWrite, Busy, FREE, READY, CLAIMED, DONE, TypeOK, SlotsTyped
    <2> QED
      BY <2>1, <1>2
  <1>9. CASE StoreRequestOverflow(c)
    <2>1. disp[c] = "published" /\ disp' = [disp EXCEPT ![c] = "stored"]
          /\ UNCHANGED <<reqId, reqArena, pending, status>>
      BY <1>9 DEF StoreRequestOverflow, slotVars
    <2> QED
      BY <2>1, <1>2
  <1>10. CASE RegisterPending(c)
    <2>1. /\ disp[c] = "stored" /\ disp' = [disp EXCEPT ![c] = "registered"]
          /\ pending' = pending \cup {c}
          /\ UNCHANGED <<reqId, reqArena, status>>
      BY <1>10 DEF RegisterPending, slotVars
    <2>2. /\ \A d \in Calls \ {c} : disp'[d] = disp[d]
          /\ \A d \in Calls : disp[d] \in PublishedPc => disp'[d] \in PublishedPc
      BY <1>1, <2>1
    <2>3. IdCurrent'
      BY <1>1, <2>1 DEF WatcherInv, PendingInv, IdCurrent
    <2>4. PendingInv => BusyPending'
      BY <2>1, <2>2 DEF WatcherInv, PendingInv, BusyPending, OwnershipInv, BusyContent
    <2>5. TakenOut' /\ (PendingInv => TakenPending')
      BY <1>1, <2>1, <2>2 DEF WatcherInv, PendingInv, TakenOut, TakenPending
    <2> QED
      BY <2>3, <2>4, <2>5 DEF WatcherInv, PendingInv
  <1>11. CASE SignalRequest(c)
    <2>1. disp[c] = "registered" /\ disp' = [disp EXCEPT ![c] = "returned"]
          /\ UNCHANGED <<reqId, reqArena, pending, status>>
      BY <1>11 DEF SignalRequest, slotVars
    <2> QED
      BY <2>1, <1>2
  <1> QED
    BY <1>3, <1>4, <1>5, <1>6, <1>7, <1>8, <1>9, <1>10, <1>11 DEF Dispatch

(***************************************************************************)
(* The steps of the watcher: the entry it takes out is that of a call that *)
(* has left its slot, and a call is in one slot only.                      *)
(***************************************************************************)
LEMMA PendingWatcher ==
    ASSUME TypeOK, OwnershipInv, WatcherInv, Watcher
    PROVE  WatcherInv' /\ (PendingInv => PendingInv')
  <1>1. UNCHANGED <<reqId, reqArena, disp>>
    BY DEF Watcher, WatchWait, WatchScan, WatchRead, WatchRelease, WatchDropOverflow,
        WatchResolve, slotVars, dispVars
  <1>2. ASSUME UNCHANGED <<status, pending>>, watch' \notin {"drop", "resolve"},
               watch' = "release" => wid' = reqId[wat']
        PROVE  WatcherInv' /\ (PendingInv => PendingInv')
    BY <1>1, <1>2 DEF WatcherInv, PendingInv, IdCurrent, BusyPending, TakenOut, TakenPending
  <1>3. CASE WatchWait \/ WatchScan \/ WatchRead
    <2>1. /\ UNCHANGED <<status, pending>>
          /\ watch' \notin {"drop", "resolve"}
          /\ watch' = "release" => wid' = reqId[wat']
      BY <1>3 DEF WatchWait, WatchScan, WatchRead, NextSlotOfWatch, slotVars
    <2> QED
      BY <2>1, <1>2
  <1>4. CASE WatchRelease
    <2>1. /\ status[wat] = DONE
          /\ wat \in Slots
          /\ wid = reqId[wat]
      BY <1>4 DEF WatchRelease, OwnershipInv, WatcherOwns, WatcherInv, IdCurrent, TypeOK, WatcherTyped
    <2>2. /\ status' = [status EXCEPT ![wat] = FREE]
          /\ watch' = "drop"
          /\ UNCHANGED <<wid, pending>>
      BY <1>4, <2>1 DEF WatchRelease
    <2>3. \A i \in Slots : status'[i] \in Busy => status[i] \in Busy /\ i # wat
      BY <2>1, <2>2 DEF Busy, FREE, READY, CLAIMED, DONE, TypeOK, SlotsTyped
    <2>4. IdCurrent'
      BY <2>2 DEF IdCurrent
    <2>5. PendingInv => BusyPending'
      BY <1>1, <2>2, <2>3 DEF WatcherInv, PendingInv, BusyPending
    <2>6. wid \in Calls => /\ wid = reqArena[wat]
                           /\ disp[wid] \in PublishedPc
                           /\ PendingInv /\ disp[wid] \in RegisteredPc => wid \in pending
                           /\ at[wid] = wat
      BY <2>1, BusAssumption DEF WatcherInv, PendingInv, BusyPending, OwnershipInv, BusyContent, Busy
    <2>7. \A i \in Slots : status'[i] \in Busy => at[reqArena[i]] = i /\ i # wat
      BY <2>3 DEF OwnershipInv, BusyContent
    <2>8. TakenOut' /\ (PendingInv => TakenPending')
      BY <1>1, <2>2, <2>6, <2>7 DEF TakenOut, TakenPending
    <2> QED
      BY <2>4, <2>5, <2>8 DEF WatcherInv, PendingInv
  <1>5. CASE WatchDropOverflow
    <2>1. /\ UNCHANGED <<status, pending, wid>>
          /\ watch = "drop" /\ watch' = "resolve"
      BY <1>5 DEF WatchDropOverflow, slotVars
    <2> QED
      BY <1>1, <2>1 DEF WatcherInv, PendingInv, IdCurrent, BusyPending, TakenOut, TakenPending
  <1>6. CASE WatchResolve
    <2>1. /\ UNCHANGED status
          /\ watch = "resolve" /\ watch' \in {"wait", "scan"}
          /\ pending' = pending \/ (wid \in Calls /\ pending' = pending \ {wid})
      <3>1. pending \subseteq Calls
        BY DEF TypeOK, DispatchTyped
      <3>2. NextSlotOfWatch => watch' \in {"wait", "scan"}
        BY DEF NextSlotOfWatch
      <3>3. UNCHANGED status /\ watch = "resolve" /\ NextSlotOfWatch
        BY <1>6 DEF WatchResolve, slotVars
      <3>4. pending' = pending \/ (wid \in pending /\ pending' = pending \ {wid})
        BY <1>6 DEF WatchResolve
      <3> QED
        BY <3>1, <3>2, <3>3, <3>4
    <2>2. wid \in Calls => \A i \in Slots : status[i] \in Busy => reqArena[i] # wid
      BY <2>1 DEF WatcherInv, PendingInv, TakenOut, TakenPending
    <2>3. PendingInv => BusyPending'
      BY <1>1, <2>1, <2>2 DEF WatcherInv, PendingInv, BusyPending
    <2> QED
      BY <2>1, <2>3 DEF WatcherInv, PendingInv, IdCurrent, TakenOut, TakenPending
  <1> QED
    BY <1>3, <1>4, <1>5, <1>6 DEF Watcher

(***************************************************************************)
(* The steps of the worker leave what the pending map relies on.           *)
(***************************************************************************)
LEMMA PendingWorker ==
    ASSUME TypeOK, OwnershipInv, WatcherInv, ReceiveLoop \/ \E c \in Calls : Handler(c)
    PROVE  WatcherInv' /\ (PendingInv => PendingInv')
  <1>1. CASE ReceiveLoop
    <2>1. UNCHANGED <<reqId, reqArena, disp, pending, watch, wat, wid>>
      BY <1>1 DEF ReceiveLoop, RecvWait, RecvScan, RecvDeliver, RecvDiscard, slotVars, hubVars
    <2>2. \A i \in Slots : status'[i] \in Busy => status[i] \in Busy
      BY <1>1 DEF ReceiveLoop, RecvWait, RecvScan, RecvDeliver, RecvDiscard, slotVars, Busy,
          FREE, READY, CLAIMED, DONE, TypeOK, SlotsTyped
    <2> QED
      BY <2>1, <2>2, PendingUntouched
  <1>2. ASSUME NEW c \in Calls, Handler(c)
        PROVE  WatcherInv' /\ (PendingInv => PendingInv')
    <2>1. UNCHANGED <<reqId, reqArena, disp, pending, watch, wat, wid>>
      BY <1>2 DEF Handler, DropStaleResponseOverflow, WriteResponse, PublishResponse,
          ReleaseFailedResponse, StoreResponseOverflow, SignalResponse, slotVars, hubVars
    <2>2. hand[c] \in HandlingPc => status[hat[c]] \in Busy
      BY DEF OwnershipInv, HandlersOwn, Busy
    <2>3. \A i \in Slots : status'[i] \in Busy => status[i] \in Busy
      BY <1>2, <2>2 DEF Handler, DropStaleResponseOverflow, WriteResponse, PublishResponse,
          ReleaseFailedResponse, StoreResponseOverflow, SignalResponse, slotVars, HandlingPc,
          Busy, FREE, READY, CLAIMED, DONE, TypeOK, SlotsTyped
    <2> QED
      BY <2>1, <2>3, PendingUntouched
  <1> QED
    BY <1>1, <1>2

(***************************************************************************)
(* Every step keeps what the pending map relies on.                        *)
(***************************************************************************)
LEMMA PendingStep ==
    TypeOK /\ OwnershipInv /\ WatcherInv /\ [Next]_vars
    => WatcherInv' /\ (PendingInv => PendingInv')
  <1> SUFFICES ASSUME TypeOK, OwnershipInv, WatcherInv, [Next]_vars
               PROVE  WatcherInv' /\ (PendingInv => PendingInv')
    OBVIOUS
  <1>1. CASE UNCHANGED vars
    BY <1>1 DEF WatcherInv, PendingInv, IdCurrent, BusyPending, TakenOut, TakenPending, vars, slotVars, hubVars
  <1>2. ASSUME NEW c \in Calls, Start(c) \/ Dispatch(c) PROVE WatcherInv' /\ (PendingInv => PendingInv')
    BY <1>2, PendingDispatch
  <1>3. CASE Watcher
    BY <1>3, PendingWatcher
  <1>4. CASE ReceiveLoop \/ \E c \in Calls : Handler(c)
    BY <1>4, PendingWorker
  <1> QED
    BY <1>1, <1>2, <1>3, <1>4 DEF Next

(***************************************************************************)
(* What the pending map relies on holds in every reachable state.          *)
(***************************************************************************)
THEOREM PendingCorrect == Spec => [](TypeOK /\ OwnershipInv /\ WatcherInv /\ PendingInv)
  <1>1. Init => TypeOK /\ OwnershipInv /\ WatcherInv /\ PendingInv
    BY TypeInit, OwnershipInit, PendingInit
  <1>2. (TypeOK /\ OwnershipInv /\ WatcherInv /\ PendingInv) /\ [Next]_vars
        => (TypeOK /\ OwnershipInv /\ WatcherInv /\ PendingInv)'
    BY TypeStep, OwnershipStep, PendingStep
  <1> QED
    BY <1>1, <1>2, PTL DEF Spec

(***************************************************************************)
(* For every number of calls and slots: an answer that was read is thrown  *)
(* away only under a dispatch() that has not registered its call yet.      *)
(***************************************************************************)
THEOREM RegisteredAnswerKept == Spec => []OnlyLateRegistrationLosesAnswer
  <1>1. WatcherInv /\ PendingInv => OnlyLateRegistrationLosesAnswer
    BY DEF WatcherInv, PendingInv, TakenOut, TakenPending, OnlyLateRegistrationLosesAnswer,
        RegisteredPc, PublishedPc
  <1> QED
    BY PendingCorrect, <1>1, PTL

(***************************************************************************)
(* A signal is never taken back by another one.                            *)
(***************************************************************************)
LEMMA SignalPending == ASSUME NEW e \in Nat PROVE Signal(e) \in Nat /\ Signal(e) > 0
  BY DEF Signal

(***************************************************************************)
(* The steps of a dispatch(): what it publishes it still has to signal.    *)
(***************************************************************************)
LEMMA WakeDispatch ==
    ASSUME TypeOK, OwnershipInv, NEW D \in SUBSET Calls, NEW i \in Slots,
           NEW c \in Calls, Start(c) \/ Dispatch(c)
    PROVE  /\ RequestNoticed(i) => RequestNoticed(i)'
           /\ ResponseNoticed(i, D) => ResponseNoticed(i, D)'
  <1> USE DEF FREE, READY, CLAIMED, DONE, WRITING
  <1> DEFINE Telling == {"published", "stored", "registered"}
  <1>1. /\ UNCHANGED <<recv, rat, hand, watch, wat, rspEvent>>
        /\ disp \in [Calls -> DispPc] /\ at[c] \in Slots
        /\ status \in [Slots -> Statuses] /\ reqArena \in [Slots -> Calls \cup {None}]
        /\ reqEvent \in Nat
    BY DEF Start, Dispatch, ClaimFreeSlot, DropStaleRequestOverflow, WriteRequest,
        PublishRequest, ReleaseFailedWrite, StoreRequestOverflow, RegisterPending, SignalRequest,
        osVars, watchVars, workerVars, TypeOK, SlotsTyped, OsTyped, DispatchTyped
  <1>2. status'[i] \in {READY, DONE} /\ ~PublishRequest(c) =>
            status'[i] = status[i] /\ reqArena'[i] = reqArena[i]
    <2>1. CASE WriteRequest(c)
      <3>1. status[at[c]] = WRITING /\ UNCHANGED status
        BY <2>1 DEF WriteRequest, OwnershipInv, WritersOwn, WritingPc
      <3>2. i # at[c] => reqArena'[i] = reqArena[i]
        BY <1>1, <2>1 DEF WriteRequest
      <3> QED
        BY <3>1, <3>2
    <2>2. CASE ~WriteRequest(c)
      BY <1>1, <2>2 DEF Start, Dispatch, ClaimFreeSlot, DropStaleRequestOverflow,
          ReleaseFailedWrite, StoreRequestOverflow, RegisterPending, SignalRequest, slotVars
    <2> QED
      BY <2>1, <2>2
  <1>3. PublishRequest(c) => /\ status' = [status EXCEPT ![at[c]] = READY]
                             /\ UNCHANGED <<reqArena, reqEvent>>
                             /\ reqArena[at[c]] = c
                             /\ disp'[c] = "published" /\ disp[c] = "written"
                             /\ \A d \in Calls \ {c} : disp'[d] = disp[d]
    BY <1>1 DEF PublishRequest, osVars, OwnershipInv, WrittenSlot
  <1>4. /\ reqEvent > 0 => reqEvent' > 0
        /\ \A d \in Calls : disp[d] \in Telling => disp'[d] \in Telling \/ reqEvent' > 0
    <2>1. CASE SignalRequest(c)
      BY <1>1, <2>1, SignalPending DEF SignalRequest
    <2>2. CASE ~SignalRequest(c)
      BY <1>1, <2>2 DEF Start, Dispatch, ClaimFreeSlot, DropStaleRequestOverflow, WriteRequest,
          PublishRequest, ReleaseFailedWrite, StoreRequestOverflow, RegisterPending, osVars
    <2> QED
      BY <2>1, <2>2
  <1>5. status[i] = READY => reqArena[i] \in Calls
    BY DEF OwnershipInv, BusyContent, Busy
  <1>6. RequestNoticed(i) => RequestNoticed(i)'
    BY <1>1, <1>2, <1>3, <1>4, <1>5 DEF RequestNoticed, RecvWillPass
  <1>7. ResponseNoticed(i, D) => ResponseNoticed(i, D)'
    BY <1>1, <1>2, <1>3 DEF ResponseNoticed, WatchWillPass
  <1> QED
    BY <1>6, <1>7

(***************************************************************************)
(* The steps of the watcher: it takes a signal only to start over, and it  *)
(* leaves no slot behind that was Done when it came past.                  *)
(***************************************************************************)
LEMMA WakeWatcher ==
    ASSUME TypeOK, OwnershipInv, NEW D \in SUBSET Calls, NEW i \in Slots, Watcher
    PROVE  /\ RequestNoticed(i) => RequestNoticed(i)'
           /\ ResponseNoticed(i, D) => ResponseNoticed(i, D)'
  <1> USE DEF FREE, READY, CLAIMED, DONE, WRITING
  <1>1. /\ UNCHANGED <<reqArena, disp, recv, rat, hand, reqEvent>>
        /\ status \in [Slots -> Statuses]
        /\ i \in 0 .. NumSlots - 1 /\ wat \in 0 .. NumSlots - 1 /\ NumSlots \in Nat
    BY BusAssumption DEF Watcher, WatchWait, WatchScan, WatchRead, WatchRelease,
        WatchDropOverflow, WatchResolve, slotVars, osVars, dispVars, workerVars, TypeOK,
        SlotsTyped, WatcherTyped, Slots
  <1>2. status'[i] = status[i] \/ status'[i] = FREE
    BY <1>1 DEF Watcher, WatchWait, WatchScan, WatchRead, WatchRelease, WatchDropOverflow,
        WatchResolve, slotVars
  <1>3. NextSlotOfWatch /\ i # wat /\ wat <= i => WatchWillPass(i)'
    BY <1>1 DEF NextSlotOfWatch, WatchWillPass
  <1>4. CASE WatchWait
    BY <1>1, <1>4 DEF WatchWait, ResponseNoticed, WatchWillPass, RequestNoticed, RecvWillPass,
        slotVars
  <1>5. CASE WatchScan
    <2>1. WatchWillPass(i) /\ status[i] = DONE => WatchWillPass(i)'
      BY <1>1, <1>3, <1>5 DEF WatchScan, WatchWillPass
    <2>2. UNCHANGED <<status, rspEvent>>
      BY <1>5 DEF WatchScan, slotVars, osVars
    <2> QED
      BY <1>1, <2>1, <2>2 DEF ResponseNoticed, RequestNoticed, RecvWillPass
  <1>6. CASE WatchRead \/ WatchDropOverflow
    BY <1>1, <1>6 DEF WatchRead, WatchDropOverflow, ResponseNoticed, WatchWillPass,
        RequestNoticed, RecvWillPass, slotVars, osVars
  <1>7. CASE WatchRelease
    <2>1. status[wat] = DONE
      BY <1>7 DEF WatchRelease, OwnershipInv, WatcherOwns
    <2>2. /\ status' = [status EXCEPT ![wat] = FREE]
          /\ watch = "release" /\ watch' = "drop"
          /\ UNCHANGED <<wat, rspEvent>>
      BY <1>7, <2>1 DEF WatchRelease, osVars
    <2>3. status'[i] = DONE => status[i] = DONE /\ i # wat
      BY <1>1, <2>2 DEF Slots
    <2>4. status'[i] = READY => status[i] = READY
      BY <1>2
    <2> QED
      BY <1>1, <2>2, <2>3, <2>4 DEF ResponseNoticed, WatchWillPass, RequestNoticed, RecvWillPass
  <1>8. CASE WatchResolve
    <2>1. /\ watch = "resolve" /\ NextSlotOfWatch
          /\ UNCHANGED <<status, rspEvent>>
      BY <1>8 DEF WatchResolve, slotVars, osVars
    <2>2. WatchWillPass(i) => i # wat /\ wat <= i
      BY <1>1, <2>1 DEF WatchWillPass
    <2> QED
      BY <1>1, <1>3, <2>1, <2>2 DEF ResponseNoticed, RequestNoticed, RecvWillPass
  <1> QED
    BY <1>4, <1>5, <1>6, <1>7, <1>8 DEF Watcher

(***************************************************************************)
(* The steps of the receive loop: likewise for the slots that are Ready.   *)
(***************************************************************************)
LEMMA WakeReceiveLoop ==
    ASSUME TypeOK, OwnershipInv, NEW D \in SUBSET Calls, NEW i \in Slots, ReceiveLoop
    PROVE  /\ RequestNoticed(i) => RequestNoticed(i)'
           /\ ResponseNoticed(i, D) => ResponseNoticed(i, D)'
  <1> USE DEF FREE, READY, CLAIMED, DONE, WRITING
  <1>1. /\ UNCHANGED <<reqArena, disp, watch, wat, rspEvent>>
        /\ status \in [Slots -> Statuses]
        /\ i \in 0 .. NumSlots - 1 /\ rat \in 0 .. NumSlots - 1 /\ NumSlots \in Nat
        /\ i \in Slots /\ rat \in Slots
    BY BusAssumption DEF ReceiveLoop, RecvWait, RecvScan, RecvDeliver, RecvDiscard, slotVars,
        osVars, hubVars, TypeOK, SlotsTyped, WorkerTyped, Slots
  <1>2. /\ status'[i] = DONE => status[i] = DONE
        /\ status'[i] = READY => status[i] = READY
    BY <1>1 DEF ReceiveLoop, RecvWait, RecvScan, RecvDeliver, RecvDiscard, slotVars
  <1>3. recv = "read" => status[rat] = CLAIMED /\ hand[reqArena[rat]] = "none"
    BY DEF OwnershipInv, RecvOwns
  <1>4. status[i] = DONE => hand'[reqArena[i]] = hand[reqArena[i]] \/ hand[reqArena[i]] = "none"
    <2>1. CASE RecvDeliver
      <3>1. recv = "read" /\ hand' = [hand EXCEPT ![reqArena[rat]] = "got"]
            /\ hand \in [Calls -> HandPc]
        BY <2>1 DEF RecvDeliver, TypeOK, WorkerTyped
      <3>2. status[i] = DONE => reqArena[i] \in Calls
        BY DEF OwnershipInv, BusyContent, Busy
      <3> QED
        BY <1>3, <3>1, <3>2
    <2>2. CASE ~RecvDeliver
      BY <2>2 DEF ReceiveLoop, RecvWait, RecvScan, RecvDiscard, handVars
    <2> QED
      BY <2>1, <2>2
  <1>5. ResponseNoticed(i, D) => ResponseNoticed(i, D)'
    BY <1>1, <1>2, <1>4 DEF ResponseNoticed, WatchWillPass
  <1>6. NextSlotOfRecv /\ i # rat /\ rat <= i => RecvWillPass(i)'
    BY <1>1 DEF NextSlotOfRecv, RecvWillPass
  <1>7. CASE RecvWait
    BY <1>1, <1>5, <1>7 DEF RecvWait, RequestNoticed, RecvWillPass, slotVars
  <1>8. CASE RecvScan
    <2>1. RecvWillPass(i) /\ status'[i] = READY => RecvWillPass(i)'
      BY <1>1, <1>6, <1>8 DEF RecvScan, RecvWillPass
    <2>2. reqEvent' = reqEvent
      BY <1>8 DEF RecvScan, osVars
    <2> QED
      BY <1>1, <1>2, <1>5, <2>1, <2>2 DEF RequestNoticed
  <1>9. CASE RecvDeliver \/ RecvDiscard
    <2>1. recv = "read" /\ NextSlotOfRecv /\ reqEvent' = reqEvent
      BY <1>9 DEF RecvDeliver, RecvDiscard, osVars
    <2>2. RecvWillPass(i) => i # rat /\ rat <= i
      BY <1>1, <2>1 DEF RecvWillPass
    <2> QED
      BY <1>1, <1>2, <1>5, <1>6, <2>1, <2>2 DEF RequestNoticed
  <1> QED
    BY <1>5, <1>7, <1>8, <1>9 DEF ReceiveLoop

(***************************************************************************)
(* The steps of a handler: what it publishes it still has to signal.       *)
(***************************************************************************)
LEMMA WakeHandler ==
    ASSUME TypeOK, OwnershipInv, NEW D \in SUBSET Calls, NEW i \in Slots,
           NEW c \in Calls \ D, Handler(c)
    PROVE  /\ RequestNoticed(i) => RequestNoticed(i)'
           /\ ResponseNoticed(i, D) => ResponseNoticed(i, D)'
  <1> USE DEF FREE, READY, CLAIMED, DONE, WRITING
  <1> DEFINE Telling == {"published", "stored"}
  <1>1. /\ UNCHANGED <<reqArena, disp, recv, rat, watch, wat, reqEvent>>
        /\ hand \in [Calls -> HandPc] /\ hat[c] \in Slots
        /\ status \in [Slots -> Statuses]
        /\ rspEvent \in Nat
    BY DEF Handler, DropStaleResponseOverflow, WriteResponse, PublishResponse,
        ReleaseFailedResponse, StoreResponseOverflow, SignalResponse, slotVars, osVars, hubVars,
        recvVars, TypeOK, SlotsTyped, OsTyped, WorkerTyped
  <1>2. /\ status'[i] = READY => status[i] = READY
        /\ status'[i] = DONE =>
               status[i] = DONE \/ (reqArena[i] = c /\ hand'[c] = "published")
    <2>1. CASE PublishResponse(c)
      BY <1>1, <2>1 DEF PublishResponse, OwnershipInv, HandlersOwn, HandlingPc
    <2>2. CASE ~PublishResponse(c)
      BY <1>1, <2>2 DEF Handler, DropStaleResponseOverflow, WriteResponse,
          ReleaseFailedResponse, StoreResponseOverflow, SignalResponse, slotVars
    <2> QED
      BY <2>1, <2>2
  <1>3. /\ rspEvent > 0 => rspEvent' > 0
        /\ \A d \in Calls : hand[d] \in Telling => hand'[d] \in Telling \/ rspEvent' > 0
    <2>1. CASE SignalResponse(c)
      BY <1>1, <2>1, SignalPending DEF SignalResponse
    <2>2. CASE ~SignalResponse(c)
      BY <1>1, <2>2 DEF Handler, DropStaleResponseOverflow, WriteResponse, PublishResponse,
          ReleaseFailedResponse, StoreResponseOverflow, osVars
    <2> QED
      BY <2>1, <2>2
  <1>4. status[i] = DONE => reqArena[i] \in Calls
    BY DEF OwnershipInv, BusyContent, Busy
  <1>5. RequestNoticed(i) => RequestNoticed(i)'
    BY <1>1, <1>2 DEF RequestNoticed, RecvWillPass
  <1>6. ResponseNoticed(i, D) => ResponseNoticed(i, D)'
    BY <1>1, <1>2, <1>3, <1>4 DEF ResponseNoticed, WatchWillPass
  <1> QED
    BY <1>5, <1>6

(***************************************************************************)
(* No step of a thread that is alive loses a wakeup.                       *)
(***************************************************************************)
LEMMA WakeStep ==
    ASSUME TypeOK, OwnershipInv, NEW D \in SUBSET Calls, StepWithout(D), NEW i \in Slots
    PROVE  /\ RequestNoticed(i) => RequestNoticed(i)'
           /\ ResponseNoticed(i, D) => ResponseNoticed(i, D)'
  <1> DEFINE Kept == /\ RequestNoticed(i) => RequestNoticed(i)'
                     /\ ResponseNoticed(i, D) => ResponseNoticed(i, D)'
  <1>1. ASSUME NEW c \in Calls, Start(c) \/ Dispatch(c) PROVE Kept
    BY <1>1, WakeDispatch
  <1>2. Watcher => Kept
    BY WakeWatcher
  <1>3. ReceiveLoop => Kept
    BY WakeReceiveLoop
  <1>4. ASSUME NEW c \in Calls \ D, Handler(c) PROVE Kept
    BY <1>4, WakeHandler
  <1> QED
    BY <1>1, <1>2, <1>3, <1>4 DEF StepWithout

(***************************************************************************)
(* For every number of calls and slots, with or without timeouts, on       *)
(* either platform: no loop sleeps on a slot that waits for it.            *)
(***************************************************************************)
THEOREM WakeupsKept == Spec => []NoLostWakeup
  <1>1. Init => NoLostWakeup
    BY DEF Init, NoLostWakeup, RequestNoticed, ResponseNoticed, FREE, READY, DONE
  <1>2. TypeOK /\ OwnershipInv /\ NoLostWakeup /\ [Next]_vars => NoLostWakeup'
    <2> SUFFICES ASSUME TypeOK, OwnershipInv, NoLostWakeup, [Next]_vars, NEW i \in Slots
                 PROVE  RequestNoticed(i)' /\ ResponseNoticed(i, {})'
      BY DEF NoLostWakeup
    <2>1. RequestNoticed(i) /\ ResponseNoticed(i, {})
      BY DEF NoLostWakeup
    <2>2. CASE Next
      <3>1. StepWithout({})
        BY <2>2 DEF Next, StepWithout
      <3> QED
        BY <2>1, <3>1, WakeStep
    <2>3. CASE UNCHANGED vars
      BY <2>1, <2>3 DEF RequestNoticed, ResponseNoticed, RecvWillPass, WatchWillPass, vars,
          slotVars, osVars, hubVars, workerVars
    <2> QED
      BY <2>2, <2>3
  <1> QED
    BY <1>1, <1>2, OwnershipCorrect, PTL DEF Spec
=============================================================================
