-------------------------- MODULE SlotLayoutProofs --------------------------
(***************************************************************************)
(* Facts about the layout of the control region for every number of slots, *)
(* every region size and every payload length, and with them the safety of *)
(* the inline heap.                                                        *)
(***************************************************************************)
EXTENDS SlotHeap, TLAPS

(***************************************************************************)
(* Rounding down gives a multiple of 8 that is at most 7 less.             *)
(***************************************************************************)
LEMMA RoundDown8Facts ==
    ASSUME NEW n \in Nat
    PROVE  /\ RoundDown8(n) \in Nat
           /\ RoundDown8(n) <= n
           /\ n < RoundDown8(n) + 8
           /\ RoundDown8(n) % 8 = 0
  BY DEF RoundDown8

(***************************************************************************)
(* Aligning adds at most 7, and never passes a limit that is a multiple    *)
(* of 8.                                                                   *)
(***************************************************************************)
LEMMA Align8Facts ==
    ASSUME NEW n \in Nat
    PROVE  /\ Align8(n) \in Nat
           /\ n <= Align8(n)
           /\ Align8(n) < n + 8
           /\ \A limit \in Nat : limit % 8 = 0 /\ n <= limit => Align8(n) <= limit
  BY DEF Align8, RoundDown8

(***************************************************************************)
(* The arenas of all slots together are no longer than the heap.           *)
(***************************************************************************)
LEMMA ArenaSizeFacts ==
    ASSUME NEW n \in Nat \ {0}, NEW h \in Nat
    PROVE  /\ ArenaSize(n, h) \in Nat
           /\ ArenaSize(n, h) % 8 = 0
           /\ n * ArenaSize(n, h) <= h
  <1> DEFINE q == h \div n
             a == RoundDown8(q)
  <1>1. q \in Nat /\ n * q <= h
    BY Z3
  <1>2. a \in Nat /\ a <= q /\ a % 8 = 0
    BY <1>1, RoundDown8Facts
  <1>3. n * a <= n * q
    BY <1>1, <1>2, Z3
  <1>4. ArenaSize(n, h) = a
    BY DEF ArenaSize
  <1> QED
    BY <1>1, <1>2, <1>3, <1>4

(***************************************************************************)
(* The two halves make up the arena, and both are multiples of 8.          *)
(***************************************************************************)
LEMMA HalfFacts ==
    ASSUME NEW a \in Nat, a % 8 = 0
    PROVE  /\ RequestHalf(a) \in Nat
           /\ RequestHalf(a) <= a
           /\ RequestHalf(a) <= a - RequestHalf(a)
           /\ \A dir \in Directions :
                 /\ HalfSize(dir, a) \in Nat
                 /\ HalfSize(dir, a) % 8 = 0
                 /\ HalfSize(dir, a) <= a
                 /\ RequestHalf(a) <= HalfSize(dir, a)
  <1>1. RequestHalf(a) \in Nat /\ RequestHalf(a) % 8 = 0 /\ RequestHalf(a) <= a \div 2
    BY RoundDown8Facts DEF RequestHalf
  <1>2. a \div 2 <= a /\ a \div 2 <= a - a \div 2
    OBVIOUS
  <1>3. (a - RequestHalf(a)) % 8 = 0 /\ a - RequestHalf(a) \in Nat
    BY <1>1, <1>2
  <1> QED
    BY <1>1, <1>2, <1>3 DEF Directions, HalfSize

(***************************************************************************)
(* Every half lies inside the heap.                                        *)
(***************************************************************************)
LEMMA HalvesInHeap ==
    ASSUME NEW i \in Slots, NEW dir \in Directions
    PROVE  /\ Base(i, dir) \in Nat /\ Size(dir) \in Nat /\ Size(dir) % 8 = 0
           /\ Base(i, dir) + Size(dir) <= Heap
  <1>1. Heap \in Nat /\ NumSlots \in Nat \ {0} /\ i \in Nat /\ i + 1 <= NumSlots
    BY GeometryAssumption DEF Heap, HeapSize, SaturatingSub, HeapOffset, Slots,
        SHM_HEADER_SIZE, SLOT_META_SIZE
  <1>2. Arena \in Nat /\ Arena % 8 = 0 /\ NumSlots * Arena <= Heap
    BY <1>1, ArenaSizeFacts DEF Arena
  <1>3. (i + 1) * Arena <= NumSlots * Arena /\ (i + 1) * Arena = i * Arena + Arena
        /\ i * Arena \in Nat
    BY <1>1, <1>2, Z3
  <1>4. RequestHalf(Arena) \in Nat /\ Size(dir) \in Nat /\ Size(dir) % 8 = 0
    BY <1>2, HalfFacts DEF Size
  <1>5. Base(i, dir) \in Nat /\ Base(i, dir) + Size(dir) <= i * Arena + Arena
    <2>1. RequestHalf(Arena) <= Arena
      BY <1>2, HalfFacts
    <2>2. CASE dir = "request"
      BY <1>2, <1>3, <1>4, <2>1, <2>2 DEF Base, HalfBase, Size, HalfSize
    <2>3. CASE dir = "response"
      BY <1>2, <1>3, <1>4, <2>1, <2>3 DEF Base, HalfBase, Size, HalfSize
    <2> QED
      BY <2>2, <2>3 DEF Directions
  <1>6. i * Arena + Arena <= Heap
    <2> DEFINE all == NumSlots * Arena
               upto == i * Arena + Arena
    <2>1. upto \in Int /\ all \in Int /\ upto <= all /\ all <= Heap
      BY <1>1, <1>2, <1>3, Z3
    <2> HIDE DEF all, upto
    <2>2. upto <= Heap
      BY <1>1, <2>1
    <2> QED
      BY <2>2 DEF upto
  <1> DEFINE upto == i * Arena + Arena
  <1>7. upto \in Int /\ upto <= Heap /\ Base(i, dir) + Size(dir) <= upto
    BY <1>2, <1>3, <1>5, <1>6
  <1> HIDE DEF upto
  <1> QED
    BY <1>1, <1>4, <1>5, <1>7

(***************************************************************************)
(* Two halves never overlap: one of them ends before the other begins.     *)
(***************************************************************************)
LEMMA HalvesDisjoint ==
    ASSUME NEW i \in Slots, NEW j \in Slots, NEW d \in Directions, NEW e \in Directions,
           <<i, d>> # <<j, e>>
    PROVE  \/ Base(i, d) + Size(d) <= Base(j, e)
           \/ Base(j, e) + Size(e) <= Base(i, d)
  <1>1. Heap \in Nat /\ NumSlots \in Nat \ {0}
    BY GeometryAssumption DEF Heap, HeapSize, SaturatingSub, HeapOffset,
        SHM_HEADER_SIZE, SLOT_META_SIZE
  <1>2. Arena \in Nat /\ Arena % 8 = 0
    BY <1>1, ArenaSizeFacts DEF Arena
  <1>3. /\ RequestHalf(Arena) \in Nat
        /\ RequestHalf(Arena) <= Arena
    BY <1>2, HalfFacts
  <1>4. ASSUME NEW k \in Slots, NEW f \in Directions
        PROVE  /\ k * Arena \in Nat
               /\ k * Arena <= Base(k, f)
               /\ Base(k, f) + Size(f) <= k * Arena + Arena
    <2>1. k * Arena \in Nat
      BY <1>1, <1>2, Z3 DEF Slots
    <2> QED
      BY <1>2, <1>3, <2>1 DEF Base, HalfBase, Size, HalfSize, Directions
  <1>5. ASSUME NEW k \in Slots, NEW l \in Slots, k < l
        PROVE  k * Arena + Arena <= l * Arena
    <2>1. k \in Nat /\ l \in Nat /\ k + 1 <= l
      BY <1>1, <1>5 DEF Slots
    <2> QED
      BY <1>2, <2>1, Z3
  <1>6. CASE i < j
    <2> DEFINE upto == i * Arena + Arena
               from == j * Arena
    <2>1. upto \in Int /\ from \in Int /\ upto <= from
      BY <1>2, <1>4, <1>5, <1>6
    <2>2. Base(i, d) + Size(d) <= upto /\ from <= Base(j, e)
      BY <1>4
    <2>3. Base(i, d) + Size(d) \in Int /\ Base(j, e) \in Int
      BY HalvesInHeap
    <2> HIDE DEF upto, from
    <2> QED
      BY <2>1, <2>2, <2>3
  <1>7. CASE j < i
    <2> DEFINE upto == j * Arena + Arena
               from == i * Arena
    <2>1. upto \in Int /\ from \in Int /\ upto <= from
      BY <1>2, <1>4, <1>5, <1>7
    <2>2. Base(j, e) + Size(e) <= upto /\ from <= Base(i, d)
      BY <1>4
    <2>3. Base(j, e) + Size(e) \in Int /\ Base(i, d) \in Int
      BY HalvesInHeap
    <2> HIDE DEF upto, from
    <2> QED
      BY <2>1, <2>2, <2>3
  <1>8. CASE i = j /\ d # e
    BY <1>8, <1>2, <1>3, <1>4 DEF Base, HalfBase, Size, HalfSize, Directions
  <1> QED
    BY <1>1, <1>6, <1>7, <1>8 DEF Slots

(***************************************************************************)
(* The zeroed slots that init_control leaves satisfy the invariant.        *)
(***************************************************************************)
LEMMA HeapInit == Init => HeapInv
  <1> SUFFICES ASSUME Init PROVE HeapInv
    OBVIOUS
  <1>1. TypeOK
    BY DEF Init, TypeOK, Pointers, Lengths
  <1>2. ASSUME NEW i \in Slots, NEW dir \in Directions PROVE HalfInv(i, dir)
    BY HalvesInHeap DEF Init, HalfInv
  <1> QED
    BY <1>1, <1>2 DEF HeapInv

(***************************************************************************)
(* The numbers a writer stores are naturals.                               *)
(***************************************************************************)
LEMMA PlacementFacts ==
    ASSUME NEW i \in Slots, NEW dir \in Directions, NEW m \in MetaLens, NEW b \in BodyLens
    PROVE  /\ m \in Nat /\ b \in Nat
           /\ Base(i, dir) \in Nat /\ BodyOffset(Base(i, dir), m) \in Nat
           /\ MetaLenField(m) \in Nat
  BY GeometryAssumption, HalvesInHeap, Align8Facts DEF BodyOffset, MetaLenField

(***************************************************************************)
(* Writing a half keeps the invariant: <1>2 for any write that places a    *)
(* payload as HalfInv says, <1>3 to <1>5 that the three placements do.     *)
(***************************************************************************)
LEMMA HeapStep == HeapInv /\ [Next]_vars => HeapInv'
  <1> SUFFICES ASSUME HeapInv, [Next]_vars PROVE HeapInv'
    OBVIOUS
  <1>1. CASE UNCHANGED vars
    BY <1>1 DEF vars, HeapInv, TypeOK, HalfInv
  <1>2. ASSUME NEW i \in Slots, NEW dir \in Directions, NEW p \in Pointers, NEW n \in Lengths,
               SetHalf(i, dir, p, n),
               /\ p.metaOffset = Base(i, dir)
               /\ n.meta <= Size(dir)
               /\ n.body > 0 =>
                     /\ p.bodyOffset = BodyOffset(Base(i, dir), n.meta)
                     /\ BodyFits(Size(dir), n.meta, n.body)
                     /\ p.bodyLen = n.body
                     /\ ~p.overflow
               /\ n.body = 0 => p.bodyOffset = 0
               /\ n.body = 0 /\ ~p.overflow => p.bodyLen = 0
               /\ p.overflow => ~BodyFits(Size(dir), n.meta, p.bodyLen)
        PROVE  HeapInv'
    <2>1. TypeOK'
      BY <1>2 DEF HeapInv, TypeOK, SetHalf
    <2>2. fields'[i][dir] = p /\ copied'[i][dir] = n
      BY <1>2 DEF HeapInv, TypeOK, SetHalf
    <2>3. \A j \in Slots, e \in Directions : <<j, e>> # <<i, dir>> =>
              fields'[j][e] = fields[j][e] /\ copied'[j][e] = copied[j][e]
      BY <1>2 DEF HeapInv, TypeOK, SetHalf
    <2>4. ASSUME NEW j \in Slots, NEW e \in Directions PROVE HalfInv(j, e)'
      <3>1. CASE <<j, e>> = <<i, dir>>
        BY <1>2, <2>2, <3>1 DEF HalfInv
      <3>2. CASE <<j, e>> # <<i, dir>>
        BY <2>3, <3>2 DEF HeapInv, HalfInv
      <3> QED
        BY <3>1, <3>2
    <2> QED
      BY <2>1, <2>4 DEF HeapInv
  <1>3. ASSUME NEW i \in Slots, NEW dir \in Directions, NEW m \in MetaLens, NEW b \in BodyLens,
               PlaceInline(i, dir, m, b)
        PROVE  HeapInv'
    <2>1. m <= Size(dir) /\ b > 0 /\ BodyFits(Size(dir), m, b)
      BY <1>3, PlacementFacts, HalvesInHeap DEF PlaceInline, Placement
    <2> DEFINE p == [metaOffset |-> Base(i, dir), metaLen |-> MetaLenField(m),
                     bodyOffset |-> BodyOffset(Base(i, dir), m), bodyLen |-> b,
                     overflow |-> FALSE]
               n == [meta |-> m, body |-> b]
    <2>2. p \in Pointers /\ n \in Lengths
      BY PlacementFacts DEF Pointers, Lengths
    <2>3. SetHalf(i, dir, p, n)
      BY <1>3 DEF PlaceInline
    <2>4. /\ p.metaOffset = Base(i, dir) /\ p.bodyOffset = BodyOffset(Base(i, dir), m)
          /\ p.bodyLen = b /\ p.overflow = FALSE /\ n.meta = m /\ n.body = b
      OBVIOUS
    <2> HIDE DEF p, n
    <2> QED
      BY <1>2, <2>1, <2>2, <2>3, <2>4, PlacementFacts
  <1>4. ASSUME NEW i \in Slots, NEW dir \in Directions, NEW m \in MetaLens, NEW b \in BodyLens,
               PlaceEmpty(i, dir, m, b)
        PROVE  HeapInv'
    <2>1. m <= Size(dir)
      BY <1>4, PlacementFacts, HalvesInHeap DEF PlaceEmpty, Placement
    <2> DEFINE p == [metaOffset |-> Base(i, dir), metaLen |-> MetaLenField(m),
                     bodyOffset |-> 0, bodyLen |-> 0, overflow |-> FALSE]
               n == [meta |-> m, body |-> 0]
    <2>2. p \in Pointers /\ n \in Lengths
      BY PlacementFacts DEF Pointers, Lengths
    <2>3. SetHalf(i, dir, p, n)
      BY <1>4 DEF PlaceEmpty
    <2>4. /\ p.metaOffset = Base(i, dir) /\ p.bodyOffset = 0
          /\ p.bodyLen = 0 /\ p.overflow = FALSE /\ n.meta = m /\ n.body = 0
      OBVIOUS
    <2> HIDE DEF p, n
    <2> QED
      BY <1>2, <2>1, <2>2, <2>3, <2>4, PlacementFacts
  <1>5. ASSUME NEW i \in Slots, NEW dir \in Directions, NEW m \in MetaLens, NEW b \in BodyLens,
               PlaceSpilled(i, dir, m, b)
        PROVE  HeapInv'
    <2>1. m <= Size(dir) /\ ~BodyFits(Size(dir), m, b)
      BY <1>5, PlacementFacts, HalvesInHeap DEF PlaceSpilled, Placement
    <2> DEFINE p == [metaOffset |-> Base(i, dir), metaLen |-> MetaLenField(m),
                     bodyOffset |-> 0, bodyLen |-> b, overflow |-> TRUE]
               n == [meta |-> m, body |-> 0]
    <2>2. p \in Pointers /\ n \in Lengths
      BY PlacementFacts DEF Pointers, Lengths
    <2>3. SetHalf(i, dir, p, n)
      BY <1>5 DEF PlaceSpilled
    <2>4. /\ p.metaOffset = Base(i, dir) /\ p.bodyOffset = 0
          /\ p.bodyLen = b /\ p.overflow = TRUE /\ n.meta = m /\ n.body = 0
      OBVIOUS
    <2> HIDE DEF p, n
    <2> QED
      BY <1>2, <2>1, <2>2, <2>3, <2>4, PlacementFacts
  <1> QED
    BY <1>1, <1>3, <1>4, <1>5 DEF Next

(***************************************************************************)
(* Every byte of a payload is inside the half it was written to.           *)
(***************************************************************************)
LEMMA OccupiedInHalf ==
    ASSUME HeapInv, NEW i \in Slots, NEW d \in Directions,
           NEW x \in Occupied(i, d)
    PROVE  /\ x \in Nat
           /\ Base(i, d) <= x
           /\ x < Base(i, d) + Size(d)
  <1>1. /\ fields[i][d].metaOffset \in Nat /\ fields[i][d].bodyOffset \in Nat
        /\ copied[i][d].meta \in Nat /\ copied[i][d].body \in Nat
    BY DEF HeapInv, TypeOK, Pointers, Lengths
  <1>2. HalfInv(i, d) /\ Base(i, d) \in Nat /\ Size(d) \in Nat
    BY HalvesInHeap DEF HeapInv
  <1>3. CASE x \in MetaBytes(i, d)
    BY <1>1, <1>2, <1>3 DEF MetaBytes, HalfInv
  <1>4. CASE x \in BodyBytes(i, d)
    <2>1. copied[i][d].body > 0
      BY <1>1, <1>4 DEF BodyBytes
    <2>2. /\ fields[i][d].bodyOffset = Base(i, d) + Align8(copied[i][d].meta)
          /\ Align8(copied[i][d].meta) + copied[i][d].body <= Size(d)
      BY <1>2, <2>1 DEF HalfInv, BodyOffset, BodyFits
    <2>3. Align8(copied[i][d].meta) \in Nat
      BY <1>1, Align8Facts
    <2> QED
      BY <1>1, <1>2, <1>4, <2>2, <2>3 DEF BodyBytes
  <1> QED
    BY <1>3, <1>4 DEF Occupied

(***************************************************************************)
(* No write to one half touches the payload of another.                    *)
(***************************************************************************)
LEMMA InvDisjoint == HeapInv => PayloadsDisjoint
  <1> SUFFICES ASSUME HeapInv, NEW i \in Slots, NEW j \in Slots,
                      NEW d \in Directions, NEW e \in Directions,
                      <<i, d>> # <<j, e>>,
                      NEW x \in Occupied(i, d), x \in Occupied(j, e)
               PROVE  FALSE
    BY DEF PayloadsDisjoint
  <1>1. x \in Nat /\ Base(i, d) <= x /\ x < Base(i, d) + Size(d)
    BY OccupiedInHalf
  <1>2. Base(j, e) <= x /\ x < Base(j, e) + Size(e)
    BY OccupiedInHalf
  <1>3. /\ Base(i, d) \in Nat /\ Size(d) \in Nat
        /\ Base(j, e) \in Nat /\ Size(e) \in Nat
    BY HalvesInHeap
  <1>4. Base(i, d) + Size(d) <= Base(j, e) \/ Base(j, e) + Size(e) <= Base(i, d)
    BY HalvesDisjoint
  <1> QED
    BY <1>1, <1>2, <1>3, <1>4

(***************************************************************************)
(* A body starts after the metadata it follows.                            *)
(***************************************************************************)
LEMMA InvClear == HeapInv => BodyClearOfMeta
  <1> SUFFICES ASSUME HeapInv, NEW i \in Slots, NEW d \in Directions,
                      NEW x \in MetaBytes(i, d), x \in BodyBytes(i, d)
               PROVE  FALSE
    BY DEF BodyClearOfMeta
  <1>1. /\ fields[i][d].metaOffset \in Nat /\ fields[i][d].bodyOffset \in Nat
        /\ copied[i][d].meta \in Nat /\ copied[i][d].body \in Nat
    BY DEF HeapInv, TypeOK, Pointers, Lengths
  <1>2. HalfInv(i, d) /\ Base(i, d) \in Nat
    BY HalvesInHeap DEF HeapInv
  <1>3. copied[i][d].body > 0
    BY <1>1 DEF BodyBytes
  <1>4. /\ fields[i][d].bodyOffset = Base(i, d) + Align8(copied[i][d].meta)
        /\ fields[i][d].metaOffset = Base(i, d)
    BY <1>1, <1>2, <1>3 DEF HalfInv, BodyOffset
  <1>5. Align8(copied[i][d].meta) \in Nat /\ copied[i][d].meta <= Align8(copied[i][d].meta)
    BY <1>1, Align8Facts
  <1> QED
    BY <1>1, <1>2, <1>4, <1>5 DEF MetaBytes, BodyBytes

(***************************************************************************)
(* What a writer leaves passes the reader's bounds checks.                 *)
(***************************************************************************)
LEMMA InvReadable == HeapInv => PointersReadable
  <1> SUFFICES ASSUME HeapInv, NEW i \in Slots, NEW d \in Directions
               PROVE  LET p == fields[i][d] IN
                      /\ HeapAccessOk(p.metaOffset, copied[i][d].meta, Heap)
                      /\ ~p.overflow => HeapAccessOk(p.bodyOffset, p.bodyLen, Heap)
                      /\ copied[i][d].meta + copied[i][d].body > 0 =>
                            HeapOffset(NumSlots) + p.metaOffset + copied[i][d].meta
                                <= RegionSize
    BY DEF PointersReadable
  <1> DEFINE p == fields[i][d]
             n == copied[i][d]
  <1>1. /\ p.metaOffset \in Nat /\ p.bodyOffset \in Nat /\ p.bodyLen \in Nat
        /\ n.meta \in Nat /\ n.body \in Nat
    BY DEF HeapInv, TypeOK, Pointers, Lengths
  <1>2. /\ HalfInv(i, d) /\ Base(i, d) \in Nat /\ Size(d) \in Nat
        /\ Base(i, d) + Size(d) <= Heap
    BY HalvesInHeap DEF HeapInv
  <1>3. Heap \in Nat /\ HeapOffset(NumSlots) \in Nat
        /\ (Heap > 0 => HeapOffset(NumSlots) + Heap = RegionSize)
    BY GeometryAssumption DEF Heap, HeapSize, SaturatingSub, HeapOffset,
        SHM_HEADER_SIZE, SLOT_META_SIZE
  <1>4. p.metaOffset + n.meta <= Heap
    BY <1>1, <1>2, <1>3 DEF HalfInv
  <1>5. ASSUME ~p.overflow PROVE p.bodyOffset + p.bodyLen <= Heap
    <2>1. CASE n.body = 0
      BY <1>1, <1>2, <1>3, <1>5, <2>1 DEF HalfInv
    <2>2. CASE n.body > 0
      <3>1. /\ p.bodyOffset = Base(i, d) + Align8(n.meta)
            /\ Align8(n.meta) + n.body <= Size(d) /\ p.bodyLen = n.body
        BY <1>2, <2>2 DEF HalfInv, BodyOffset, BodyFits
      <3>2. Align8(n.meta) \in Nat
        BY <1>1, Align8Facts
      <3> QED
        BY <1>1, <1>2, <1>3, <3>1, <3>2
    <2> QED
      BY <1>1, <2>1, <2>2
  <1>6. ASSUME n.meta + n.body > 0
        PROVE  HeapOffset(NumSlots) + p.metaOffset + n.meta <= RegionSize
    <2>1. n.meta + n.body <= Size(d)
      <3>1. CASE n.body = 0
        BY <1>1, <1>2, <3>1 DEF HalfInv
      <3>2. CASE n.body > 0
        <4>1. Align8(n.meta) + n.body <= Size(d)
          BY <1>2, <3>2 DEF HalfInv, BodyFits
        <4>2. Align8(n.meta) \in Nat /\ n.meta <= Align8(n.meta)
          BY <1>1, Align8Facts
        <4> QED
          BY <1>1, <1>2, <4>1, <4>2
      <3> QED
        BY <1>1, <3>1, <3>2
    <2>2. Heap > 0
      BY <1>1, <1>2, <1>3, <1>6, <2>1
    <2> QED
      BY <1>1, <1>3, <1>4, <2>2
  <1> QED
    BY <1>4, <1>5, <1>6 DEF HeapAccessOk

(***************************************************************************)
(* The reported capacity agrees with where bodies really go.               *)
(***************************************************************************)
LEMMA InvCapacity == HeapInv => CapacityHonest
  <1> SUFFICES ASSUME HeapInv, NEW i \in Slots, NEW d \in Directions
               PROVE  LET capacity == InlineBodyCapacity(copied[i][d].meta, Arena) IN
                      /\ fields[i][d].overflow => fields[i][d].bodyLen > capacity
                      /\ d = "request" => copied[i][d].body <= capacity
    BY DEF CapacityHonest
  <1> DEFINE p == fields[i][d]
             n == copied[i][d]
             capacity == InlineBodyCapacity(n.meta, Arena)
             aligned == Align8(n.meta)
  <1>1. p.bodyLen \in Nat /\ n.meta \in Nat /\ n.body \in Nat /\ aligned \in Nat
    BY Align8Facts DEF HeapInv, TypeOK, Pointers, Lengths
  <1>2. /\ HalfInv(i, d) /\ Size(d) \in Nat /\ Size(d) % 8 = 0
        /\ Arena \in Nat /\ Arena % 8 = 0
    <2>1. Heap \in Nat /\ NumSlots \in Nat \ {0}
      BY GeometryAssumption DEF Heap, HeapSize, SaturatingSub, HeapOffset,
          SHM_HEADER_SIZE, SLOT_META_SIZE
    <2> QED
      BY <2>1, HalvesInHeap, ArenaSizeFacts DEF HeapInv, Arena
  <1>3. capacity = SaturatingSub(RequestHalf(Arena), aligned)
    BY <1>2, HalfFacts DEF InlineBodyCapacity, HalfSize, Directions
  <1>4. RequestHalf(Arena) \in Nat /\ RequestHalf(Arena) <= Size(d)
    BY <1>2, HalfFacts DEF Size
  <1>5. aligned <= Size(d)
    BY <1>1, <1>2, Align8Facts DEF HalfInv
  <1>6. ASSUME p.overflow PROVE p.bodyLen > capacity
    <2>1. aligned + p.bodyLen > Size(d)
      BY <1>1, <1>2, <1>6 DEF HalfInv, BodyFits
    <2> QED
      BY <1>1, <1>2, <1>3, <1>4, <1>5, <2>1 DEF SaturatingSub
  <1>7. ASSUME d = "request" PROVE n.body <= capacity
    <2>1. Size(d) = RequestHalf(Arena)
      BY <1>7 DEF Size, HalfSize
    <2>2. CASE n.body = 0
      BY <1>1, <1>3, <1>4, <2>2 DEF SaturatingSub
    <2>3. CASE n.body > 0
      <3>1. aligned + n.body <= Size(d)
        BY <1>2, <2>3 DEF HalfInv, BodyFits
      <3> QED
        BY <1>1, <1>3, <1>4, <2>1, <3>1 DEF SaturatingSub
    <2> QED
      BY <1>1, <2>2, <2>3
  <1> QED
    BY <1>6, <1>7

(***************************************************************************)
(* The invariant of the heap holds in every state of the specification.    *)
(***************************************************************************)
THEOREM HeapCorrect == Spec => []HeapInv
  BY HeapInit, HeapStep, PTL DEF Spec

(***************************************************************************)
(* For every number of slots and region size, no write of a payload        *)
(* touches what another half holds: the lock-free arenas are race-free.    *)
(***************************************************************************)
THEOREM HalvesNeverOverlap == Spec => []PayloadsDisjoint
  BY HeapCorrect, InvDisjoint, PTL

(***************************************************************************)
(* For every geometry, an inline body never lands on its own metadata.     *)
(***************************************************************************)
THEOREM BodyAfterMeta == Spec => []BodyClearOfMeta
  BY HeapCorrect, InvClear, PTL

(***************************************************************************)
(* For every geometry, accepted payloads pass the reader's bounds checks.  *)
(***************************************************************************)
THEOREM AcceptedIsReadable == Spec => []PointersReadable
  BY HeapCorrect, InvReadable, PTL

(***************************************************************************)
(* For every geometry, inline_body_capacity tells the truth.               *)
(***************************************************************************)
THEOREM CapacityIsHonest == Spec => []CapacityHonest
  BY HeapCorrect, InvCapacity, PTL
=============================================================================
