------------------------------ MODULE SlotHeap ------------------------------
(***************************************************************************)
(* The inline heap of one control region as the writers use it.  A slot's  *)
(* request half and response half are each written with a payload (some    *)
(* metadata and a body), in any order over the slots, and the pointers     *)
(* the reader will follow are left in the slot.  The bytes really copied   *)
(* are kept beside the pointers, so that what the reader will be given can *)
(* be compared with what the writer copied.                                *)
(***************************************************************************)
EXTENDS SlotLayout

CONSTANTS NumSlots,     \* slots in the region
          RegionSize,   \* bytes in the region
          MetaLens,     \* metadata lengths the writers try
          BodyLens      \* body lengths the writers try

ASSUME GeometryAssumption ==
    /\ NumSlots \in Nat \ {0}
    /\ RegionSize \in Nat
    /\ MetaLens \subseteq Nat
    /\ BodyLens \subseteq Nat

VARIABLES fields,   \* pointer fields of the slot, per slot and direction
          copied    \* lengths copied into the half, per slot and direction

vars == <<fields, copied>>

Slots == 0 .. NumSlots - 1
Heap == HeapSize(NumSlots, RegionSize)
Arena == ArenaSize(NumSlots, Heap)
Base(i, dir) == HalfBase(i, dir, Arena)
Size(dir) == HalfSize(dir, Arena)

Pointers == [metaOffset : Nat, metaLen : Nat, bodyOffset : Nat, bodyLen : Nat,
             overflow : BOOLEAN]
Lengths == [meta : Nat, body : Nat]

TypeOK ==
    /\ fields \in [Slots -> [Directions -> Pointers]]
    /\ copied \in [Slots -> [Directions -> Lengths]]

\* init_control zeroes every slot and the header.
Init ==
    /\ fields = [i \in Slots |-> [dir \in Directions |->
           [metaOffset |-> 0, metaLen |-> 0, bodyOffset |-> 0, bodyLen |-> 0,
            overflow |-> FALSE]]]
    /\ copied = [i \in Slots |-> [dir \in Directions |-> [meta |-> 0, body |-> 0]]]

SetHalf(i, dir, ptr, len) ==
    /\ fields' = [fields EXCEPT ![i][dir] = ptr]
    /\ copied' = [copied EXCEPT ![i][dir] = len]

\* The body goes in the arena, right after the metadata.
PlaceInline(i, dir, m, b) ==
    /\ Placement(Size(dir), m, b) = "inline"
    /\ SetHalf(i, dir,
               [metaOffset |-> Base(i, dir), metaLen |-> MetaLenField(m),
                bodyOffset |-> BodyOffset(Base(i, dir), m), bodyLen |-> b,
                overflow |-> FALSE],
               [meta |-> m, body |-> b])

\* PlaceEmpty gone wrong: the overflow marker of the last payload stays.
MutPlaceEmptyKeepsMarker(i, dir, m, b) ==
    /\ Placement(Size(dir), m, b) = "empty"
    /\ SetHalf(i, dir,
               [metaOffset |-> Base(i, dir), metaLen |-> MetaLenField(m),
                bodyOffset |-> 0, bodyLen |-> 0, overflow |-> fields[i][dir].overflow],
               [meta |-> m, body |-> 0])

\* No body: the three body fields are zeroed.
PlaceEmpty(i, dir, m, b) ==
    /\ Placement(Size(dir), m, b) = "empty"
    /\ SetHalf(i, dir,
               [metaOffset |-> Base(i, dir), metaLen |-> MetaLenField(m),
                bodyOffset |-> 0, bodyLen |-> 0, overflow |-> FALSE],
               [meta |-> m, body |-> 0])

\* The body is in an overflow region; only the metadata is in the arena.
PlaceSpilled(i, dir, m, b) ==
    /\ Placement(Size(dir), m, b) = "spill"
    /\ SetHalf(i, dir,
               [metaOffset |-> Base(i, dir), metaLen |-> MetaLenField(m),
                bodyOffset |-> 0, bodyLen |-> b, overflow |-> TRUE],
               [meta |-> m, body |-> 0])

\* A refused payload leaves the pointers and the bytes as they are.  (A spill
\* for which no overflow region can be made leaves a slot with new metadata and
\* old body pointers; it is freed unread, see WriteRequest and WriteResponse.)
Next ==
    \E i \in Slots, dir \in Directions, m \in MetaLens, b \in BodyLens :
        \/ PlaceInline(i, dir, m, b)
        \/ PlaceEmpty(i, dir, m, b)
        \/ PlaceSpilled(i, dir, m, b)

Spec == Init /\ [][Next]_vars
-----------------------------------------------------------------------------
\* The heap bytes a reader of a half is given: metadata from metaOffset for
\* metaLen bytes, and the body when it is inline.
MetaBytes(i, dir) ==
    fields[i][dir].metaOffset .. fields[i][dir].metaOffset + copied[i][dir].meta - 1
BodyBytes(i, dir) ==
    fields[i][dir].bodyOffset .. fields[i][dir].bodyOffset + copied[i][dir].body - 1
Occupied(i, dir) == MetaBytes(i, dir) \cup BodyBytes(i, dir)

(***************************************************************************)
(* What a half holds is never overwritten by a write to another slot or to *)
(* the other direction of the same slot: this is the whole point of the    *)
(* per-slot arenas that replaced the shared bump allocator.                *)
(***************************************************************************)
PayloadsDisjoint ==
    \A i, j \in Slots : \A d, e \in Directions :
        <<i, d>> # <<j, e>> => Occupied(i, d) \cap Occupied(j, e) = {}

(***************************************************************************)
(* Inside one half the body never lands on the metadata it follows.        *)
(***************************************************************************)
BodyClearOfMeta ==
    \A i \in Slots : \A d \in Directions : MetaBytes(i, d) \cap BodyBytes(i, d) = {}

(***************************************************************************)
(* Every pointer a writer leaves passes the reader's bounds check, and the *)
(* bytes it names lie inside the mapping: a reader of an accepted payload  *)
(* neither gets a spurious out-of-bounds error nor leaves the region.      *)
(***************************************************************************)
PointersReadable ==
    \A i \in Slots : \A d \in Directions :
        LET p == fields[i][d] IN
        /\ HeapAccessOk(p.metaOffset, copied[i][d].meta, Heap)
        /\ ~p.overflow => HeapAccessOk(p.bodyOffset, p.bodyLen, Heap)
        /\ copied[i][d].meta + copied[i][d].body > 0 =>
              HeapOffset(NumSlots) + p.metaOffset + copied[i][d].meta <= RegionSize

(***************************************************************************)
(* A body is in the arena exactly when the capacity the library reports    *)
(* for its metadata says so; the response half may be 8 bytes longer than  *)
(* the reported capacity, so there only one direction is promised.         *)
(***************************************************************************)
CapacityHonest ==
    \A i \in Slots : \A d \in Directions :
        LET capacity == InlineBodyCapacity(copied[i][d].meta, Arena) IN
        /\ fields[i][d].overflow => fields[i][d].bodyLen > capacity
        /\ d = "request" => copied[i][d].body <= capacity

(***************************************************************************)
(* The length recorded in the slot is the length of the metadata copied    *)
(* (the field's comment: "Length of serialized RequestMeta").              *)
(***************************************************************************)
MetaLengthRecorded ==
    \A i \in Slots : \A d \in Directions :
        fields[i][d].metaLen = copied[i][d].meta
-----------------------------------------------------------------------------
\* What one half holds at any time; the four properties follow from it and
\* from where the halves lie.
HalfInv(i, dir) ==
    LET p == fields[i][dir]
        n == copied[i][dir]
    IN  /\ p.metaOffset \in {0, Base(i, dir)}
        /\ n.meta + n.body > 0 => p.metaOffset = Base(i, dir)
        /\ n.meta <= Size(dir)
        /\ n.body > 0 =>
              /\ p.bodyOffset = BodyOffset(Base(i, dir), n.meta)
              /\ BodyFits(Size(dir), n.meta, n.body)
              /\ p.bodyLen = n.body
              /\ ~p.overflow
        /\ n.body = 0 => p.bodyOffset = 0
        /\ n.body = 0 /\ ~p.overflow => p.bodyLen = 0
        /\ p.overflow => ~BodyFits(Size(dir), n.meta, p.bodyLen)

(***************************************************************************)
(* The inductive invariant of the heap: every half holds one payload,      *)
(* placed from its base and within its size.                               *)
(***************************************************************************)
HeapInv == TypeOK /\ \A i \in Slots : \A dir \in Directions : HalfInv(i, dir)
=============================================================================
