----------------------------- MODULE SlotLayout -----------------------------
(***************************************************************************)
(* The arithmetic of the control region (types.rs): where the inline heap  *)
(* starts, how it is divided into one arena per slot, how an arena is      *)
(* split between the request and the response, and where metadata and body *)
(* land inside a half.  Pure operators: no state here.  SlotHeap gives     *)
(* them a state machine and SlotLayoutProofs proves their facts.           *)
(***************************************************************************)
EXTENDS Integers

SHM_HEADER_SIZE == 64
SLOT_META_SIZE == 128

\* usize::saturating_sub.
SaturatingSub(a, b) == IF a >= b THEN a - b ELSE 0

\* n & !7, the mask arena_size and slot_arenas round down with.
RoundDown8(n) == n - (n % 8)

\* (n + 7) & !7.
Align8(n) == RoundDown8(n + 7)

\* compute_layout, its two results.
HeapOffset(numSlots) == SHM_HEADER_SIZE + numSlots * SLOT_META_SIZE

\* HeapSize gone wrong: a region shorter than its slot table has a negative heap.
MutHeapSizeUnsaturated(numSlots, regionSize) == regionSize - HeapOffset(numSlots)

HeapSize(numSlots, regionSize) == SaturatingSub(regionSize, HeapOffset(numSlots))

\* ArenaSize gone wrong: the share is rounded up.
MutArenaSizeRoundsUp(numSlots, heapSize) ==
    IF numSlots = 0 THEN 0 ELSE Align8(heapSize \div numSlots)

\* Byte length of one slot's arena; 0 when the heap cannot be divided.
ArenaSize(numSlots, heapSize) ==
    IF numSlots = 0 THEN 0 ELSE RoundDown8(heapSize \div numSlots)

Directions == {"request", "response"}

\* The half of an arena that carries requests; the response half is the rest.
RequestHalf(arena) == RoundDown8(arena \div 2)

\* HalfBase gone wrong: both directions start at the arena's first byte.
MutHalfBaseShared(i, dir, arena) == i * arena

\* slot_arenas: where the half of slot i for a direction starts, and its length.
HalfBase(i, dir, arena) ==
    i * arena + (IF dir = "request" THEN 0 ELSE RequestHalf(arena))
HalfSize(dir, arena) ==
    IF dir = "request" THEN RequestHalf(arena) ELSE arena - RequestHalf(arena)

\* BodyOffset gone wrong: the metadata length is aligned downwards.
MutBodyOffsetRoundsDown(base, metaLen) == base + RoundDown8(metaLen)

\* arena_body_offset: the body follows the metadata, 8-byte aligned, if it fits.
BodyOffset(base, metaLen) == base + Align8(metaLen)
BodyFits(size, metaLen, bodyLen) == Align8(metaLen) + bodyLen <= size

\* What write_request_inner and write_response decide for one payload: metadata
\* longer than the half is an error, an empty body needs no place, a body that
\* fits goes in the arena and any other spills to an overflow region.
Placement(size, metaLen, bodyLen) ==
    CASE metaLen > size -> "refused"
      [] metaLen <= size /\ bodyLen = 0 -> "empty"
      [] metaLen <= size /\ bodyLen > 0 /\ BodyFits(size, metaLen, bodyLen) -> "inline"
      [] OTHER -> "spill"

\* InlineBodyCapacity gone wrong: the alignment of the metadata is forgotten.
MutCapacityUnaligned(metaLen, arena) ==
    LET req == HalfSize("request", arena)
        rsp == HalfSize("response", arena)
    IN  SaturatingSub(IF req <= rsp THEN req ELSE rsp, metaLen)

\* inline_body_capacity: the limit the library reports to its callers.
InlineBodyCapacity(metaLen, arena) ==
    LET req == HalfSize("request", arena)
        rsp == HalfSize("response", arena)
    IN  SaturatingSub(IF req <= rsp THEN req ELSE rsp, Align8(metaLen))

\* The bounds check of heap_read_checked and heap_write_checked.
HeapAccessOk(offset, len, heapSize) == offset + len <= heapSize

\* The width of the slot fields meta_len and resp_meta_len.
MetaLenField(metaLen) == metaLen % 65536
=============================================================================
