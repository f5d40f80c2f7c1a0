----------------------------- MODULE RuntimeMemory -----------------------------
(***************************************************************************)
(* The lists and the C library seen as plain memory: of a block only what  *)
(* its client sees is kept, and a request no longer says which entry point *)
(* it goes through.  The pointer that a list leaves in the first word of a *)
(* block is not zero, which the promise has no place for; so there are two *)
(* views, of whole blocks and of what lies past the first word.            *)
(***************************************************************************)
EXTENDS RuntimeAlloc

AsAsked(r) == [bytes |-> r.bytes, pool |-> r.pool, try |-> r.try]

\* A block that is zero but for the pointer in its first word counts as link.
Seen(w, link) == IF w = "link" THEN link ELSE w

RoomSeen == [b \in Block |-> IF used[b] = Unused THEN 0 ELSE cap[b]]
ContentSeen(link) ==
    [b \in Block |-> IF used[b] = Unused THEN "none" ELSE Seen(word[b], link)]
AskedSeen == [t \in Thread |-> AsAsked(want[t])]

M(link) == INSTANCE Memory WITH
        Bytes   <- KnownBytes \cup DynamicBytes,
        Room    <- {Demand(r) : r \in Request},
        held    <- used,
        room    <- RoomSeen,
        content <- ContentSeen(link),
        asked   <- AskedSeen

\* The entry points of runtime/Alloc.cpp and FastEntryPoints.s together keep the
\* promise of runtime/Alloc.h for what lies past the first word of a block: every
\* step of theirs is a step of Memory or none.  (MemorySpec is written out: TLC
\* takes no temporal formula from an instance with a parameter.)
KeepsMemoryPastLink ==
    M("zero")!MemoryInit /\ [][M("zero")!MemoryNext]_(M("zero")!memory)

\* They keep it for whole blocks.  This implies ReturnsZeroed, and so holds only
\* where that does: RuntimeMemoryProofs says when.
KeepsMemory ==
    M("data")!MemoryInit /\ [][M("data")!MemoryNext]_(M("data")!memory)

=============================================================================
