---------------------------- MODULE MCRuntimeAlloc ----------------------------
(***************************************************************************)
(* Two threads and three blocks.  The sizes cover a class shared by two    *)
(* sizes, the last class, whose size has no token, and no class at all.    *)
(***************************************************************************)
EXTENDS RuntimeMemory, TLC

KnownSizes == {137, Page}
ClassSizes == {144, Page + 8}
AnySizes == {137}

\* Threads differ in nothing but their lists, blocks in nothing.
Symmetry == Permutations(Thread) \cup Permutations(Block)
=============================================================================
