----------------------------- MODULE SizeClasses -----------------------------
(***************************************************************************)
(* The size classes of plain memory: requests of up to a page share 56 (64 *)
(* on a 32-bit target) classes, of which the first sixteen are a word      *)
(* apart, the next eight two words, the next eight four words, and so on   *)
(* (runtime/Alloc.h, runtime/Alloc.cpp, lib/IRGen/IRGenFunction.cpp).      *)
(***************************************************************************)
EXTENDS Integers, Sequences

CONSTANT PointerSize    \* of the target, in bytes: 8 where __LP64__ is defined

ASSUME PointerSizeAssumption == PointerSize \in {4, 8}

Page == 4096

\* The distance of neighbouring classes, group by group.
Unit == IF PointerSize = 8 THEN <<8, 16, 32, 64, 128, 256>>
                        ELSE <<4, 8, 16, 32, 64, 128, 256>>
Group == DOMAIN Unit
Index == 0 .. 8 * Len(Unit) + 7    \* AllocIndex

\* The group of the (n + 1)-byte request.
InGroup(g, n) == n < 16 * Unit[g] /\ (g > 1 => n >= 16 * Unit[g - 1])
GroupOf(n) == CHOOSE g \in Group : InGroup(g, n)

\* The class of a request of 1 .. Page bytes (swift_slowDealloc).
IndexOf(bytes) ==
    (bytes - 1) \div Unit[GroupOf(bytes - 1)] + 8 * (GroupOf(bytes - 1) - 1)

NoToken == -1

\* getAllocToken: the class the compiler asks for, if it asks for one.
Token(bytes) == IF bytes >= Page THEN NoToken
                ELSE IF bytes = 0 THEN 0 ELSE IndexOf(bytes)

\* The group of the class whose blocks are number m from the smallest.
InClassGroup(g, m) == m <= 8 * (g + 1) /\ (g > 1 => m > 8 * g)
ClassGroupOf(m) == CHOOSE g \in Group : InClassGroup(g, m)

\* Mutant: the index is not incremented first.
SizeOf_NotIncremented(idx) ==
    (idx - 8 * (ClassGroupOf(idx) - 1)) * Unit[ClassGroupOf(idx)]

\* _swift_slowAlloc_fixup: the size of the blocks of a class.
SizeOf(idx) ==
    (idx + 1 - 8 * (ClassGroupOf(idx + 1) - 1)) * Unit[ClassGroupOf(idx + 1)]

=============================================================================
