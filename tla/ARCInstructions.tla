---------------------------- MODULE ARCInstructions ----------------------------
(***************************************************************************)
(* A basic block of LLVM code as lib/IRGen/OptimizeARC.cpp sees it: its    *)
(* instructions in order, the terminator last.  An instruction has an      *)
(* identity, by which iterators find it, and defines at most one value;    *)
(* "" is no value.  What the optimizer does not look at is left out: the   *)
(* types of values, and the addresses in an object it is stored to.        *)
(***************************************************************************)
EXTENDS Integers, Sequences, SequencesExt, FiniteSets

Null  == "null"
Undef == "undef"

\* tag is the destructor of an alloc and the index of an extract.
Instruction(op, def, args, tag) == [id |-> 0, op |-> op, def |-> def, args |-> args, tag |-> tag]

\* i has these fields and no others.
IsInstruction(i) == i = [id |-> i.id, op |-> i.op, def |-> i.def, args |-> i.args, tag |-> i.tag]

Identified(code) == [p \in DOMAIN code |-> [code[p] EXCEPT !.id = p]]

\* Instructions that neither read nor write memory.
Pure == {"compute", "cast", "select", "extract", "pack", "ret"}
Accesses == {"load", "store", "memcpy"}

\* classifyInstruction
Classify(i) ==
    CASE i.op \in Pure            -> "NoMemoryAccessed"
      [] i.op = "retain"          -> "Retain"
      [] i.op = "retain_noresult" -> "RetainNoResult"
      [] i.op = "retain3"         -> "RetainAndReturnThree"
      [] i.op = "release"         -> "Release"
      [] i.op = "alloc"           -> "AllocObject"
      [] i.op = "objc_release"    -> "ObjCRelease"
      [] i.op = "objc_retain"     -> "ObjCRetain"
      [] OTHER                    -> "Unknown"

\* What canonicalizeInputFunction removes and the passes after it assert away.
NotCanonical == {"Retain", "RetainAndReturnThree"}

Subject(i) == i.args[1]

-----------------------------------------------------------------------------
(* Editing a block.  An iterator is an identity, or End.                   *)
End == 0

Ids(code)      == {i.id : i \in Range(code)}
At(code, id)   == CHOOSE p \in DOMAIN code : code[p].id = id
IdAt(code, p)  == IF p \in DOMAIN code THEN code[p].id ELSE End
After(code, id)  == IdAt(code, At(code, id) + 1)
Before(code, id) == IdAt(code, At(code, id) - 1)

Defined(code)  == {i.def : i \in Range(code)} \ {""}
Users(code, v) == {i \in Range(code) : v \in Range(i.args)}

Without(code, id) == RemoveAt(code, At(code, id))

\* The k-th of a set of positions.
Nth(positions, k) == CHOOSE p \in positions : Cardinality({q \in positions : q <= p}) = k

\* The block without the instructions that have one of these identities.
Erase(code, ids) ==
    LET kept == {p \in DOMAIN code : code[p].id \notin ids}
    IN  [k \in 1..Cardinality(kept) |-> code[Nth(kept, k)]]

Uses(i, old, new) == [i EXCEPT !.args = [a \in DOMAIN @ |-> IF @[a] = old THEN new ELSE @[a]]]
ReplaceUses(code, old, new) ==
    IF old = "" THEN code ELSE [p \in DOMAIN code |-> Uses(code[p], old, new)]

\* Moves the instruction at p up to position to, or down to before it.
MoveUp(code, p, to) ==
    SubSeq(code, 1, to - 1) \o <<code[p]>> \o SubSeq(code, to, p - 1) \o SubSeq(code, p + 1, Len(code))
MoveDown(code, p, to) ==
    SubSeq(code, 1, p - 1) \o SubSeq(code, p + 1, to - 1) \o <<code[p]>> \o SubSeq(code, to, Len(code))

FirstOf(positions) == CHOOSE p \in positions : \A q \in positions : p <= q
LastOf(positions)  == CHOOSE p \in positions : \A q \in positions : p >= q
===============================================================================
