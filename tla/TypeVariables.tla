---------------------------- MODULE TypeVariables ----------------------------
(***************************************************************************)
(* TypeVariableType::Implementation: the one word each type variable has,  *)
(* its parent in an equivalence class or the type it is fixed to.  A table *)
(* b gives each variable <<"rep", v>> (v is itself for the representative  *)
(* of a class) or <<"fix", type>>.  Reads compress the path they walk, so  *)
(* they too change the table; what a system changed it puts back from the  *)
(* record it keeps, last change first.                                     *)
(***************************************************************************)
EXTENDS Naturals, Sequences, FiniteSets, SequencesExt

Parent(v)  == <<"rep", v>>
FixedTo(t) == <<"fix", t>>

Fresh(v) == Parent(v)

IsRoot(b, v) == b[v][1] = "fix" \/ b[v] = Parent(v)

\* Where the walk up from v ends.
Root(b, v) ==
    LET up[x \in DOMAIN b] == IF IsRoot(b, x) THEN x ELSE up[b[x][2]]
    IN  up[v]

\* The variables that walk passes, its end left out.
Path(b, v) ==
    LET passed[x \in DOMAIN b] == IF IsRoot(b, x) THEN {} ELSE {x} \cup passed[b[x][2]]
    IN  passed[v]

HasFixed(b, v)  == b[Root(b, v)][1] = "fix"
FixedType(b, v) == b[Root(b, v)][2]

\* getRepresentative of each of some variables: all but the last of each path
\* point to its end.
CompressAll(b, vs) ==
    [x \in DOMAIN b |->
        IF \E v \in vs : x \in Path(b, v) THEN Parent(Root(b, x)) ELSE b[x]]
CompressToRep(b, v) == CompressAll(b, {v})

\* getFixedType: when the end has a type, the whole path gets that type.
CompressToFixed(b, v) ==
    IF ~HasFixed(b, v) THEN b
    ELSE [x \in DOMAIN b |-> IF x \in Path(b, v) THEN FixedTo(FixedType(b, v)) ELSE b[x]]

\* Mutant: the older class joins the younger.
Merge_IntoYounger(b, v, w) == [b EXCEPT ![IF v < w THEN v ELSE w] = Parent(IF v < w THEN w ELSE v)]

\* mergeEquivalenceClasses of two representatives: the younger joins the older.
Merge(b, v, w) == [b EXCEPT ![IF v < w THEN w ELSE v] = Parent(IF v < w THEN v ELSE w)]

AssignFixedType(b, v, t) == [CompressToRep(b, v) EXCEPT ![Root(b, v)] = FixedTo(t)]

\* What a change of the table adds to the record of the system that made it.
Changes(old, new) ==
    LET changed == SelectSeq([x \in DOMAIN old |-> x], LAMBDA x : old[x] # new[x])
    IN  [i \in DOMAIN changed |-> <<changed[i], old[changed[i]]>>]

\* SavedTypeVariableBinding::restore over a record, from its end
Restore(b, saved) ==
    [x \in DOMAIN b |->
        LET kept == {i \in DOMAIN saved : saved[i][1] = x} IN
        IF kept = {} THEN b[x]
        ELSE saved[CHOOSE i \in kept : \A j \in kept : i <= j][2]]
===============================================================================
