---------------------------- MODULE MCOptimizeARC ----------------------------
(***************************************************************************)
(* The blocks and contexts TLC optimizes: every block of up to four        *)
(* instructions from each of the vocabularies below.  x and y are the      *)
(* parameters, which may be one object.                                    *)
(***************************************************************************)
EXTENDS OptimizeARC

CONSTANT Selects    \* whether an address may be one of two objects

Op(op, args)       == Instruction(op, "", args, "")
Def(v, op, args)   == Instruction(op, v, args, "")
Call(how, args)    == Instruction("call", "", args, how)
Ret                == Op("ret", << >>)

MCDtors ==
    [none     |-> [readonly |-> TRUE,  body |-> << >>],
     quiet    |-> [readonly |-> FALSE, body |-> <<Op("store", <<"k", "this">>), Op("retain", <<"this">>),
                                                  Op("release", <<"this">>)>>],
     releases |-> [readonly |-> FALSE, body |-> <<Def("f", "load", <<"this">>), Op("release", <<"f">>)>>],
     calls    |-> [readonly |-> FALSE, body |-> <<Call("uses", << >>)>>]]

ARetain(v)  == Op("retain_noresult", <<v>>)
ARelease(v) == Op("release", <<v>>)

Motion == {ARetain("x"), ARelease("x"), ARetain("y"), ARelease("y"), Op("load", <<"x">>),
           Op("memcpy", <<"x", "y">>), Call("uses", <<"x">>), Call("drops", << >>), Op("compute", << >>)}
Fields == {Def("l", "load", <<"y">>), ARetain("l"), ARelease("l"), ARelease("y"), Op("store", <<"k", "y">>),
           Call("takes", <<"x">>)}
ObjC   == {Op("objc_retain", <<"c">>), Op("objc_release", <<"c">>), ARetain("x"), ARelease("x"),
           Op("load", <<"c">>), Call("drops", << >>)}
OfFresh == {Def("b", "cast", <<"a">>), ARetain("a"), ARelease("a"), ARelease("b"), Op("store", <<"x", "a">>),
            Op("store", <<"k", "b">>), Op("store", <<"a", "x">>), Op("memcpy", <<"b", "x">>),
            Call("uses", <<"a">>)}
ToCanonicalize == {Def("r", "retain", <<"x">>), Def("q", "retain", <<"r">>), ARelease("r"), ARelease("q"),
                   ARelease("x"), Call("uses", <<"r">>), ARetain(Null), Op("objc_release", <<Null>>),
                   Def("n", "objc_retain", <<Null>>), ARelease("n")}
OfTriple == {Def("e1", "extract", <<"z">>), Def("e3", "extract", <<"z">>), Def("e4", "extract", <<"z">>),
             ARelease("e1"), Call("takes", <<"e3">>), Op("load", <<"e4">>), ARelease("x")}
Word     == [e1 |-> 1, e3 |-> 3, e4 |-> 3]
Indexed(i) == IF i.op = "extract" THEN [i EXCEPT !.tag = Word[i.def]] ELSE i
ToReturn == {ARetain("x"), ARetain("y"), ARelease("x"), Op("compute", << >>), Def("c2", "cast", <<"x">>),
             Call("drops", << >>)}
Loaded   == {ARetain("l"), ARelease("l"), Call("takes", <<"l">>), Op("compute", << >>), Op("store", <<"l", "y">>)}
Selected == {Def("s", "select", <<"a", "x">>), Op("store", <<"y", "s">>), Op("store", <<"k", "a">>), ARelease("a")}

\* No block of an instance has more instructions than there are names.
MCNames == <<"r1", "r2", "r3", "r4", "r5", "r6", "r7", "r8", "r9">>

-----------------------------------------------------------------------------
Sequences(vocabulary, n) == UNION {[1..k -> vocabulary] : k \in 0..n}

\* Values are defined once and before they are used.
Params == {"x", "y", "c", "k", Null}
Sound(block) ==
    \A p \in DOMAIN block :
        LET earlier == {block[q].def : q \in 1..p-1}
        IN  /\ Range(block[p].args) \subseteq Params \cup earlier
            /\ block[p].def # "" => block[p].def \notin earlier

Blocked(head, middles, tail) == {head \o m \o tail : m \in middles}
Returning(v1, v2, v3) == <<Def("p", "pack", <<v1, v2, v3>>), Op("ret", <<"p">>)>>
Alloc(dtor) == <<Instruction("alloc", "a", << >>, dtor)>>
Three == <<Def("z", "retain3", <<"x", "x", "k", "y">>)>>

AllBlocks ==
    Blocked(<< >>, Sequences(Motion, 3) \cup [1..4 -> Motion \ {Op("compute", << >>), Op("load", <<"x">>)}], <<Ret>>)
      \cup Blocked(<< >>, Sequences(Fields, 4), <<Ret>>)
      \cup Blocked(<< >>, Sequences(ObjC, 4), <<Ret>>)
      \cup UNION {Blocked(Alloc(d), Sequences(OfFresh, 3), <<Ret>>) : d \in DOMAIN MCDtors}
      \cup Blocked(<< >>, Sequences(ToCanonicalize, 3), <<Ret>>)
      \cup Blocked(<< >>, Sequences(ToCanonicalize, 2), Returning("r", "k", "q"))
      \cup Blocked(Three, {[p \in DOMAIN m |-> Indexed(m[p])] : m \in Sequences(OfTriple, 3)}, <<Ret>>)
      \cup Blocked(Three, Sequences({Call("uses", <<"x">>)}, 1), <<Op("ret", <<"z">>)>>)
      \cup UNION {Blocked(<< >>, Sequences(ToReturn, 3), Returning(v, "k", "y")) : v \in {"x", "c2", "k"}}
      \cup Blocked(<<Def("l", "load", <<"y">>)>>, Sequences(Loaded, 3), Returning("k", "l", "k"))

SelectBlocks == Blocked(Alloc("none"), Sequences(Selected, 3), <<Ret>>)

MCBlocks == {Identified(b) : b \in {s \in IF Selects THEN SelectBlocks ELSE AllBlocks : Sound(s)}}

Aliases == {[x |-> "o1", y |-> "o1", c |-> "o2"], [x |-> "o1", y |-> "o2", c |-> "o1"],
            [x |-> "o2", y |-> "o1", c |-> "o2"]}
MCContexts ==
    {[params |-> a, count |-> [o1 |-> n, o2 |-> m], field |-> [o1 |-> f, o2 |-> Null],
      dtor |-> [o1 |-> d, o2 |-> "calls"], global |-> n > 1] :
        a \in Aliases, n \in 1..3, m \in 1..2, f \in {Null, "o2"}, d \in {"releases", "calls"}}
    \cup {[params |-> [x |-> "o1", y |-> Null, c |-> Null], count |-> [o1 |-> 2, o2 |-> 1],
           field |-> [o1 |-> Null, o2 |-> Null], dtor |-> [o1 |-> "calls", o2 |-> "none"], global |-> TRUE]}

Meaning == INSTANCE ARCMeaning WITH Contexts <- MCContexts

-----------------------------------------------------------------------------
\* After the passes the block does what it did when it came in: nothing is
\* released early, leaked, lost or used after its end, however the parameters
\* alias and whatever callees and destructors do (runOnFunction).
MeaningKept == pass = "done" => Meaning!Refines(code, given)

\* The walk ends although retain motion sets the iterator back
\* (OptimizeARC.cpp:944).
PassesEnd == <>(crash \/ pass = "done")
===============================================================================
