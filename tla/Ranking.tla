-------------------------------- MODULE Ranking --------------------------------
(***************************************************************************)
(* Ranking solutions: two viable systems are compared by the types they    *)
(* fix the same variables to.                                              *)
(***************************************************************************)
EXTENDS Matching

\* stripInitializers
RECURSIVE Strip(_)
Strip(t) ==
    LET parts == [i \in DOMAIN Parts(t) |-> Strip(Parts(t)[i])]
        inner == WithParts(t, parts)
    IN  IF Kind(t) # "tup" THEN inner
        ELSE Tup([i \in DOMAIN inner[2] |-> [inner[2][i] EXCEPT !.init = FALSE]])

\* Whether matchTypes answers TriviallySolved for types without variables.
CallsOf(rule, t1, t2, k) ==
    CASE rule = "parallel" -> MatchParallel(t1, t2, k)
      [] rule = "one-element tuple" -> <<Sub(t1, t2[2][1].ty, k)>>
      [] rule \in {"identical", "superclass"} -> << >>
      [] OTHER -> No
Ground(t1, t2, k) == [t1 |-> t1, t2 |-> t2, k |-> k, gen |-> TRUE, v1 |-> FALSE, v2 |-> FALSE]
RECURSIVE TriviallySolved(_, _, _)
TriviallySolved(t1, t2, k) ==
    \A c \in Range(CallsOf(TheRule(Ground(t1, t2, k)), t1, t2, k)) :
        c.do = "match" /\ TriviallySolved(c.t1, c.t2, c.k)

\* typeMatchesDefaultLiteralConstraint of the top-level system
MatchesDefaultLiteral(v, t) ==
    \E c \in Range(LiteralsOn(systems[1], bind, v)) :
        c.name \in DOMAIN DefaultLiteral /\ t = DefaultLiteral[c.name]

\* Who is better at a variable: the one whose type is a subtype of the other's
\* or, when neither is, the one whose type is a literal's default.
Those(first, second) == (IF first THEN {1} ELSE {}) \cup (IF second THEN {2} ELSE {})
\* Mutant: the more general type wins.
Better_MoreGeneral(v, t1, t2) ==
    LET subtypes == Those(TriviallySolved(t2, t1, "Subtype"), TriviallySolved(t1, t2, "Subtype"))
    IN  IF HasTypeVariable(t1) \/ HasTypeVariable(t2) THEN {1, 2}
        ELSE IF subtypes # {} THEN subtypes
        ELSE Those(MatchesDefaultLiteral(v, t1), MatchesDefaultLiteral(v, t2))

Better(v, t1, t2) ==
    LET subtypes == Those(TriviallySolved(t1, t2, "Subtype"), TriviallySolved(t2, t1, "Subtype"))
    IN  IF HasTypeVariable(t1) \/ HasTypeVariable(t2) THEN {1, 2}
        ELSE IF subtypes # {} THEN subtypes
        ELSE Those(MatchesDefaultLiteral(v, t1), MatchesDefaultLiteral(v, t2))

\* compareSolutions, for "better": the first is better somewhere and the
\* second nowhere.
IsBetter(s1, s2) ==
    UNION {Better(x[1], Strip(x[2]), Strip(y[2])) :
             <<x, y>> \in {p \in systems[s1].info \X systems[s2].info :
                             p[1][1] = p[2][1] /\ Strip(p[1][2]) # Strip(p[2][2])}} = {1}

\* findBestSolution: the one that is better than all the others; as no two are
\* better than each other, the pass that looks for a candidate finds it.
FindBest(ids) ==
    SelectSeq(ids, LAMBDA s : \A t \in Range(ids) \ {s} : IsBetter(s, t))
===============================================================================
