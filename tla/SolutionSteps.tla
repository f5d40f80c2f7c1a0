----------------------------- MODULE SolutionSteps -----------------------------
(***************************************************************************)
(* What a step of the search is chosen from: the constraints of the system *)
(* at work gathered by the type variables they bound, the types those      *)
(* suggest, and the overload set to resolve next.                          *)
(***************************************************************************)
EXTENDS ConstraintSystem

\* simplifyType of the sides of a constraint.
FirstOf(c)  == SimplifyType(bind, c.first)
SecondOf(c) == SimplifyType(bind, c.second)

\* The variables a constraint bounds, each with where it is recorded and what
\* is recorded there.
Bounding(c, v, where, type) == [var |-> v, where |-> where, what |-> <<c, type>>]
Bounds(c) ==
    LET bounds(t, where, other) ==
            IF IsTV(t) THEN <<Bounding(c, t[2], where, other)>> ELSE << >>
    IN  CASE c.kind \in {"Literal", "Archetype"} -> bounds(FirstOf(c), "kinds", Unit)
          [] c.kind = "ValueMember" -> << >>
          [] OTHER -> bounds(FirstOf(c), "above", SecondOf(c))
                        \o bounds(SecondOf(c), "below", FirstOf(c))

\* The variables it only mentions.
Mentions(c) ==
    LET sides == CASE c.kind \in {"Literal", "Archetype"} -> {FirstOf(c)}
                   [] OTHER -> {FirstOf(c), SecondOf(c)}
        bounded == {t \in sides : IsTV(t)}
    IN  UNION {VariablesOf(t) : t \in
                 IF c.kind = "ValueMember" \/ (c.kind \in Relational /\ bounded = sides)
                 THEN sides ELSE sides \ bounded}

ConsultedBy(c) ==
    ConsultedIn(bind, c.first, {}) \cup
    IF c.kind \in {"Literal", "Archetype"} THEN {} ELSE ConsultedIn(bind, c.second, {})

SetVariables == UNION {VariablesOf(sets[s].bound) : s \in Range(This.ovls)}

\* collectConstraintsForTypeVariables: a record for every variable some
\* constraint bounds, in the order they are met; nonConcrete when something
\* else mentions the variable too.
Collected ==
    LET all       == FlattenSeq([i \in DOMAIN This.constraints |-> Bounds(This.constraints[i])])
        first(i)  == \A j \in 1..i-1 : all[j].var # all[i].var
        places    == SelectSeq([i \in DOMAIN all |-> i], first)
        of(v, where) ==
            LET mine == SelectSeq(all, LAMBDA b : b.var = v /\ b.where = where)
            IN  [i \in DOMAIN mine |-> mine[i].what]
        mentioned == {Root(bind, v) : v \in SetVariables}
                       \cup UNION {Mentions(c) : c \in Range(This.constraints)}
    IN  [i \in DOMAIN places |->
            LET v == all[places[i]].var IN
            [var |-> v, nonConcrete |-> v \in mentioned,
             above |-> of(v, "above"), below |-> of(v, "below"), kinds |-> of(v, "kinds")]]

\* The table after the reads that takes.
CollectedBind ==
    CompressAll(bind, SetVariables \cup UNION {ConsultedBy(c) : c \in Range(This.constraints)})

-----------------------------------------------------------------------------
(* bindDefinitiveTypeVariables                                              *)
BoundTypes(entries)   == {e[2] : e \in Range(entries)}
LiteralKinds(entries) == {e[1].name : e \in {f \in Range(entries) : f[1].kind = "Literal"}}

\* The types to choose from: what is below, or else above, and the defaults.
Suggested(tvc) ==
    BoundTypes(IF tvc.below # << >> THEN tvc.below ELSE tvc.above)
      \cup {DefaultLiteral[l] : l \in LiteralKinds(tvc.kinds) \cap DOMAIN DefaultLiteral}

Definitive(tvc) ==
    /\ ~tvc.nonConcrete
    /\ \A e \in Range(tvc.kinds) : e[1].kind = "Literal" /\ e[1].name \in DOMAIN DefaultLiteral
    /\ \A t \in Suggested(tvc) : ~HasTypeVariable(t)
    /\ Cardinality(Suggested(tvc)) = 1

Constraints(tvc) ==
    LET entries == tvc.below \o tvc.above \o tvc.kinds
    IN  [i \in DOMAIN entries |-> entries[i][1]]

-----------------------------------------------------------------------------
(* resolveTypeVariable                                                      *)
Concrete(entries) == SelectSeq(entries, LAMBDA e : ~HasTypeVariable(e[2]))

\* Mutant: a variable with one bound that others mention counts as definitive.
OneBound_OfSeveral(tvc) ==
    /\ tvc.kinds = << >>
    /\ Len(Concrete(tvc.below)) <= 1 /\ Len(Concrete(tvc.above)) <= 1

OneBound(tvc) ==
    /\ ~tvc.nonConcrete /\ tvc.kinds = << >>
    /\ Len(Concrete(tvc.below)) <= 1 /\ Len(Concrete(tvc.above)) <= 1

OneLiteral(tvc) == Len(tvc.kinds) = 1 /\ tvc.above = << >> /\ tvc.below = << >>

\* The binding to try: a lower bound before an upper one before the default of
\* a literal; << >> when there is none.
BindingToTry(all) ==
    LET open    == SelectSeq(all, LAMBDA x : \A e \in This.explored : e[1] # x.var)
        lower   == SelectSeq(open, LAMBDA x : Concrete(x.below) # << >>)
        upper   == SelectSeq(open, LAMBDA x : Concrete(x.above) # << >>)
        defaults(x) == SelectSeq(x.kinds, LAMBDA e : e[1].kind = "Literal"
                                                       /\ e[1].name \in DOMAIN DefaultLiteral)
        literal == SelectSeq(open, LAMBDA x : defaults(x) # << >>)
        try(x, type, definitive) == <<[var |-> x.var, type |-> type, definitive |-> definitive]>>
    IN  IF lower # << >> THEN try(lower[1], Concrete(lower[1].below)[1][2], OneBound(lower[1]))
        ELSE IF upper # << >> THEN try(upper[1], Concrete(upper[1].above)[1][2], OneBound(upper[1]))
        ELSE IF literal # << >>
        THEN try(literal[1], DefaultLiteral[defaults(literal[1])[1][1].name], OneLiteral(literal[1]))
        ELSE << >>

-----------------------------------------------------------------------------
\* getNextSolutionStep's overload set: the first of those with the fewest
\* choices; none has less than two.
OverloadSetToResolve ==
    LET size(i) == Len(sets[This.ovls[i]].choices)
        least   == {i \in DOMAIN This.ovls : \A j \in DOMAIN This.ovls : size(i) <= size(j)}
    IN  CHOOSE i \in least : \A j \in least : i <= j
===============================================================================
