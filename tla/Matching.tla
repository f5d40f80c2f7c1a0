------------------------------- MODULE Matching -------------------------------
(***************************************************************************)
(* ConstraintSystem::matchTypes: one call looks through fixed type         *)
(* variables, takes the first rule that applies, and leaves the calls that *)
(* rule makes.  A sub-match never leaves a constraint unsolved, it adds    *)
(* one (gen); only the outermost match of a constraint can.                *)
(***************************************************************************)
EXTENDS ConstraintSystem

\* The two types of a call behind fixed variables, whether each is an unfixed
\* variable, and the table after the paths are compressed.
LookThrough(c) ==
    LET fixed(t) == IsTV(t) /\ HasFixed(bind, t[2])
        seen(t)  == IF fixed(t) THEN FixedType(bind, t[2]) ELSE t
        reads(t, b) == IF fixed(t) THEN CompressToFixed(b, t[2]) ELSE b
    IN  [t1 |-> seen(c.t1), t2 |-> seen(c.t2), k |-> c.k, gen |-> c.gen,
         v1 |-> IsTV(c.t1) /\ ~fixed(c.t1), v2 |-> IsTV(c.t2) /\ ~fixed(c.t2),
         bind |-> reads(c.t2, reads(c.t1, bind))]

\* The rvalue of the second type, when it is known whether that is an lvalue.
\* v2 stays as it was: the object of an lvalue may be a variable.
SameTypeAsRvalue(m) ==
    LET object == RValue(m.t2) IN
    IF m.k # "EqualRvalue" \/ IsTV(m.t2) THEN m
    ELSE [m EXCEPT !.k = "Equal", !.gen = TRUE,
                   !.t2 = IF Kind(object) = "fn" THEN Fn(object[2], object[3]) ELSE object]

M == SameTypeAsRvalue(LookThrough(Call))

-----------------------------------------------------------------------------
(* The calls a pair of types of the same kind makes.                       *)
Mismatch == [do |-> "mismatch"]
No == <<Mismatch>>
Sub(t1, t2, k) == Match(t1, t2, k, TRUE)
Each(ts1, ts2, k) == [i \in DOMAIN ts1 |-> Sub(ts1[i], ts2[i], k)]
Types(fs) == [i \in DOMAIN fs |-> fs[i].ty]

IndexOfName(fs, name) ==
    IF name = "" \/ \A i \in DOMAIN fs : fs[i].name # name THEN 0
    ELSE CHOOSE i \in DOMAIN fs : fs[i].name = name /\ \A j \in 1..i-1 : fs[j].name # name

MatchTupleTypesExactly(fs1, fs2, k) ==
    LET agree(i) ==
            /\ fs1[i].name # fs2[i].name =>
                 k # "Equal" /\ IndexOfName(fs1, fs2[i].name) = 0
            /\ (fs1[i].base # << >>) = (fs2[i].base # << >>)
        disagreeing == {i \in DOMAIN fs1 : ~agree(i)}
        before == IF disagreeing = {} THEN Len(fs1)
                  ELSE (CHOOSE i \in disagreeing : \A j \in disagreeing : i <= j) - 1
        calls == SubSeq(Each(Types(fs1), Types(fs2), k), 1, before)
    IN  IF Len(fs1) # Len(fs2) THEN No
        ELSE IF disagreeing = {} THEN calls ELSE calls \o No

\* Named elements go where their name is, the others in order; a variadic
\* element takes the rest, an element that is left needs a default.
ConvertTuple(fs1, fs2, k) ==
    LET named    == [i \in DOMAIN fs2 |-> IndexOfName(fs1, fs2[i].name)]
        inputs   == SelectSeq([j \in DOMAIN fs1 |-> j], LAMBDA j : fs1[j].name = "")
        open     == SelectSeq([i \in DOMAIN fs2 |-> i], LAMBDA i : named[i] = 0)
        rest     == {p \in DOMAIN open : fs2[open[p]].base # << >>}
        place(i) == CHOOSE p \in DOMAIN open : open[p] = i
        source(i) == IF named[i] # 0 THEN named[i] ELSE inputs[place(i)]
        element(i) ==
            IF named[i] = 0 /\ place(i) \in rest
            THEN [q \in 1..Len(inputs) + 1 - place(i) |->
                    Sub(fs1[inputs[place(i) + q - 1]].ty, fs2[i].base, k)]
            ELSE IF named[i] = 0 /\ place(i) > Len(inputs) THEN << >>
            ELSE <<Sub(fs1[source(i)].ty, fs2[i].ty, "Conversion")>>
        missing  == \E p \in DOMAIN open \ rest : p > Len(inputs) /\ ~fs2[open[p]].init
        unused   == \/ rest = {} /\ Len(inputs) > Len(open)
                    \/ \E j \in DOMAIN fs1 : fs1[j].name # "" /\ j \notin Range(named)
    IN  IF missing \/ unused THEN No ELSE FlattenSeq([i \in DOMAIN fs2 |-> element(i)])

MatchTupleTypes(fs1, fs2, k) ==
    IF AtLeast(k, "Conversion") THEN ConvertTuple(fs1, fs2, k)
    ELSE MatchTupleTypesExactly(fs1, fs2, k)

MatchFunctionTypes(f1, f2, k) ==
    IF f1[4] # f2[4] /\ (f2[4] \/ ~AtLeast(k, "TrivialSubtype")) THEN No
    ELSE <<Sub(f2[2], f1[2], SubKind(k)), Sub(f1[3], f2[3], SubKind(k))>>

MatchMetaTypes(i1, i2, k) ==
    <<Sub(i1, i2, IF k = "Equal" \/ ~(IsClass(i1) \/ IsClass(i2)) THEN "Equal"
                  ELSE IF AtLeast(k, "Subtype") THEN "Subtype" ELSE k)>>

MatchLValues(l1, l2, k) ==
    IF l1[3] = l2[3] \/ (AtLeast(k, "TrivialSubtype") /\ l1[3] \subseteq l2[3])
    THEN <<Sub(l1[2], l2[2], "Equal")>> ELSE No

IsProtocol(t) == IsExistential(t) /\ Cardinality(t[2]) = 1

\* Types of one kind that settle the matter between them.
Parallel(t1, t2) ==
    /\ Kind(t1) = Kind(t2)
    /\ \/ Kind(t1) \in {"tup", "meta", "fn", "lv", "arch"}
       \/ Kind(t1) = "gen" /\ NameOf(t1) = NameOf(t2)
       \/ IsProtocol(t1) /\ IsProtocol(t2)
MatchParallel(t1, t2, k) ==
    CASE Kind(t1) = "tup"  -> MatchTupleTypes(t1[2], t2[2], k)
      [] Kind(t1) = "meta" -> MatchMetaTypes(t1[2], t2[2], k)
      [] Kind(t1) = "fn"   -> MatchFunctionTypes(t1, t2, k)
      [] Kind(t1) = "lv"   -> MatchLValues(t1, t2, k)
      [] Kind(t1) = "gen"  -> Each(t1[3], t2[3], "Equal")
      [] OTHER             -> No

-----------------------------------------------------------------------------
(* The rules, in the order they are tried.                                 *)
Rules == <<"identical", "unify", "defer", "two variables", "parallel",
           "one-element tuple", "scalar to tuple", "superclass", "load", "auto closure",
           "existential", "construct", "user conversion", "one variable", "mismatch">>

Constructors(t) == LookupMembers(t, "constructor")

Applies(rule, m) ==
    LET variable == m.v1 \/ m.v2
        concrete == ~variable
        equates  == m.k \in {"Bind", "Equal"}
        tuple2   == Kind(m.t2) = "tup"
    IN  CASE rule = "identical"     -> m.t1 = m.t2
          [] rule = "unify"         -> variable /\ equates
          [] rule = "defer"         -> variable /\ ~equates /\ m.gen
          [] rule = "two variables" -> m.v1 /\ m.v2
          [] rule = "parallel"      -> Parallel(m.t1, m.t2)
          [] rule = "one-element tuple" ->
                /\ concrete /\ AtLeast(m.k, "TrivialSubtype") /\ tuple2
                /\ Len(m.t2[2]) = 1 /\ m.t2[2][1].base = << >>
          [] rule = "scalar to tuple" ->
                concrete /\ AtLeast(m.k, "Conversion") /\ tuple2 /\ FieldForScalarInit(m.t2[2]) # 0
          [] rule = "superclass" ->
                concrete /\ AtLeast(m.k, "TrivialSubtype") /\ IsSubclass(m.t1, m.t2)
          [] rule = "load" ->
                concrete /\ AtLeast(m.k, "Conversion") /\ Kind(m.t1) = "lv"
          [] rule = "auto closure" ->
                concrete /\ AtLeast(m.k, "Conversion") /\ Kind(m.t2) = "fn" /\ m.t2[4]
          [] rule = "existential" ->
                /\ concrete
                /\ AtLeast(m.k, "Conversion") \/ (m.k = "Subtype" /\ IsExistential(m.t1))
                /\ ~HasTypeVariable(m.t1) /\ IsExistential(m.t2)
          [] rule = "construct" ->
                m.k = "Construction" /\ IsConstructibleType(m.t2) /\ Constructors(m.t2) # << >>
          [] rule = "user conversion" ->
                /\ concrete /\ AtLeast(m.k, "Conversion") /\ IsNominal(m.t1)
                /\ LookupMembers(m.t1, "__conversion") # << >>
          [] rule = "one variable" -> variable
          [] OTHER                  -> TRUE

TheRule(m) == Rules[CHOOSE i \in DOMAIN Rules :
                        Applies(Rules[i], m) /\ \A j \in 1..i-1 : ~Applies(Rules[j], m)]

Takes(rule) == Pending("match") /\ TheRule(M) = rule

\* A match that settles nothing more but what its calls say, over a table.
Continue(b, calls) ==
    /\ Then(calls)
    /\ bind' = b
    /\ Become(Recorded(b))
    /\ UNCHANGED <<sets, cur, crash>>

\* The same with n fresh variables.
ContinueWith(n, calls) ==
    /\ Then(calls)
    /\ bind' = WithVariables(M.bind, n)
    /\ Become(Owning(Recorded(M.bind), n))
    /\ UNCHANGED <<sets, cur, crash>>

MatchIdentical == Takes("identical") /\ Continue(M.bind, << >>)

\* Merge two classes, or give one variable the other type.
MatchUnify ==
    LET object(t) == IF M.k = "Equal" THEN RValue(t) ELSE t
        reps      == CompressAll(M.bind, {M.t1[2], M.t2[2]})
        r1        == Root(reps, M.t1[2])
        r2        == Root(reps, M.t2[2])
    IN  /\ Takes("unify")
        /\ Continue(IF M.v1 /\ M.v2
                    THEN IF r1 = r2 THEN reps ELSE Merge(reps, r1, r2)
                    ELSE IF M.v1 THEN AssignFixedType(M.bind, M.t1[2], object(M.t2))
                    ELSE AssignFixedType(M.bind, M.t2[2], object(M.t1)),
                    << >>)

\* Mutant: a match that has to wait is taken for a match that holds.
MatchDefer_Lost == Takes("defer") /\ Continue(M.bind, << >>)

MatchDefer ==
    Takes("defer") /\ Continue(M.bind, <<Add(Relate(M.k, M.t1, M.t2))>>)

\* No rule for the outermost match: the constraint stays.
MatchUnsolved ==
    /\ Takes("two variables") \/ Takes("one variable")
    /\ LeaveConstraint
    /\ bind' = M.bind
    /\ Become([Recorded(M.bind) EXCEPT
                 !.constraints = IF Constraint.ext THEN @ ELSE Append(@, Constraint.c)])
    /\ UNCHANGED <<sets, cur, crash>>

MatchParallelTypes ==
    Takes("parallel") /\ Continue(M.bind, MatchParallel(M.t1, M.t2, M.k))

MatchOneElementTuple ==
    Takes("one-element tuple") /\ Continue(M.bind, <<Sub(M.t1, M.t2[2][1].ty, M.k)>>)

MatchScalarToTuple ==
    LET field == M.t2[2][FieldForScalarInit(M.t2[2])] IN
    /\ Takes("scalar to tuple")
    /\ Continue(M.bind, <<Sub(M.t1, IF field.base = << >> THEN field.ty ELSE field.base, M.k)>>)

MatchSuperclass == Takes("superclass") /\ Continue(M.bind, << >>)

MatchLoad == Takes("load") /\ Continue(M.bind, <<Sub(M.t1[2], M.t2, M.k)>>)

MatchAutoClosure == Takes("auto closure") /\ Continue(M.bind, <<Sub(M.t1, M.t2[3], M.k)>>)

MatchExistential ==
    /\ Takes("existential")
    /\ Continue(M.bind, IF \A p \in M.t2[2] : ConformsTo(M.t1, p) THEN << >> ELSE No)

MatchConstruct ==
    LET input == TV(Len(bind) + 1) IN
    /\ Takes("construct")
    /\ ContinueWith(1, <<Add(MemberIs(M.t2, "constructor", Fn(input, M.t2))),
                         Add(Relate("Conversion", M.t1, input))>>)

MatchUserConversion ==
    LET input  == TV(Len(bind) + 1)
        output == TV(Len(bind) + 2)
    IN  /\ Takes("user conversion")
        /\ ContinueWith(2, <<Add(MemberIs(M.t1, "__conversion", Fn(input, output))),
                             Add(Relate("Conversion", Unit, input)),
                             Add(Relate("Subtype", output, M.t2))>>)

MatchFails ==
    \/ /\ Takes("mismatch")
       /\ Fail(M.bind)
       /\ UNCHANGED <<sets, cur>>
    \/ /\ Pending("mismatch")
       /\ Fail(bind)
       /\ UNCHANGED <<sets, cur>>

MatchTypes ==
    \/ MatchIdentical \/ MatchUnify \/ MatchDefer \/ MatchUnsolved \/ MatchParallelTypes
    \/ MatchOneElementTuple \/ MatchScalarToTuple \/ MatchSuperclass \/ MatchLoad
    \/ MatchAutoClosure \/ MatchExistential \/ MatchConstruct \/ MatchUserConversion
    \/ MatchFails
===============================================================================
