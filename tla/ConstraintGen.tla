----------------------------- MODULE ConstraintGen -----------------------------
(***************************************************************************)
(* generateConstraints: the walk over an expression, children first, that  *)
(* gives each expression a type and adds constraints to the top-level      *)
(* system.  The expression is the sequence of its nodes in that order, a   *)
(* closure twice, before its body and after it.                            *)
(***************************************************************************)
EXTENDS Simplification

VARIABLES
    code,       \* the expression
    at,         \* the node to visit next
    types,      \* the types of the visited nodes no parent has taken yet
    closures    \* the types of the closures around the next node

walk == <<code, at, types, closures>>

Node == code[at]
At(kind) == crash = "no" /\ todo = << >> /\ at <= Len(code) /\ Node[1] = kind

Operand(i) == types[Len(types) + 1 - i]
Visited(operands, t) ==
    /\ at' = at + 1 /\ UNCHANGED code
    /\ types' = Append(SubSeq(types, 1, Len(types) - operands), t)
Fresh1 == TV(Len(bind) + 1)
Fresh2 == TV(Len(bind) + 2)
Fresh3 == TV(Len(bind) + 3)

\* The node takes operands, has type t, n fresh variables, and adds these.
Visit(operands, t, n, adds) ==
    /\ Visited(operands, t)
    /\ todo' = adds
    /\ bind' = WithVariables(bind, n)
    /\ Become(Owning(This, n))
    /\ UNCHANGED <<sets, cur, crash, closures>>

\* The same with an overload set that binds t.
VisitOverloaded(operands, t, n, adds, choices) ==
    LET id == Len(sets) + 1 IN
    /\ Visited(operands, t)
    /\ sets' = Append(sets, [bound |-> t, choices |-> choices])
    /\ todo' = adds \o IF Len(choices) < 2 THEN <<ResolveSet(id, 1)>> ELSE << >>
    /\ bind' = WithVariables(bind, n)
    /\ Become([Owning(This, n) EXCEPT !.ovls = IF Len(choices) < 2 THEN @ ELSE Append(@, id)])
    /\ UNCHANGED <<cur, crash, closures>>

VisitLiteral == At("literal") /\ Visit(0, Fresh1, 1, <<Add(LiteralOf(Fresh1, Node[2]))>>)

VisitInterpolatedString ==
    LET n == Node[2] IN
    /\ At("interpolated")
    /\ Visit(n, Fresh1, 1,
             <<Add(LiteralOf(Fresh1, "UTFString"))>>
               \o [i \in 1..n |-> Add(Relate("Construction", Operand(n + 1 - i), Fresh1))])

VisitDeclRef ==
    LET ref == TypeOfReference(Decl[Node[2]]) IN
    At("ref") /\ Visit(0, ref.ty, ref.fresh, ref.adds)

\* $i in a closure
VisitParameter ==
    /\ At("param")
    /\ Visit(0, Lv(Last(closures)[2][2][Node[2]].ty, Implicit), 0, << >>)

\* A type, as an expression
VisitTypeRef == At("type") /\ Visit(0, Meta(Node[2]), 0, << >>)

VisitOverloadedDeclRef ==
    At("overloaded") /\ VisitOverloaded(0, Fresh1, 1, << >>, DeclChoices(NoBase, Node[2]))

VisitMemberRef ==
    At("member") /\ VisitOverloaded(1, Fresh1, 1, << >>, DeclChoices(Operand(1), Node[2]))

VisitUnresolvedDot ==
    At("dot") /\ Visit(1, Fresh1, 1, <<Add(MemberIs(Operand(1), Node[2], Fresh1))>>)

\* .member: its type is the oneof or a function that returns it
VisitUnresolvedMember ==
    /\ At("dot member")
    /\ VisitOverloaded(0, Fresh2, 2, <<Add(MemberIs(Fresh1, Node[2], Fresh2))>>,
                       <<Choice("base", Fresh1), Choice("function", Fresh1)>>)

VisitTuple ==
    LET n == Len(Node[2]) IN
    /\ At("tuple")
    /\ Visit(n, Tup([i \in 1..n |-> Named(Node[2][i], Operand(n + 1 - i))]), 0, << >>)

VisitSubscript ==
    /\ At("subscript")
    /\ Visit(2, Fresh2, 3,
             <<Add(MemberIs(Operand(2), "__subscript", Fn(Fresh1, Fresh2))),
               Add(Relate("Subtype", Fresh2, Lv(Fresh3, Implicit \cup {"NonSettable"}))),
               Add(Relate("Conversion", Operand(1), Fresh1))>>)

\* A call of a type is a construction; an operator is never called so.
VisitConstruction ==
    LET fn == SimplifyType(bind, Operand(2)) IN
    /\ At("call") /\ Kind(fn) = "meta"
    /\ Visited(2, fn[2])
    /\ todo' = <<Add(Relate("Construction", Operand(1), fn[2]))>>
    /\ bind' = Consulted(bind, Operand(2))
    /\ Become(Recorded(bind'))
    /\ UNCHANGED <<sets, cur, crash, closures>>

VisitApply ==
    LET seen == IF Node[1] = "call" THEN Consulted(bind, Operand(2)) ELSE bind IN
    /\ At("operator") \/ (At("call") /\ Kind(SimplifyType(bind, Operand(2))) # "meta")
    /\ Visited(2, Fresh2)
    /\ todo' = <<Add(Relate("EqualRvalue", Fn(Fresh1, Fresh2), Operand(2))),
                 Add(Relate("Conversion", Operand(1), Fresh1))>>
    /\ bind' = WithVariables(seen, 2)
    /\ Become(Owning(Recorded(seen), 2))
    /\ UNCHANGED <<sets, cur, crash, closures>>

VisitClosure ==
    LET n  == Node[2]
        fn == Fn(Tup([i \in 1..n |-> Elt(TV(Len(bind) + i))]), TV(Len(bind) + n + 1))
    IN  /\ At("closure")
        /\ at' = at + 1
        /\ closures' = Append(closures, fn)
        /\ bind' = WithVariables(bind, n + 1)
        /\ Become(Owning(This, n + 1))
        /\ UNCHANGED <<code, types, todo, sets, cur, crash>>

VisitClosureEnd ==
    /\ At("end closure")
    /\ Visited(1, Last(closures))
    /\ closures' = Front(closures)
    /\ todo' = <<Add(Relate("Conversion", Operand(1), Last(closures)[3]))>>
    /\ UNCHANGED <<bind, systems, sets, cur, crash>>

VisitAddressOf ==
    /\ At("address of")
    /\ Visit(1, Lv(Fresh1, {"NonHeap"}), 1,
             <<Add(Relate("Subtype", Operand(1), Lv(Fresh1, Implicit)))>>)

VisitNewReference ==
    /\ At("new")
    /\ Visit(1, Node[2], 1,
             <<Add(MemberIs(Node[2], "constructor", Fn(Fresh1, Node[2]))),
               Add(Relate("Conversion", Operand(1), Fresh1))>>)

VisitMetatype ==
    At("metatype") /\ Visit(1, Meta(Fresh1), 1, <<Add(Relate("EqualRvalue", Fresh1, Operand(1)))>>)

\* typeCheckExpressionConstraints: the type the expression must convert to
ConvertTo ==
    At("convert") /\ Visit(1, Node[2], 0, <<Add(Relate("Conversion", Operand(1), Node[2]))>>)

-----------------------------------------------------------------------------
(* computeAssignDestType: a tuple expression element by element             *)
Destinations == IF Node[2] = "tuple" THEN Types(Operand(2)[2]) ELSE <<Operand(2)>>
Seen(t) == SimplifyType(bind, t)
Variables(ts) == SelectSeq([i \in DOMAIN ts |-> i], LAMBDA i : IsTV(Seen(ts[i])))
ObjectOf(ts, i) ==
    IF IsTV(Seen(ts[i]))
    THEN TV(Len(bind) + CHOOSE p \in DOMAIN Variables(ts) : Variables(ts)[p] = i)
    ELSE RValue(Seen(ts[i]))
DestType ==
    IF Node[2] = "tuple"
    THEN Tup([i \in DOMAIN Destinations |->
                [Operand(2)[2][i] EXCEPT !.ty = ObjectOf(Destinations, i)]])
    ELSE ObjectOf(Destinations, 1)

\* typeCheckAssignmentConstraints: the source must convert to what the
\* destination holds.
Assign ==
    LET vs   == Variables(Destinations)
        seen == CompressAll(bind, VariablesOf(Operand(2)))
    IN  /\ At("assign")
        /\ \A i \in DOMAIN Destinations : Kind(Seen(Destinations[i])) \in {"lv", "tv"}
        /\ Visited(2, DestType)
        /\ todo' = [i \in DOMAIN vs |->
                      Add(Relate("Subtype", Seen(Destinations[vs[i]]),
                                 Lv(TV(Len(bind) + i), Implicit)))]
                     \o <<Add(Relate("Conversion", Operand(1), DestType))>>
        /\ bind' = WithVariables(seen, Len(vs))
        /\ Become(Owning(Recorded(seen), Len(vs)))
        /\ UNCHANGED <<sets, cur, crash, closures>>

Generating ==
    \/ VisitLiteral \/ VisitInterpolatedString \/ VisitDeclRef \/ VisitParameter \/ VisitTypeRef
    \/ VisitOverloadedDeclRef \/ VisitMemberRef \/ VisitUnresolvedDot \/ VisitUnresolvedMember
    \/ VisitTuple \/ VisitSubscript \/ VisitConstruction \/ VisitApply \/ VisitClosure
    \/ VisitClosureEnd \/ VisitAddressOf \/ VisitNewReference \/ VisitMetatype \/ ConvertTo
    \/ Assign
===============================================================================
