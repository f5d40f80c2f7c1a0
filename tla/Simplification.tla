---------------------------- MODULE Simplification ----------------------------
(***************************************************************************)
(* addConstraint: a constraint is simplified at once, and only one that    *)
(* cannot be decided yet joins the system.  Member constraints end in an   *)
(* overload set; a set of one choice is resolved at once.                  *)
(***************************************************************************)
EXTENDS Matching

AddConstraint ==
    LET c == Call.c IN
    /\ Pending("add")
    /\ Then(<<IF c.kind \in Relational THEN Match(c.first, c.second, c.kind, FALSE)
              ELSE [do |-> c.kind],
              End(Call)>>)
    /\ Become([This EXCEPT !.asked = @ \cup {c}])
    /\ UNCHANGED <<bind, sets, cur, crash>>

\* Every match the constraint made succeeded.
ConstraintSolved ==
    /\ Pending("end")
    /\ Then(<< >>)
    /\ Become([This EXCEPT !.ext = IF Call.ext THEN @ \cup {Call.c} ELSE @,
                           !.solvedAny = @ \/ Call.loop])
    /\ UNCHANGED <<bind, sets, cur, crash>>

\* The outcomes of a constraint that is not relational, over a table.
Solved(b) == Continue(b, << >>)
Unsolved(b) ==
    /\ LeaveConstraint
    /\ bind' = b
    /\ Become([Recorded(b) EXCEPT
                 !.constraints = IF Constraint.ext THEN @ ELSE Append(@, Constraint.c)])
    /\ UNCHANGED <<sets, cur, crash>>
Error(b) == Fail(b) /\ UNCHANGED <<sets, cur>>

\* A constraint on one type that may be a variable: nothing, or what it is.
SimplifyKind(t, accepts(_)) ==
    IF ~IsTV(t) THEN IF accepts(t) THEN Solved(bind) ELSE Error(bind)
    ELSE IF ~HasFixed(bind, t[2]) THEN Unsolved(bind)
    ELSE IF accepts(FixedType(bind, t[2])) THEN Solved(CompressToFixed(bind, t[2]))
    ELSE Error(CompressToFixed(bind, t[2]))

SimplifyLiteralConstraint ==
    LET accepts(t) == IsLiteralCompatible(t, Constraint.c.name) IN
    Pending("Literal") /\ SimplifyKind(Constraint.c.first, accepts)

SimplifyArchetypeConstraint ==
    LET accepts(t) == Kind(RValue(t)) = "arch" IN
    Pending("Archetype") /\ SimplifyKind(RValue(Constraint.c.first), accepts)

-----------------------------------------------------------------------------
(* Overload sets                                                           *)
NoBase == <<"none">>
Choice(kind, base)  == [kind |-> kind, base |-> base, decl |-> "", index |-> 0]
DeclChoice(base, d) == [Choice("decl", base) EXCEPT !.decl = d]
IndexChoice(base, i) == [Choice("index", base) EXCEPT !.index = i]
DeclChoices(base, ds) == [i \in DOMAIN ds |-> DeclChoice(base, ds[i])]

\* addOverloadSet of a set that binds a type, over a table
AddOverloadSet(b, bound, choices) ==
    LET id == Len(sets) + 1 IN
    /\ sets' = Append(sets, [bound |-> bound, choices |-> choices])
    /\ bind' = b
    /\ IF Len(choices) < 2
       THEN Then(<<ResolveSet(id, 1)>>) /\ Become(Recorded(b))
       ELSE Then(<< >>) /\ Become([Recorded(b) EXCEPT !.ovls = Append(@, id)])
    /\ UNCHANGED <<cur, crash>>

-----------------------------------------------------------------------------
(* simplifyMemberConstraint                                                *)
C      == Constraint.c
Base   == SimplifyType(bind, C.first)
Object == RValue(Base)
Looked == Consulted(bind, C.first)

\* getNamedElementId, or the number in a name $n; 0 when there is none
TupleField(fs, name) ==
    IF name \in {"$0", "$1"}
    THEN LET n == IF name = "$0" THEN 1 ELSE 2 IN IF n <= Len(fs) THEN n ELSE 0
    ELSE IndexOfName(fs, name)

MemberUnsolved == Pending("ValueMember") /\ IsTV(Object) /\ Unsolved(Looked)

\* The choice is made of the type the constraint was written with.
TupleMember ==
    LET field == TupleField(Object[2], C.name) IN
    /\ Pending("ValueMember") /\ Kind(Object) = "tup"
    /\ IF field = 0 THEN Error(Looked)
       ELSE IF Kind(RValue(C.first)) = "tup"
       THEN AddOverloadSet(Looked, C.second, <<IndexChoice(C.first, field)>>)
       ELSE crash' = "Must have tuple type" /\ UNCHANGED <<bind, systems, sets, todo, cur>>

\* The input of a constructor, through a tuple one value initialises.
ConstructorInput(d) ==
    LET in == IF Kind(Decl[d].ty[3]) = "fn" THEN Decl[d].ty[3][2] ELSE Unit IN
    IF Kind(in) = "tup" /\ FieldForScalarInit(in[2]) # 0
    THEN in[2][FieldForScalarInit(in[2])].ty ELSE in

ConstructorMember ==
    LET found    == Constructors(Object)
        identity == ~IsClass(Object) /\ \A i \in DOMAIN found : ConstructorInput(found[i]) # Object
    IN  /\ Pending("ValueMember") /\ ~IsTV(Object) /\ Kind(Object) # "tup" /\ C.name = "constructor"
        /\ IF found = << >> THEN Error(Looked)
           ELSE AddOverloadSet(Looked, C.second,
                    DeclChoices(Base, found)
                      \o IF identity THEN <<Choice("identity", Base)>> ELSE << >>)

ValueMember ==
    LET found    == LookupMembers(Object, C.name)
        property == Len(found) = 1 /\ Decl[found[1]].kind = "var"
    IN  /\ Pending("ValueMember") /\ ~IsTV(Object) /\ Kind(Object) # "tup" /\ C.name # "constructor"
        /\ IF found = << >> \/ (Kind(Object) = "meta" /\ property) THEN Error(Looked)
           ELSE AddOverloadSet(Looked, C.second, DeclChoices(Base, found))

-----------------------------------------------------------------------------
(* References to declarations                                              *)

\* openType: a fresh variable for each archetype, which must convert to the
\* archetype's protocols
Opened(archs) == [a \in {Arch(n) : n \in Range(archs)} |->
                    TV(Len(bind) + CHOOSE i \in DOMAIN archs : Arch(archs[i]) = a)]
Conformances(some, archs) ==
    LET bounded == SelectSeq(some, LAMBDA a : ArchProtocols[a] # {})
    IN  [i \in DOMAIN bounded |->
            Add(Relate("Conversion", Opened(archs)[Arch(bounded[i])],
                       Proto(ArchProtocols[bounded[i]])))]

SettableQual(base, d) ==
    IF d.settable /\ \/ base = NoBase
                     \/ Kind(base) = "lv" /\ "NonSettable" \notin base[3]
                     \/ IsClass(RValue(base))
    THEN {} ELSE {"NonSettable"}

\* getTypeOfValueDeclReference
ValueType(base, d) ==
    IF d.kind = "var" THEN Lv(RValue(d.ty), SettableQual(base, d)) ELSE d.ty

\* A reference: its fresh variables, the constraints it adds, its type.
TypeOfReference(d) ==
    LET archs == d.this \o PolyParams(d.ty) IN
    [fresh |-> Len(archs),
     adds  |-> Conformances(archs, archs)
                 \o IF d.this = << >> THEN << >>
                    ELSE <<Add(IsArchetype(Opened(archs)[Arch(d.this[1])]))>>,
     ty    |-> AdjustAssignment(Replace(ValueType(NoBase, d), Opened(archs)), d.assign)]

TypeOfMemberReference(base, d) ==
    LET object     == IF Kind(RValue(base)) = "meta" THEN RValue(base)[2] ELSE RValue(base)
        isInstance == Kind(RValue(base)) # "meta"
        params     == IF Kind(d.owner) = "gen" THEN GenericParams[NameOf(d.owner)] ELSE << >>
        archs      == params \o PolyParams(d.ty)
        open(t)    == Replace(t, Opened(archs))
        member     == IF d.kind = "subscript"
                      THEN Fn(d.ty[2], Lv(d.ty[3], Implicit \cup SettableQual(base, d)))
                      ELSE ValueType(base, d)
        skipThis   == \/ d.kind \in {"static", "constructor", "element"}
                      \/ d.kind = "func" /\ isInstance
    IN  [fresh |-> Len(archs),
         adds  |-> Conformances(params, archs)
                     \o <<Add(Relate("Conversion", object, open(d.owner)))>>
                     \o Conformances(PolyParams(d.ty), archs),
         ty    |-> AdjustAssignment(IF skipThis THEN open(member)[3] ELSE open(member), d.assign)]

NoMore(t) == [fresh |-> 0, adds |-> << >>, ty |-> t]

TupleElement(base, i) ==
    LET t == RValue(base)[2][i].ty IN
    IF Kind(base) = "lv" /\ Kind(t) # "lv" THEN Lv(t, base[3]) ELSE t

Reference(c) ==
    CASE c.kind = "decl" /\ c.base = NoBase -> TypeOfReference(Decl[c.decl])
      [] c.kind = "decl" /\ c.base # NoBase -> TypeOfMemberReference(c.base, Decl[c.decl])
      [] c.kind = "base"     -> NoMore(c.base)
      [] c.kind = "function" -> [NoMore(Fn(TV(Len(bind) + 1), c.base)) EXCEPT !.fresh = 1]
      [] c.kind = "identity" -> NoMore(Fn(c.base, c.base))
      [] c.kind = "index"    -> NoMore(TupleElement(c.base, c.index))

ResolveOverload ==
    LET set == sets[Call.set]
        ref == Reference(set.choices[Call.choice])
    IN  /\ Pending("resolve")
        /\ Then(ref.adds \o <<Add(Relate("Bind", set.bound, ref.ty))>>)
        /\ bind' = WithVariables(bind, ref.fresh)
        /\ Become([Owning(This, ref.fresh) EXCEPT
                     !.resolved = @ \cup {<<Call.set, Call.choice>>}])
        /\ UNCHANGED <<sets, cur, crash>>

Simplifying ==
    \/ AddConstraint \/ ConstraintSolved \/ MatchTypes \/ SimplifyLiteralConstraint
    \/ SimplifyArchetypeConstraint \/ MemberUnsolved \/ TupleMember \/ ConstructorMember
    \/ ValueMember \/ ResolveOverload
===============================================================================
