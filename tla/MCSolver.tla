-------------------------------- MODULE MCSolver --------------------------------
(***************************************************************************)
(* The declarations and expressions of the repository's tests of the       *)
(* constraint checker (test/Constraints), brought into one module.         *)
(***************************************************************************)
EXTENDS TypingRules, TLC

TInt == Nom("Int")   TFloat == Nom("Float")   TString == Nom("String")   TChar == Nom("Char")
A == Nom("A")  B == Nom("B")  X == Nom("X")  Y == Nom("Y")  Z == Nom("Z")  P == Nom("P")
T == Arch("T")  U == Arch("U")  E == Arch("E")
Slice(t) == Gen("Slice", <<t>>)
Poly(as, i, o) == <<"poly", as, i, o>>
ByRef(t) == Lv(t, {"NonHeap"})
Args(fs) == Tup(fs)
Barable == Proto({"Barable"})
FooBarable == Proto({"Barable", "Fooable"})

MCShape == [n \in {"Int", "Float", "Double", "String", "Char", "X", "Y", "P", "Slice"} |-> "struct"]
             @@ [n \in {"A", "B", "C"} |-> "class"] @@ ("Z" :> "oneof")
MCSuperClass == ("B" :> "A") @@ ("C" :> "B")
MCProtocolsOf ==
    [n \in DOMAIN MCShape |-> CASE n = "Int"   -> {"Barable", "Fooable"}
                                [] n = "Float" -> {"Barable"}
                                [] OTHER       -> {}]
MCArchProtocols == [n \in {"T", "U", "E"} |-> {}] @@ ("This" :> {"Concat"})
                     @@ ("Cat" :> {"Concat"}) @@ ("Bar" :> {"Barable"})
MCLiteralTypes == [Integer |-> {"Int", "Float", "Double"}, Float |-> {"Float", "Double"},
                   Character |-> {"Char"}, ASCIIString |-> {"String"}, UTFString |-> {"String"}]
MCDefaultLiteral == [Integer |-> TInt, Float |-> Nom("Double"), Character |-> TChar,
                     ASCIIString |-> TString, UTFString |-> TString]
MCGenericParams == "Slice" :> <<"E">>

D(kind, owner, ty) ==
    [kind |-> kind, owner |-> owner, ty |-> ty, this |-> << >>, settable |-> TRUE, assign |-> FALSE]
Func(ty) == D("func", Unit, ty)
Var(ty) == D("var", Unit, ty)
Method(owner, in, out) ==
    D("func", owner, Fn(IF owner \in {A, B} THEN owner ELSE ByRef(owner), Fn(in, out)))
Maker(kind, owner, in) == D(kind, owner, Fn(Meta(owner), Fn(in, owner)))

MCDecl ==
       ("i" :> Var(TInt)) @@ ("f" :> Var(TFloat)) @@ ("c" :> Var(Nom("C"))) @@ ("a" :> Var(A))
    @@ ("b" :> Var(B)) @@ ("x" :> Var(X)) @@ ("y" :> Var(Y)) @@ ("p" :> Var(P))
    @@ ("bar" :> Var(Barable)) @@ ("slice" :> Var(Slice(TInt)))
    @@ ("ift" :> Var(Tup(<<Elt(TInt), Elt(TFloat)>>)))
    @@ ("cat" :> Var(Arch("Cat"))) @@ ("other" :> Var(U))
    @@ ("ovl1" :> Var(TInt)) @@ ("ovl2" :> Var(TFloat))
    @@ ("id" :> Func(Fn(TFloat, TFloat))) @@ ("id2" :> Func(Fn(TInt, TInt)))
    @@ ("named" :> Func(Fn(Args(<<Named("x", TFloat)>>), TFloat)))
    @@ ("takesB" :> Func(Fn(Args(<<Named("b", B)>>), Unit)))
    @@ ("fa" :> Func(Fn(A, Unit))) @@ ("fb" :> Func(Fn(B, Unit))) @@ ("fy" :> Func(Fn(Y, Unit)))
    @@ ("bars" :> Func(Fn(Barable, Unit))) @@ ("foobars" :> Func(Fn(FooBarable, Unit)))
    @@ ("floats" :> Func(Fn(TFloat, Unit))) @@ ("g" :> Func(Fn(Fn(FooBarable, Unit), Unit)))
    @@ ("xy" :> Func(Fn(Args(<<Named("x", TInt), Named("y", TFloat)>>), Unit)))
    @@ ("rest" :> Func(Fn(Args(<<Named("y", TFloat), [Variadic(TInt) EXCEPT !.name = "rest"]>>), Unit)))
    @@ ("default" :> Func(Fn(Args(<<Named("x", TInt), [Named("y", TFloat) EXCEPT !.init = TRUE]>>), Unit)))
    @@ ("inout" :> Func(Fn(Args(<<Named("x", ByRef(TInt))>>), Unit)))
    @@ ("inoutT" :> Func(Poly(<<"T">>, Args(<<Named("x", ByRef(T))>>), Unit)))
    @@ ("gen" :> Func(Poly(<<"T">>, Args(<<Named("x", T)>>), Unit)))
    @@ ("genBar" :> Func(Poly(<<"Bar">>, Args(<<Named("x", Arch("Bar"))>>), Arch("Bar"))))
    @@ ("toString" :> Func(Poly(<<"T">>, Args(<<Named("x", T)>>), TString)))
    @@ ("map" :> Func(Poly(<<"T", "U">>, Args(<<Named("array", Slice(T)), Named("fn", Fn(T, U))>>),
                           Slice(U))))
    @@ ("f1A" :> Func(Fn(Args(<<Named("a", A)>>), A))) @@ ("f1B" :> Func(Fn(Args(<<Named("b", B)>>), B)))
    @@ ("lazy" :> Func(Fn(AutoFn(TInt), Unit)))
    @@ ("g0" :> Func(Fn(Fn(ByRef(X), Fn(TFloat, Unit)), Unit)))
    @@ ("plusI" :> Func(Fn(Args(<<Elt(TInt), Elt(TInt)>>), TInt)))
    @@ ("plusF" :> Func(Fn(Args(<<Elt(Nom("Double")), Elt(Nom("Double"))>>), Nom("Double"))))
    @@ ("+=" :> [Func(Fn(Args(<<Elt(ByRef(TInt)), Elt(TInt)>>), Unit)) EXCEPT !.assign = TRUE])
    @@ ("+++" :> [Func(Poly(<<"T">>, Args(<<Named("lhs", Arch("This")), Named("other", T)>>), Unit))
                    EXCEPT !.this = <<"This">>])
    @@ ("make" :> Func(Poly(<<"T">>, Unit, T))) @@ ("makeInt" :> Func(Fn(TInt, TInt)))
    @@ ("same" :> Func(Poly(<<"T">>, Args(<<Named("x", T), Named("y", T)>>), T)))
    @@ ("pair" :> Func(Fn(Unit, Tup(<<Named("l", TInt), Elt(TFloat)>>))))
    @@ ("X.f0" :> Method(X, Args(<<Named("i", TInt)>>), X))
    @@ ("X.f1i" :> Method(X, Args(<<Named("i", TInt)>>), Unit))
    @@ ("X.f1f" :> Method(X, Args(<<Named("f", TFloat)>>), Unit))
    @@ ("X.f2" :> D("func", X, Fn(ByRef(X), Poly(<<"T">>, Args(<<Named("x", T)>>), T))))
    @@ ("X.conversion" :> Method(X, Unit, B)) @@ ("A.conversion" :> Method(A, Unit, Y))
    @@ ("A.init" :> Maker("constructor", A, Unit)) @@ ("B.init" :> Maker("constructor", B, Unit))
    @@ ("X.init" :> Maker("constructor", X, Args(<<Named("i", TInt), Named("j", TInt)>>)))
    @@ ("Y.init" :> Maker("constructor", Y,
                          Args(<<Named("x", TInt), Named("y", TFloat), Named("z", TString)>>)))
    @@ ("Y.init0" :> Maker("constructor", Y, Unit))
    @@ ("String.init" :> Maker("constructor", TString, TInt))
    @@ ("String.init2" :> Maker("constructor", TString, TString))
    @@ ("Z.char" :> Maker("element", Z, TChar)) @@ ("Z.string" :> Maker("element", Z, TString))
    @@ ("Z.point" :> Maker("element", Z, Args(<<Elt(TInt), Elt(TInt)>>)))
    @@ ("Z.none" :> D("element", Z, Fn(Meta(Z), Z)))
    @@ ("P.property" :> D("var", P, Nom("Double")))
    @@ ("P.subscript" :> D("subscript", P, Fn(Args(<<Named("i", TInt)>>), TFloat)))
    @@ ("Y.subscript1" :> D("subscript", Y, Fn(Args(<<Named("i", TInt)>>), TFloat)))
    @@ ("Y.subscript2" :> D("subscript", Y, Fn(Args(<<Named("f", TFloat)>>), TInt)))
    @@ ("Slice.subscript" :> D("subscript", Slice(E), Fn(TInt, E)))
    @@ ("Int.bar" :> D("static", TInt, Fn(Meta(TInt), Fn(Unit, TInt))))

MCMembers ==
       (<<"X", "f0">> :> <<"X.f0">>) @@ (<<"X", "f1">> :> <<"X.f1i", "X.f1f">>)
    @@ (<<"X", "f2">> :> <<"X.f2">>)
    @@ (<<"X", "__conversion">> :> <<"X.conversion">>)
    @@ (<<"A", "__conversion">> :> <<"A.conversion">>)
    @@ (<<"B", "__conversion">> :> <<"A.conversion">>)
    @@ (<<"A", "constructor">> :> <<"A.init">>) @@ (<<"B", "constructor">> :> <<"B.init">>)
    @@ (<<"X", "constructor">> :> <<"X.init">>)
    @@ (<<"Y", "constructor">> :> <<"Y.init", "Y.init0">>)
    @@ (<<"String", "constructor">> :> <<"String.init", "String.init2">>)
    @@ (<<"Z", "constructor">> :> <<"Z.char", "Z.string", "Z.point">>)
    @@ (<<"Z", "char">> :> <<"Z.char">>) @@ (<<"Z", "none">> :> <<"Z.none">>)
    @@ (<<"P", "property">> :> <<"P.property">>)
    @@ (<<"P", "__subscript">> :> <<"P.subscript">>)
    @@ (<<"Y", "__subscript">> :> <<"Y.subscript1", "Y.subscript2">>)
    @@ (<<"Slice", "__subscript">> :> <<"Slice.subscript">>)
    @@ (<<"Int", "bar">> :> <<"Int.bar">>)

-----------------------------------------------------------------------------
(* Expressions                                                             *)
R(d)          == <<<<"ref", d>>>>
Lit(k)        == <<<<"literal", k>>>>
Over(ds)      == <<<<"overloaded", ds>>>>
TypeRef(t)    == <<<<"type", t>>>>
Dot(e, n)     == e \o <<<<"dot", n>>>>
Of(es, names) == FlattenSeq(es) \o <<<<"tuple", names>>>>
Plain(n)      == [i \in 1..n |-> ""]
Call1(f, e)   == f \o e \o <<<<"call">>>>
CallN(f, es)  == Call1(f, Of(es, Plain(Len(es))))
Infix(f, l, r) == f \o Of(<<l, r>>, Plain(2)) \o <<<<"operator">>>>
Ids           == Over(<<"id", "id2">>)
Plus          == Over(<<"plusI", "plusF">>)
Param1        == <<<<"param", 1>>>>
DotMember(n)  == <<<<"dot member", n>>>>
Index(e, i)   == e \o i \o <<<<"subscript">>>>
AddressOf(e)  == e \o <<<<"address of">>>>
New(t)        == Of(<< >>, << >>) \o <<<<"new", t>>>>
Closure(n, e) == <<<<"closure", n>>>> \o e \o <<<<"end closure">>>>
As(e, t)      == e \o <<<<"convert", t>>>>
Set(d, s)     == d \o s \o <<<<"assign", "one">>>>
SetAll(d, s)  == d \o s \o <<<<"assign", "tuple">>>>

\* ranking.swift: of the solutions with A and with B the second is the best.
Ranked == Call1(R("gen"), Call1(Over(<<"f1A", "f1B">>), New(B)))

\* From the tests, by what they expect: one solution or none.
Solved1 == {
    Call1(R("id"), Call1(R("id"), R("f"))),
    Call1(R("named"), Call1(R("named"), R("f"))),
    Call1(R("takesB"), R("c")),
    Call1(Dot(Call1(Dot(R("x"), "f0"), R("i")), "f1"), R("i")),
    Call1(R("g0"), Dot(TypeRef(X), "f1")),
    Call1(Ids, R("i")), Call1(Ids, Lit("Float")),
    Call1(R("bars"), R("i")), Call1(R("g"), R("bars")),
    Ranked,
    R("xy") \o Of(<<R("f"), Lit("Integer")>>, <<"y", "x">>) \o <<<<"call">>>>,
    R("rest") \o Of(<<R("f"), Lit("Integer"), Lit("Integer")>>, <<"y", "", "">>) \o <<<<"call">>>>,
    Call1(R("fb"), R("x")), Call1(R("fa"), R("x")), Call1(R("fy"), R("b")),
    Call1(R("inout"), AddressOf(R("i"))),
    Call1(R("inoutT"), AddressOf(Index(R("p"), R("i")))),
    Call1(R("inoutT"), AddressOf(Dot(R("p"), "property"))),
    Call1(R("inoutT"), AddressOf(Index(R("y"), R("i")))),
    CallN(TypeRef(Tup(<<Named("x", TInt), Named("y", TInt)>>)), <<Lit("Integer"), Lit("Integer")>>),
    Call1(TypeRef(A), R("c")),
    CallN(TypeRef(X), <<Lit("Integer"), Lit("Integer")>>),
    CallN(TypeRef(Y), <<Lit("Integer"), Lit("Integer"), Lit("ASCIIString")>>),
    Call1(TypeRef(Z), Lit("Character")),
    CallN(TypeRef(Z), <<Lit("Integer"), Lit("Integer")>>),
    Set(R("i"), R("i")), Set(R("i"), Lit("Integer")),
    SetAll(Of(<<R("i"), R("f")>>, Plain(2)), R("ift")),
    SetAll(Of(<<Over(<<"ovl1", "ovl2">>), Over(<<"ovl1", "ovl2">>)>>, Plain(2)), R("ift")),
    Set(Index(R("slice"), Lit("Integer")), R("i")),
    CallN(R("map"), <<R("slice"), Closure(1, Call1(R("toString"), Param1))>>),
    Infix(R("+++"), R("cat"), R("other")),
    Infix(R("+++"), R("cat"), Lit("Integer")) }

Unsolved1 == {
    Call1(R("takesB"), R("a")),
    Call1(R("foobars"), R("f")), Call1(R("foobars"), R("bar")), Call1(R("g"), R("floats")),
    Call1(R("fy"), R("x")),
    Set(Index(R("slice"), Lit("Integer")), R("f")),
    Infix(R("+++"), R("other"), R("cat")) }

\* What the tests do not have: interpolation, element access, member
\* references, assignment operators, bounds from two arguments.
More == {
    R("i") \o <<<<"interpolated", 1>>>>,
    As(Call1(DotMember("char"), Lit("Character")), Z),
    As(DotMember("none"), Z), As(DotMember("none"), TInt),
    Dot(R("ift"), "$0"), Dot(R("ift"), "$7"),
    Call1(R("x") \o <<<<"member", <<"X.f1i", "X.f1f">>>>>>, R("i")),
    R("x") \o <<<<"metatype">>>>,
    Call1(R("genBar"), Lit("Float")),
    Call1(Dot(TypeRef(TInt), "bar"), Of(<< >>, << >>)),
    Set(Call1(R("id"), R("f")), R("f")), Set(Over(<<"ovl1", "ovl2">>), R("i")),
    Infix(R("+="), R("i"), Lit("Integer")),
    Infix(Plus, Infix(Plus, Lit("Integer"), Lit("Float")), Lit("Integer")),
    Dot(TypeRef(P), "property"),
    As(Closure(1, Param1), Fn(TInt, TInt)), Closure(1, Param1),
    CallN(R("same"), <<R("b"), R("a")>>), CallN(R("same"), <<R("c"), R("a")>>),
    CallN(R("same"), <<Lit("Integer"), R("f")>>), CallN(R("same"), <<R("i"), R("a")>>),
    Call1(R("map"), R("slice")) }

\* Every function with every argument.
Callees ==
    {R(d) : d \in {"id", "named", "takesB", "fa", "bars", "foobars", "g", "xy", "rest", "default",
                   "inout", "inoutT", "gen", "genBar", "toString", "lazy", "g0", "make"}}
      \cup {TypeRef(t) : t \in {A, X, Y, Z, TString}}
      \cup {Ids, Over(<<"f1A", "f1B">>), DotMember("char"),
            Dot(R("x"), "f1"), Dot(R("x"), "f2"), Dot(TypeRef(X), "f1")}
Arguments ==
    {R(d) : d \in {"i", "f", "x", "a", "c", "y", "slice", "ift", "bar", "id"}}
      \cup {Lit(l) : l \in {"Integer", "Float", "Character"}}
      \cup {Over(<<"ovl1", "ovl2">>), Over(<<"f1A", "f1B">>), New(B), AddressOf(R("i")),
            Closure(1, Param1), Closure(1, Lit("Integer")), Of(<< >>, << >>),
            Of(<<Lit("Integer"), Lit("Integer")>>, Plain(2)),
            Of(<<Lit("Integer"), Lit("Float")>>, <<"x", "y">>), Dot(R("ift"), "$0"),
            Index(R("y"), Lit("Integer")), Call1(R("gen"), R("x")),
            Call1(R("toString"), Lit("Integer")), Call1(Ids, Lit("Integer"))}

\* Those an assertion of the solver stops.
Asserts == {
    Dot(Call1(R("pair"), Of(<< >>, << >>)), "l"),
    Call1(R("genBar"), Closure(1, Param1)), Call1(R("genBar"), Closure(1, Lit("Integer"))),
    Call1(R("g0"), Closure(1, Param1)), Call1(R("g"), Closure(1, Param1)),
    CallN(DotMember("char"), <<Lit("Integer"), Lit("Integer")>>),
    Call1(DotMember("char"), Of(<<Lit("Integer"), Lit("Float")>>, <<"x", "y">>)) }

MCExpressions ==
    Solved1 \cup Unsolved1 \cup More \cup Asserts \cup {Call1(f, e) : f \in Callees, e \in Arguments}

\* A generic function without parameters and an overload of it.
MCGenericCalls == {CallN(Over(<<"make", "makeInt">>), << >>), Call1(R("make"), Of(<< >>, << >>))}

-----------------------------------------------------------------------------
(* Properties of these expressions                                         *)

\* The search of solve() ends where the tests under test/Constraints say: with
\* one best solution, which is the one with the more special types, or with none.
ResolvesAsTested ==
    pc = "done" =>
        /\ code \in Solved1   => Len(viable) = 1
        /\ code \in Unsolved1 => viable = << >>
        /\ code = Ranked => \A r \in Resolved(viable[1]) :
              Len(sets[r[1]].choices) = 2 => sets[r[1]].choices[r[2]].decl = "f1B"

\* No assertion of the solver trips but for the expressions listed, and for
\* these one does: the member of a tuple a call returns; a bound below a
\* variable that has variables itself, which bindDefinitiveTypeVariables takes
\* for a conflict and findTypeVariableBounds does not see.
AssertionsTripExactly ==
    /\ crash # "no" => code \in Asserts
    /\ pc = "done" => code \notin Asserts
===============================================================================
