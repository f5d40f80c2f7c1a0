------------------------------ MODULE SwiftTypes ------------------------------
(***************************************************************************)
(* The types the constraint solver compares, and what it asks the rest of  *)
(* the type checker about them.  A type is a tuple whose first component   *)
(* is its kind:                                                            *)
(*                                                                         *)
(*   <<"tv", n>>                 type variable $Tn                         *)
(*   <<"nom", name>>             class, struct or oneof, not generic       *)
(*   <<"gen", name, args>>       generic struct with its arguments         *)
(*   <<"any", protocols>>        protocol or protocol<...>                 *)
(*   <<"arch", name>>            archetype                                 *)
(*   <<"meta", type>>            metatype                                  *)
(*   <<"lv", type, quals>>       [byref] type                              *)
(*   <<"fn", in, out, auto>>     function, [auto_closure] or not           *)
(*   <<"poly", archs, in, out>>  generic function, only of a declaration   *)
(*   <<"tup", fields>>           tuple                                     *)
(*                                                                         *)
(* A field is [ty, name, init, base]: init when it has a default value,    *)
(* base the element type of a variadic field and <<>> of any other.        *)
(* Array types, types nested in types and generic classes are left out.    *)
(***************************************************************************)
EXTENDS Naturals, Sequences, FiniteSets, SequencesExt

CONSTANTS
    Shape,          \* shape[n]: "class", "struct" or "oneof"
    SuperClass,     \* the direct superclasses: a function from some classes
    ProtocolsOf,    \* the protocols a nominal type conforms to
    ArchProtocols,  \* the protocols an archetype conforms to
    LiteralTypes,   \* the nominal types a literal of a kind converts to
    GenericParams,  \* the archetypes of the generic nominal types
    DefaultLiteral, \* the default type of a literal kind, where there is one
    Decl,           \* declarations by name: [ty, kind, owner, this, settable, assign]
    Members         \* <<nominal, member name>> to the declarations found

TV(n)       == <<"tv", n>>
Nom(n)      == <<"nom", n>>
Gen(n, as)  == <<"gen", n, as>>
Proto(ps)   == <<"any", ps>>
Arch(n)     == <<"arch", n>>
Meta(t)     == <<"meta", t>>
Lv(t, qs)   == <<"lv", t, qs>>
Fn(i, o)    == <<"fn", i, o, FALSE>>
AutoFn(o)   == <<"fn", <<"tup", << >>>>, o, TRUE>>
Tup(fs)     == <<"tup", fs>>
Elt(t)      == [ty |-> t, name |-> "", init |-> FALSE, base |-> << >>]
Named(n, t) == [Elt(t) EXCEPT !.name = n]
Variadic(t) == [Elt(Gen("Slice", <<t>>)) EXCEPT !.base = t]
Unit        == Tup(<< >>)

Kind(t) == t[1]
IsTV(t) == Kind(t) = "tv"

\* The types directly inside a type.
Parts(t) ==
    CASE Kind(t) \in {"tv", "nom", "any", "arch"} -> << >>
      [] Kind(t) = "gen"  -> t[3]
      [] Kind(t) \in {"meta", "lv"} -> <<t[2]>>
      [] Kind(t) = "fn"   -> <<t[2], t[3]>>
      [] Kind(t) = "poly" -> <<t[3], t[4]>>
      [] Kind(t) = "tup"  -> [i \in DOMAIN t[2] |-> t[2][i].ty]

\* The same type with other parts: a variadic field keeps its element type, a
\* generic function is opened.
WithParts(t, ps) ==
    CASE Kind(t) \in {"tv", "nom", "any", "arch"} -> t
      [] Kind(t) = "gen"  -> Gen(t[2], ps)
      [] Kind(t) = "meta" -> Meta(ps[1])
      [] Kind(t) = "lv"   -> Lv(ps[1], t[3])
      [] Kind(t) = "fn"   -> <<"fn", ps[1], ps[2], t[4]>>
      [] Kind(t) = "poly" -> Fn(ps[1], ps[2])
      [] Kind(t) = "tup"  ->
            Tup([i \in DOMAIN ps |->
                   [t[2][i] EXCEPT !.ty = ps[i],
                                   !.base = IF @ = << >> THEN @ ELSE ps[i][3][1]]])

RECURSIVE Subterms(_)
Subterms(t) == {t} \cup UNION {Subterms(Parts(t)[i]) : i \in DOMAIN Parts(t)}

\* The parameters of the generic function in a declaration's type.
PolyParams(t) ==
    LET polys == {u \in Subterms(t) : Kind(u) = "poly"}
    IN  IF polys = {} THEN << >> ELSE (CHOOSE u \in polys : TRUE)[2]
VariablesOf(t) == {s[2] : s \in {u \in Subterms(t) : IsTV(u)}}
HasTypeVariable(t) == VariablesOf(t) # {}

\* A type with its leaves replaced; a leaf outside the map stays.
RECURSIVE Replace(_, _)
Replace(t, map) ==
    IF Parts(t) = << >>
    THEN IF t \in DOMAIN map THEN map[t] ELSE t
    ELSE WithParts(t, [i \in DOMAIN Parts(t) |-> Replace(Parts(t)[i], map)])

-----------------------------------------------------------------------------
(* Lvalues.  More qualifiers make a supertype.                             *)
Implicit == {"NonHeap", "Implicit"}
RValue(t) == IF Kind(t) = "lv" THEN t[2] ELSE t

\* adjustLValueForReference
AdjustLValue(t) == IF Kind(t) = "lv" THEN Lv(t[2], t[3] \cup Implicit) ELSE t
AdjustAssignment(t, isAssignment) ==
    IF Kind(t) # "fn" \/ ~isAssignment THEN AdjustLValue(t)
    ELSE LET in == t[2] IN
         <<"fn",
           IF Kind(in) # "tup" THEN AdjustLValue(in)
           ELSE Tup([i \in DOMAIN in[2] |->
                       IF i = 1 THEN [in[2][1] EXCEPT !.ty = AdjustLValue(@)] ELSE in[2][i]]),
           t[3], t[4]>>

-----------------------------------------------------------------------------
(* Nominal types                                                           *)
NameOf(t) == t[2]
IsNominal(t) == Kind(t) \in {"nom", "gen"}
IsClass(t) == Kind(t) = "nom" /\ Shape[NameOf(t)] = "class"
IsConstructibleType(t) == IsNominal(t) /\ Shape[NameOf(t)] \in {"struct", "oneof"}
IsExistential(t) == Kind(t) = "any"

\* The superclasses of a class, nearest first.
SuperClasses(n) ==
    LET above[c \in DOMAIN Shape] ==
            IF c \in DOMAIN SuperClass THEN <<SuperClass[c]>> \o above[SuperClass[c]] ELSE << >>
    IN  above[n]
IsSubclass(t1, t2) ==
    IsClass(t1) /\ IsClass(t2) /\ NameOf(t2) \in Range(SuperClasses(NameOf(t1)))

ConformsTo(t, protocol) ==
    CASE Kind(t) = "any"  -> protocol \in t[2]
      [] IsNominal(t)     -> protocol \in ProtocolsOf[NameOf(t)]
      [] Kind(t) = "arch" -> protocol \in ArchProtocols[NameOf(t)]
      [] OTHER            -> FALSE

IsLiteralCompatible(t, literal) == IsNominal(t) /\ NameOf(t) \in LiteralTypes[literal]

EnumerateDirectSupertypes(t) ==
    CASE Kind(t) = "tup" /\ Len(t[2]) = 1 ->
            LET e == t[2][1] IN
            IF e.base # << >> THEN <<e.base>> ELSE IF e.name # "" THEN <<e.ty>> ELSE << >>
      [] Kind(t) = "fn" /\ t[4] -> <<t[3]>>
      [] IsClass(t) /\ NameOf(t) \in DOMAIN SuperClass -> <<Nom(SuperClass[NameOf(t)])>>
      [] OTHER -> << >>

\* MemberLookup and ConstructorLookup in a nominal type or its metatype
LookupMembers(t, name) ==
    LET base == IF Kind(t) = "meta" THEN t[2] ELSE t IN
    IF IsNominal(base) /\ <<NameOf(base), name>> \in DOMAIN Members
    THEN Members[<<NameOf(base), name>>]
    ELSE << >>

\* TupleType::getFieldForScalarInit, 0 when there is none
FieldForScalarInit(fs) ==
    LET needed == {i \in DOMAIN fs : ~fs[i].init}
        first  == CHOOSE i \in needed : \A j \in needed : i <= j
    IN  IF fs = << >> THEN 0
        ELSE IF needed = {} THEN 1
        ELSE IF \A j \in needed \ {first} : fs[j].base # << >> THEN first
        ELSE 0
===============================================================================
