------------------------------ MODULE TypingRules ------------------------------
(***************************************************************************)
(* What a constraint means, for types without variables: the rules of      *)
(* matchTypes read as a relation, without the order they are tried in and  *)
(* without the constraints they leave behind.  The solver's answers are    *)
(* held against it.                                                        *)
(***************************************************************************)
EXTENDS Solver

RECURSIVE Related(_, _, _)
Related(t1, t2, k) ==
    LET converts == AtLeast(k, "Conversion")
        field    == t2[2][FieldForScalarInit(t2[2])]
    IN  \/ t1 = t2
        \/ k \in {"Equal", "EqualRvalue"} /\ (Kind(t1) = "lv" \/ Kind(t2) = "lv")
             /\ Related(RValue(t1), RValue(t2), "Equal")
        \/ k = "EqualRvalue" /\ Kind(t2) = "fn" /\ t2[4] /\ Related(t1, Fn(t2[2], t2[3]), "Equal")
        \/ /\ Parallel(t1, t2)
           /\ \A c \in Range(MatchParallel(t1, t2, k)) :
                 c.do = "match" /\ Related(c.t1, c.t2, c.k)
        \/ /\ AtLeast(k, "TrivialSubtype") /\ Kind(t2) = "tup"
           /\ Len(t2[2]) = 1 /\ t2[2][1].base = << >> /\ Related(t1, t2[2][1].ty, k)
        \/ AtLeast(k, "TrivialSubtype") /\ IsSubclass(t1, t2)
        \/ converts /\ Kind(t2) = "tup" /\ FieldForScalarInit(t2[2]) # 0
             /\ Related(t1, IF field.base = << >> THEN field.ty ELSE field.base, k)
        \/ converts /\ Kind(t1) = "lv" /\ Related(t1[2], t2, k)
        \/ converts /\ Kind(t2) = "fn" /\ t2[4] /\ Related(t1, t2[3], k)
        \/ (converts \/ k = "Subtype") /\ IsExistential(t2) /\ \A p \in t2[2] : ConformsTo(t1, p)
        \/ converts /\ \E d \in Range(LookupMembers(t1, "__conversion")) :
                          Related(Decl[d].ty[3][3], t2, "Subtype")
        \/ k = "Construction" /\ \/ Related(t1, t2, "Conversion")
                                 \/ \E d \in Range(Constructors(t2)) :
                                        /\ Kind(Decl[d].ty[3]) = "fn"
                                        /\ Related(t1, Decl[d].ty[3][2], "Conversion")

\* The line of systems a solution comes from.
Line(id) == Range(Ancestors(id))
Asked(id) == UNION {systems[s].asked : s \in Line(id)}
Resolved(id) == UNION {systems[s].resolved : s \in Line(id)}

\* The types a solution gives the variables.
Solution(id) ==
    [v \in DOMAIN bind |->
        IF \E x \in systems[id].info : x[1] = v
        THEN FixedTo((CHOOSE x \in systems[id].info : x[1] = v)[2]) ELSE Parent(v)]

LookedUp == {"decl", "index", "identity"}

\* Whether a constraint holds under a solution; a member constraint, when what
\* it looked up was resolved to one choice.
Satisfied(c, b, resolved) ==
    LET first  == SimplifyType(b, c.first)
        second == SimplifyType(b, c.second)
    IN  IF HasTypeVariable(first) \/ HasTypeVariable(second) THEN TRUE ELSE
        CASE c.kind = "Literal"     -> IsLiteralCompatible(first, c.name)
          [] c.kind = "Archetype"   -> Kind(RValue(first)) = "arch"
          [] c.kind = "ValueMember" ->
                Cardinality({r \in resolved :
                               /\ sets[r[1]].bound = c.second
                               /\ sets[r[1]].choices[r[2]].kind \in LookedUp}) = 1
          [] OTHER -> Related(first, second, c.kind)

-----------------------------------------------------------------------------
(* Properties                                                              *)

\* Variables are bound to types of known kinds or to older variables; what the
\* stack, the children and the overload sets refer to exists.
TypeOK ==
    /\ \A v \in DOMAIN bind : bind[v][1] = "rep" => bind[v][2] \in 1..v
    /\ \A s \in DOMAIN systems :
          /\ systems[s].parent \in 0..s-1
          /\ systems[s].state \in {"Active", "Solved", "Unsolvable"}
          /\ systems[s].active \in Nat
          /\ Range(systems[s].children) \subseteq s+1..Len(systems)
          /\ Range(systems[s].ovls) \subseteq DOMAIN sets
          /\ Range(systems[s].tvs) \subseteq DOMAIN bind
    /\ \A i \in DOMAIN stack : stack[i].system \in DOMAIN systems
    /\ cur \in DOMAIN systems

\* Every solution satisfies every constraint its systems were ever given, those
\* deferred, solved on the side or inherited included: solve() loses none.
SolutionsSatisfy ==
    \A id \in Range(viable) : \A c \in Asked(id) :
        Satisfied(c, Solution(id), Resolved(id))

\* When the search comes back to a system, every variable means what it meant
\* when the system was put on the stack; after the search all are free again.
BindingsRestored ==
    /\ At1("search") /\ stack # << >> =>
          \A v \in DOMAIN Top.under :
              SimplifyType(bind, TV(v)) = SimplifyType(Top.under, TV(v))
    /\ At1("rank") => \A v \in DOMAIN bind : bind[v] = Fresh(v)

\* Between two systems, NumActiveChildren of each is the number of its children
\* that are not unsolvable, and no system a solution hangs from was deleted.
ChildrenAccounted ==
    At1("search") \/ At1("rank") =>
        /\ \A p \in DOMAIN systems :
              systems[p].active =
                Cardinality({s \in DOMAIN systems : systems[s].parent = p
                                                      /\ systems[s].state # "Unsolvable"})
        /\ \A id \in Range(viable) : \A s \in Line(id) \ {1} :
              s \in Range(systems[systems[s].parent].children)

\* A solution leaves no variable open.
SolutionsAreComplete ==
    \A id \in Range(viable) : \A s \in Line(id) : \A v \in Range(systems[s].tvs) :
        ~HasTypeVariable(SimplifyType(Solution(id), TV(v)))

\* Every check of an expression ends.
SolverStops == <>Ended
===============================================================================
