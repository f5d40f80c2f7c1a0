--------------------------- MODULE ConstraintSystem ---------------------------
(***************************************************************************)
(* A constraint system of the type checker: its constraints and overload   *)
(* sets, and how one constraint is simplified.  simplifyConstraint and     *)
(* matchTypes recurse; here their pending calls are the sequence todo, the *)
(* next one first, and a step makes one call of matchTypes, addConstraint  *)
(* or resolveOverload.  All of it works for the system cur.                *)
(***************************************************************************)
EXTENDS SwiftTypes, TypeVariables

VARIABLES
    bind,       \* the ParentOrFixed of every type variable
    systems,    \* every constraint system ever made, the top-level one first
    sets,       \* every overload set: its bound type and its choices
    todo,       \* calls to make
    cur,        \* the system at work
    crash       \* the assertion that stopped the compiler, or "no"

core == <<bind, systems, sets, todo, cur, crash>>

This == systems[cur]

-----------------------------------------------------------------------------
(* Constraints                                                             *)
Relate(kind, t1, t2) == [kind |-> kind, first |-> t1, second |-> t2, name |-> ""]
LiteralOf(t, lit)    == [kind |-> "Literal", first |-> t, second |-> Unit, name |-> lit]
MemberIs(t, n, mt)   == [kind |-> "ValueMember", first |-> t, second |-> mt, name |-> n]
IsArchetype(t)       == [kind |-> "Archetype", first |-> t, second |-> Unit, name |-> ""]

Strength == [Bind |-> 0, Equal |-> 1, EqualRvalue |-> 2, TrivialSubtype |-> 3,
             Subtype |-> 4, Conversion |-> 5, Construction |-> 6]
Relational == DOMAIN Strength
AtLeast(k, l) == Strength[k] >= Strength[l]

\* What the parts of a function type must satisfy.
SubKind(k) == CASE k = "Subtype"      -> "TrivialSubtype"
                [] k = "Conversion"   -> "Subtype"
                [] k = "Construction" -> "Conversion"
                [] OTHER              -> k

\* Variables, constraints and sets are those it made or left; saved is its
\* record of bindings, info what makeStandalone keeps; asked, which the code
\* does not have, is every constraint it was ever given.
NewSystem(parent, assumed) ==
    [parent |-> parent, assumed |-> assumed, failed |-> FALSE, state |-> "Active",
     constraints |-> << >>, ext |-> {}, ovls |-> << >>, active |-> 0,
     resolvedInChildren |-> FALSE, explored |-> {}, potential |-> << >>, resolved |-> {},
     tvs |-> << >>, children |-> << >>, saved |-> << >>, info |-> {}, solvedAny |-> FALSE,
     asked |-> {}]

-----------------------------------------------------------------------------
(* Calls                                                                   *)
Add(c)          == [do |-> "add", c |-> c, ext |-> FALSE, loop |-> FALSE]
AddSolved(c)    == [Add(c) EXCEPT !.ext = TRUE]
AddAgain(c)     == [Add(c) EXCEPT !.loop = TRUE]
End(add)        == [add EXCEPT !.do = "end"]
Match(t1, t2, k, gen) == [do |-> "match", t1 |-> t1, t2 |-> t2, k |-> k, gen |-> gen]
ResolveSet(set, i) == [do |-> "resolve", set |-> set, choice |-> i]

Call == Head(todo)
Pending(do) == crash = "no" /\ todo # << >> /\ Call.do = do
Then(calls) == todo' = calls \o Tail(todo)

\* The end of the constraint the pending call belongs to.
EndOfConstraint == CHOOSE i \in DOMAIN todo :
                       todo[i].do = "end" /\ \A j \in 1..i-1 : todo[j].do # "end"
Constraint == todo[EndOfConstraint]
LeaveConstraint == todo' = SubSeq(todo, EndOfConstraint + 1, Len(todo))

-----------------------------------------------------------------------------
(* Type variables under constraints                                        *)
FreshVariables(n) == [i \in 1..n |-> Len(bind) + i]
WithVariables(b, n) == b \o [i \in 1..n |-> Fresh(Len(b) + i)]

\* The new table and, of the system at work, the record of what it changed.
Recorded(b) == [This EXCEPT !.saved = @ \o Changes(bind, b)]
Owning(sys, n) == [sys EXCEPT !.tvs = @ \o FreshVariables(n)]
Become(sys) == systems' = [systems EXCEPT ![cur] = sys]

\* simplifyType; a variable that is already being substituted stays.
RECURSIVE SimplifyIn(_, _, _)
SimplifyIn(b, t, busy) ==
    Replace(t, [u \in {TV(v) : v \in VariablesOf(t)} |->
                  LET v == Root(b, u[2]) IN
                  IF b[v][1] = "fix" /\ v \notin busy
                  THEN SimplifyIn(b, b[v][2], busy \cup {v})
                  ELSE TV(v)])
SimplifyType(b, t) == SimplifyIn(b, t, {})

\* The variables whose representative it asks for.
RECURSIVE ConsultedIn(_, _, _)
ConsultedIn(b, t, busy) ==
    VariablesOf(t) \cup
    UNION {ConsultedIn(b, FixedType(b, v), busy \cup {Root(b, v)}) :
             v \in {w \in VariablesOf(t) : HasFixed(b, w) /\ Root(b, w) \notin busy}}
Consulted(b, t) == CompressAll(b, ConsultedIn(b, t, {}))

-----------------------------------------------------------------------------
(* Unsolvable systems                                                      *)
LiteralsOn(sys, b, v) ==
    SelectSeq(sys.constraints,
              LAMBDA c : c.kind = "Literal" /\ IsTV(c.first) /\ Root(b, c.first[2]) = v)

LiteralVariables(sys) ==
    {c.first[2] : c \in {d \in Range(sys.constraints) : d.kind = "Literal" /\ IsTV(d.first)}}

\* The weaker types not tried for v, now that the one it has did not work out.
UntriedSupertypes(parent, b, v) ==
    SelectSeq(EnumerateDirectSupertypes(FixedType(b, v)),
              LAMBDA t : <<v, t>> \notin parent.explored)
UntriedDefaults(parent, b, v) ==
    LET literals == SelectSeq(LiteralsOn(parent, b, v),
                              LAMBDA c : /\ c.name \in DOMAIN DefaultLiteral
                                         /\ <<v, DefaultLiteral[c.name]>> \notin parent.explored)
    IN  [i \in DOMAIN literals |-> DefaultLiteral[literals[i].name]]

\* ConstraintSystem::markChildInactive: the parent looks for weaker
\* assumptions while the child's bindings are still in force.
MarkChildInactive(s, b, id) ==
    LET p      == s[id].parent
        v      == s[id].assumed
        seen   == IF v = 0 THEN b ELSE CompressToFixed(b, v)
        supers == UntriedSupertypes(s[p], seen, v)
        after  == IF v = 0 \/ supers # << >> THEN seen
                  ELSE CompressAll(seen, LiteralVariables(s[p]))
        weaker == IF v = 0 THEN << >>
                  ELSE IF supers # << >> THEN supers ELSE UntriedDefaults(s[p], after, v)
    IN  [systems |-> [s EXCEPT
            ![id].saved = @ \o Changes(b, seen),
            ![p] = [@ EXCEPT !.active = @ - 1,
                             !.potential = @ \o [i \in DOMAIN weaker |-> <<v, weaker[i]>>],
                             !.saved = @ \o Changes(seen, after)]],
         bind |-> after,
         ok   |-> s[p].active > 0]

\* ConstraintSystem::markUnsolvable
MarkUnsolvable(s, b, id) ==
    LET marked == [s EXCEPT ![id].state = "Unsolvable"] IN
    IF s[id].parent = 0 THEN [systems |-> marked, bind |-> b, ok |-> TRUE]
    ELSE MarkChildInactive(marked, b, id)

Holds(p, what) == crash' = IF p THEN "no" ELSE what

\* The end of a constraint that cannot hold, over a table that reads changed.
Fail(b) ==
    LET m == MarkUnsolvable([systems EXCEPT ![cur] = [Recorded(b) EXCEPT !.failed = TRUE]],
                            b, cur)
    IN  /\ LeaveConstraint
        /\ IF This.failed
           THEN Become(Recorded(b)) /\ bind' = b /\ crash' = "no"
           ELSE systems' = m.systems /\ bind' = m.bind /\ Holds(m.ok, "NumActiveChildren > 0")
===============================================================================
