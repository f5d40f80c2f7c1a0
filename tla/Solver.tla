-------------------------------- MODULE Solver --------------------------------
(***************************************************************************)
(* ConstraintSystem::solve: the search over a stack of systems.  Each      *)
(* system popped is simplified, then takes steps until it is finished, or  *)
(* until it pushes itself under the children that resolve one of its       *)
(* overload sets or try bindings of one of its variables.  All systems     *)
(* work on the same type variables, so each puts back what it changed when *)
(* it is finished.                                                         *)
(***************************************************************************)
EXTENDS ConstraintGen, SolutionSteps, Ranking

CONSTANT Expressions    \* the expressions and assignments to check

VARIABLES
    pc,         \* where solve() is
    ret,        \* what called simplify(): "seed", "derived" or "step"
    existing,   \* the constraints the pass of simplify() has left
    stack,      \* systems to visit, each with the child to make of it
    tvcs,       \* TypeVariableConstraints, as collected
    bound,      \* how many of them bindDefinitiveTypeVariables has done
    foundAny,   \* whether it bound any
    viable      \* the solutions found

search == <<pc, ret, existing, stack, tvcs, bound, foundAny, viable>>
vars == <<core, walk, search>>

At1(where) == crash = "no" /\ todo = << >> /\ pc = where
Goto(where) == pc' = where
Keep == UNCHANGED <<sets, todo, cur, crash, walk>>

\* An entry of the stack; under, which the code does not have, is what the
\* variables were bound to when it was pushed.
Item(id) == [system |-> id, child |-> "none", set |-> 0, choice |-> 0, var |-> 0, type |-> Unit,
             under |-> bind]
OverloadItem(id, i, choice) == [Item(id) EXCEPT !.child = "overload", !.set = i, !.choice = choice]
BindingItem(id, b) == [Item(id) EXCEPT !.child = "binding", !.var = b[1], !.type = b[2]]

Init ==
    /\ \E e \in Expressions : code = e
    /\ at = 1 /\ types = << >> /\ closures = << >>
    /\ bind = << >> /\ systems = <<NewSystem(0, 0)>> /\ sets = << >>
    /\ todo = << >> /\ cur = 1 /\ crash = "no"
    /\ pc = "generate" /\ ret = "seed" /\ existing = << >> /\ stack = << >>
    /\ tvcs = << >> /\ bound = 0 /\ foundAny = FALSE /\ viable = << >>

Generate ==
    /\ pc = "generate" /\ Generating
    /\ UNCHANGED search

SimplifyConstraints == Simplifying /\ UNCHANGED <<walk, search>>

\* computeAssignDestType of what is no lvalue
RejectAssignment ==
    /\ At1("generate") /\ At("assign")
    /\ \E i \in DOMAIN Destinations : Kind(Seen(Destinations[i])) \notin {"lv", "tv"}
    /\ Goto("done")
    /\ UNCHANGED <<core, walk, ret, existing, stack, tvcs, bound, foundAny, viable>>

Generated ==
    /\ At1("generate") /\ at > Len(code)
    /\ Goto("pass") /\ ret' = "seed"
    /\ UNCHANGED <<core, walk, existing, stack, tvcs, bound, foundAny, viable>>

-----------------------------------------------------------------------------
(* simplify()                                                              *)
\* Mutant: solvedAny is left from the last pass.
StartPass_KeepsSolvedAny ==
    /\ At1("pass")
    /\ existing' = This.constraints
    /\ Become([This EXCEPT !.constraints = << >>])
    /\ Goto("each")
    /\ Keep /\ UNCHANGED <<bind, ret, stack, tvcs, bound, foundAny, viable>>

StartPass ==
    /\ At1("pass")
    /\ existing' = This.constraints
    /\ Become([This EXCEPT !.constraints = << >>, !.solvedAny = FALSE])
    /\ Goto("each")
    /\ Keep /\ UNCHANGED <<bind, ret, stack, tvcs, bound, foundAny, viable>>

SimplifyEach ==
    LET c == Head(existing) IN
    /\ At1("each") /\ existing # << >>
    /\ existing' = Tail(existing)
    /\ IF c \in This.ext THEN UNCHANGED <<todo, pc>>
       ELSE todo' = <<AddAgain(c)>> /\ Goto("added")
    /\ UNCHANGED <<bind, systems, sets, cur, crash, walk, ret, stack, tvcs, bound, foundAny, viable>>

NextConstraint ==
    /\ At1("added")
    /\ Goto(IF This.failed THEN "failed" ELSE "each")
    /\ UNCHANGED <<core, walk, ret, existing, stack, tvcs, bound, foundAny, viable>>

EndPass ==
    /\ At1("each") /\ existing = << >>
    /\ Become([This EXCEPT !.ext = {}])
    /\ Goto(IF This.solvedAny THEN "pass" ELSE "simplified")
    /\ Keep /\ UNCHANGED <<bind, ret, existing, stack, tvcs, bound, foundAny, viable>>

-----------------------------------------------------------------------------
(* What a system comes to                                                  *)
Ancestors(id) ==
    LET line[i \in 0..Len(systems)] ==
            IF i = 0 THEN << >> ELSE <<i>> \o line[systems[i].parent]
    IN  line[id]
TypeVariablesOf(id) ==
    FlattenSeq([i \in DOMAIN Ancestors(id) |-> systems[Ancestors(id)[i]].tvs])

\* hasFreeTypeVariables: the first representative that is free, or whose type
\* has variables, decides.
HasFreeTypeVariables(id) ==
    LET open == SelectSeq(TypeVariablesOf(id),
                          LAMBDA v : /\ Root(bind, v) = v
                                     /\ HasFixed(bind, v) =>
                                          HasTypeVariable(SimplifyType(bind, FixedType(bind, v))))
    IN  open # << >> /\ ~HasFixed(bind, open[1])

Exhausted(sys) == sys.constraints = << >> /\ sys.ovls = << >>

\* Mutant: a solved child without children is removed too.
RemoveInactiveChildren_Solved(s, id) ==
    [s EXCEPT ![id].children = SelectSeq(@, LAMBDA c : s[c].active > 0)]

RemoveInactiveChildren(s, id) ==
    [s EXCEPT ![id].children =
        SelectSeq(@, LAMBDA c : s[c].active > 0 \/ (s[c].children = << >> /\ s[c].state = "Solved"))]

\* restoreTypeVariableBindings of a system that is done with its children
Leave(s, b, id) ==
    /\ systems' = [RemoveInactiveChildren(s, id) EXCEPT ![id].saved = << >>]
    /\ bind' = Restore(b, s[id].saved)

MakeStandalone(sys) ==
    [sys EXCEPT !.state = "Solved", !.explored = {}, !.potential = << >>, !.ext = {},
                !.info = {<<v, FixedType(bind, v)>> :
                            v \in {w \in Range(TypeVariablesOf(cur)) : HasFixed(bind, w)}}]
ClearIntermediateData(sys) ==
    [sys EXCEPT !.explored = {}, !.potential = << >>, !.ext = {}, !.info = {}]

\* finalize, after markUnsolvable when the search gave the system up
Finalize(givenUp) ==
    LET solution   == Exhausted(This) /\ ~HasFreeTypeVariables(cur)
        unsolvable == MarkUnsolvable(systems, bind, cur)
        ends(s, b) == Leave(s, b, cur) /\ UNCHANGED <<sets, todo, cur, walk>>
    IN  \/ /\ ~givenUp /\ This.state = "Unsolvable"
           /\ ends(systems, bind) /\ UNCHANGED <<crash, viable>>
        \/ /\ ~givenUp /\ This.state = "Active" /\ This.active > 0
           /\ ends([systems EXCEPT ![cur] = ClearIntermediateData(@)], bind)
           /\ UNCHANGED <<crash, viable>>
        \/ /\ ~givenUp /\ This.state = "Active" /\ This.active = 0 /\ solution
           /\ ends([systems EXCEPT ![cur] = MakeStandalone(@)], bind)
           /\ viable' = Append(viable, cur) /\ UNCHANGED crash
        \/ /\ givenUp \/ (This.state = "Active" /\ This.active = 0 /\ ~solution)
           /\ ends(unsolvable.systems, unsolvable.bind)
           /\ UNCHANGED viable /\ Holds(unsolvable.ok, "NumActiveChildren > 0")

-----------------------------------------------------------------------------
(* What simplify() returns to                                              *)
StartSearch ==
    /\ At1("simplified") /\ ret = "seed"
    /\ stack' = <<Item(cur)>> /\ Goto("search")
    /\ UNCHANGED <<core, walk, ret, existing, tvcs, bound, foundAny, viable>>

FailAtTheTop ==
    /\ At1("failed") /\ ret = "seed"
    /\ Goto("done")
    /\ UNCHANGED <<core, walk, ret, existing, stack, tvcs, bound, foundAny, viable>>

\* createDerivedConstraintSystem keeps the child, or deletes it.
ChildSimplified ==
    /\ At1("simplified") /\ ret = "derived"
    /\ systems' = [systems EXCEPT ![This.parent].children = Append(@, cur)]
    /\ Goto("examine")
    /\ Keep /\ UNCHANGED <<bind, ret, existing, stack, tvcs, bound, foundAny, viable>>

\* Mutant: a child that failed leaves its bindings.
ChildFailed_KeepsBindings ==
    /\ At1("failed") /\ ret = "derived"
    /\ Become([This EXCEPT !.saved = << >>])
    /\ Goto("search")
    /\ Keep /\ UNCHANGED <<bind, ret, existing, stack, tvcs, bound, foundAny, viable>>

ChildFailed ==
    /\ At1("failed") /\ ret = "derived"
    /\ bind' = Restore(bind, This.saved)
    /\ Become([This EXCEPT !.saved = << >>])
    /\ Goto("search")
    /\ Keep /\ UNCHANGED <<ret, existing, stack, tvcs, bound, foundAny, viable>>

StepSimplified ==
    /\ At1("simplified") /\ ret = "step"
    /\ Goto("after")
    /\ UNCHANGED <<core, walk, ret, existing, stack, tvcs, bound, foundAny, viable>>

StepFailed ==
    /\ At1("failed") /\ ret = "step"
    /\ Finalize(FALSE) /\ Goto("search")
    /\ UNCHANGED <<ret, existing, stack, tvcs, bound, foundAny>>

-----------------------------------------------------------------------------
(* The next system of the stack                                            *)
Top == Last(stack)

Revisit ==
    /\ At1("search") /\ stack # << >> /\ Top.child = "none"
    /\ cur' = Top.system
    /\ stack' = Front(stack)
    /\ Goto("examine")
    /\ UNCHANGED <<bind, systems, sets, todo, crash, walk, ret, existing, tvcs, bound, foundAny,
                   viable>>

\* A child starts with its parent's constraints; the bindings the parent made
\* are in the variables.
Derive(child, call) ==
    LET parent == systems[Top.system] IN
    /\ systems' = Append([systems EXCEPT ![Top.system].active = @ + 1], child)
    /\ cur' = Len(systems) + 1
    /\ todo' = <<call>>
    /\ stack' = Front(stack)
    /\ Goto("pass") /\ ret' = "derived"
    /\ UNCHANGED <<bind, sets, crash, walk, existing, tvcs, bound, foundAny, viable>>

ChooseOverload ==
    LET parent == systems[Top.system] IN
    /\ At1("search") /\ stack # << >> /\ Top.child = "overload"
    /\ Derive([NewSystem(Top.system, 0) EXCEPT
                 !.constraints = parent.constraints,
                 !.ovls = RemoveAt(parent.ovls, Top.set)],
              ResolveSet(parent.ovls[Top.set], Top.choice))

TryBinding ==
    LET parent == systems[Top.system] IN
    /\ At1("search") /\ stack # << >> /\ Top.child = "binding"
    /\ Derive([NewSystem(Top.system, Top.var) EXCEPT
                 !.constraints = parent.constraints, !.ovls = parent.ovls],
              Add(Relate("Equal", TV(Top.var), Top.type)))

SearchEnds ==
    /\ At1("search") /\ stack = << >>
    /\ Goto("rank")
    /\ UNCHANGED <<core, walk, ret, existing, stack, tvcs, bound, foundAny, viable>>

Finished == This.active > 0 \/ Exhausted(This)

ExamineFinished ==
    /\ At1("examine") /\ Finished
    /\ Finalize(FALSE) /\ Goto("search")
    /\ UNCHANGED <<ret, existing, stack, tvcs, bound, foundAny>>

ExamineOpen ==
    /\ At1("examine") /\ ~Finished
    /\ Goto("step")
    /\ UNCHANGED <<core, walk, ret, existing, stack, tvcs, bound, foundAny, viable>>

-----------------------------------------------------------------------------
(* getNextSolutionStep and what solve() does with the step                  *)
NothingToDo ==
    /\ At1("step") /\ (This.failed \/ This.resolvedInChildren)
    /\ Goto("stuck")
    /\ UNCHANGED <<core, walk, ret, existing, stack, tvcs, bound, foundAny, viable>>

ExplorePending ==
    /\ At1("step") /\ ~This.failed /\ ~This.resolvedInChildren /\ This.potential # << >>
    /\ Goto("explore")
    /\ UNCHANGED <<core, walk, ret, existing, stack, tvcs, bound, foundAny, viable>>

CollectConstraintsForTypeVariables ==
    /\ At1("step") /\ ~This.failed /\ ~This.resolvedInChildren /\ This.potential = << >>
    /\ tvcs' = Collected /\ bound' = 0 /\ foundAny' = FALSE
    /\ bind' = CollectedBind
    /\ Become(Recorded(bind'))
    /\ Goto("definitive")
    /\ Keep /\ UNCHANGED <<ret, existing, stack, viable>>

\* bindDefinitiveTypeVariables: a variable with one possible type gets it, and
\* its constraints are solved.
BindDefinitive ==
    LET tvc == tvcs[bound + 1]
        type == CHOOSE t \in Suggested(tvc) : TRUE
        its == Constraints(tvc)
    IN  /\ At1("definitive") /\ bound < Len(tvcs)
        /\ bound' = bound + 1
        /\ IF Definitive(tvc)
           THEN /\ todo' = <<Add(Relate("Equal", TV(tvc.var), type))>>
                             \o [i \in DOMAIN its |-> AddSolved(its[i])]
                /\ foundAny' = TRUE
           ELSE UNCHANGED <<todo, foundAny>>
        /\ UNCHANGED <<bind, systems, sets, cur, crash, walk, pc, ret, existing, stack, tvcs, viable>>

Undecided == At1("definitive") /\ bound = Len(tvcs) /\ ~foundAny

SimplifyAgain ==
    /\ At1("definitive") /\ bound = Len(tvcs) /\ foundAny
    /\ Goto("pass") /\ ret' = "step"
    /\ UNCHANGED <<core, walk, existing, stack, tvcs, bound, foundAny, viable>>

\* The child of the first choice is made first.
ResolveOverloadSet ==
    LET i == OverloadSetToResolve
        n == Len(sets[This.ovls[i]].choices)
    IN  /\ Undecided /\ This.ovls # << >>
        /\ Become([This EXCEPT !.resolvedInChildren = TRUE])
        /\ stack' = stack \o <<Item(cur)>>
                          \o [j \in 1..n |-> OverloadItem(cur, i, n + 1 - j)]
        /\ Goto("search")
        /\ Keep /\ UNCHANGED <<bind, ret, existing, tvcs, bound, foundAny, viable>>

ResolveTypeVariable ==
    LET binding == BindingToTry(tvcs) IN
    /\ Undecided /\ This.ovls = << >>
    /\ IF binding = << >> THEN Goto("stuck") /\ UNCHANGED <<systems, crash>>
       ELSE /\ Holds(~binding[1].definitive, "Missing definitive result above?")
            /\ Become([This EXCEPT !.potential =
                         Append(@, <<binding[1].var, binding[1].type>>)])
            /\ Goto("explore")
    /\ UNCHANGED <<bind, sets, todo, cur, walk, ret, existing, stack, tvcs, bound, foundAny,
                   viable>>

ExploreBindings ==
    LET fresh(i) == /\ This.potential[i] \notin This.explored
                    /\ \A j \in 1..i-1 : This.potential[j] # This.potential[i]
        new == SelectSeq([i \in DOMAIN This.potential |-> i], fresh)
    IN  /\ At1("explore")
        /\ Become([This EXCEPT !.potential = << >>, !.explored = @ \cup Range(This.potential)])
        /\ stack' = stack \o <<Item(cur)>>
                          \o [i \in DOMAIN new |-> BindingItem(cur, This.potential[new[i]])]
        /\ Goto("search")
        /\ Keep /\ UNCHANGED <<bind, ret, existing, tvcs, bound, foundAny, viable>>

AfterStep ==
    /\ At1("after")
    /\ IF Exhausted(This) THEN Finalize(FALSE) /\ Goto("search")
       ELSE Goto("step") /\ UNCHANGED <<core, walk, viable>>
    /\ UNCHANGED <<ret, existing, stack, tvcs, bound, foundAny>>

\* No step is left.
OutOfIdeas ==
    /\ At1("stuck")
    /\ Finalize(~Exhausted(This)) /\ Goto("search")
    /\ UNCHANGED <<ret, existing, stack, tvcs, bound, foundAny>>

-----------------------------------------------------------------------------
\* What is not the one best solution is ambiguous.
Rank ==
    /\ At1("rank")
    /\ viable' = IF Len(viable) <= 1 THEN viable
                 ELSE IF FindBest(viable) # << >> THEN FindBest(viable) ELSE viable
    /\ Goto("done")
    /\ UNCHANGED <<core, walk, ret, existing, stack, tvcs, bound, foundAny>>

Searching ==
    \/ StartSearch \/ FailAtTheTop \/ ChildSimplified \/ ChildFailed \/ StepSimplified
    \/ StepFailed \/ Revisit \/ ChooseOverload \/ TryBinding \/ SearchEnds \/ ExamineFinished
    \/ ExamineOpen \/ AfterStep \/ OutOfIdeas \/ NothingToDo \/ ExplorePending
    \/ CollectConstraintsForTypeVariables \/ BindDefinitive \/ SimplifyAgain
    \/ ResolveOverloadSet \/ ResolveTypeVariable \/ ExploreBindings \/ Rank

Ended == pc = "done" \/ crash # "no"
Rest  == Ended /\ UNCHANGED vars

Next ==
    \/ Generate \/ RejectAssignment \/ Generated
    \/ SimplifyConstraints
    \/ StartPass \/ SimplifyEach \/ NextConstraint \/ EndPass
    \/ Searching
    \/ Rest

\* Weak fairness of Next, which has a step until the search has ended: one
\* thread runs solve().
Spec == Init /\ [][Next]_vars /\ ([]<>Ended \/ []<><<vars' # vars>>_vars)
===============================================================================
