------------------------------- MODULE MCSILGen -------------------------------
(***************************************************************************)
(* SILGen on every function of a small grammar: an if whose arms do        *)
(* nothing, call, declare a variable or leave, alone and in the body of    *)
(* each kind of loop; and each kind of loop in each kind of loop.          *)
(***************************************************************************)
EXTENDS SILRun

None == "none"              \* a null expression
NoElse == [kind |-> "none"]  \* a null statement

Calls == {"a", "b", "d", "next"}
Conds == {"c", "more", "more2"}
Vars  == {"p", "w", "w2", "x", "y", "z", "elem", "range", "elem2", "range2"}
Names == Calls \cup Conds \cup Vars \cup {"r", "start", None}

Call1(n) == [kind |-> "call", id |-> n]
VarDecl(v) == [kind |-> "var", vars |-> <<v>>]
Brace(b) == [kind |-> "brace", body |-> b]
Return(r) == [kind |-> "return", id |-> r]
If(t, e) == [kind |-> "if", cond |-> "c", then |-> t, else |-> e]

Jumps == {[kind |-> "break"], [kind |-> "continue"]}

\* What an arm of an if does: with or without calls, variables, a way out.
Arms(exits) ==
    {Brace(<< >>), Brace(<<Call1("a")>>), Brace(<<VarDecl("x"), Call1("a")>>)}
    \cup {Brace(<<e>>) : e \in exits}
    \cup {Brace(<<VarDecl("x"), e, Call1("a")>>) : e \in exits}

Ifs(exits) == {If(t, e) : t \in Arms(exits), e \in Arms(exits) \cup {NoElse}}

Bodies(exits) ==
    {Brace(<<VarDecl("y"), i, Call1("b")>>) : i \in Ifs(exits)} \cup Arms(exits)

Loops(bodies, cond, w, el, rg) ==
    {[kind |-> kd, cond |-> cond, body |-> b] : kd \in {"while", "dowhile"}, b \in bodies}
    \cup {[kind |-> "for", vars |-> <<w>>, init |-> "start", cond |-> cn,
           inc |-> ic, body |-> b] :
              cn \in {cond, None}, ic \in {"next", None}, b \in bodies}
    \cup {[kind |-> "foreach", range |-> <<rg>>, elem |-> <<el>>, cond |-> cond,
           body |-> b] : b \in bodies}

Func(stmts, void) == [params |-> <<"p">>, body |-> Brace(stmts), void |-> void]
In(stmt) == Func(<<VarDecl("z"), stmt, Call1("d")>>, TRUE)

Returns == {Return("r")}

IfPrograms == {Func(<<VarDecl("z"), i>>, v) : i \in Ifs(Returns), v \in BOOLEAN}
              \cup {In(i) : i \in Ifs(Returns)}
LoopPrograms == {In(l) : l \in Loops(Bodies(Jumps \cup Returns), "more", "w", "elem", "range")}
Inner == Loops({Brace(<<VarDecl("x"), e>>) : e \in Jumps \cup Returns \cup {Call1("a")}},
               "more2", "w2", "elem2", "range2")
NestedPrograms ==
    {In(l) : l \in Loops({Brace(<<VarDecl("y"), i, j>>) :
                             i \in {n \in Inner : n.kind # "for" \/ n.inc # None},
                             j \in {Call1("b"), [kind |-> "break"]}},
                         "more", "w", "elem", "range")}

-----------------------------------------------------------------------------
\* A continue that leaves a do-while early, in s but not in a loop inside s.
RECURSIVE Continues(_)
Continues(s) ==
    CASE s.kind = "continue" -> TRUE
      [] s.kind = "brace" -> \E i \in DOMAIN s.body : Continues(s.body[i])
      [] s.kind = "if" -> Continues(s.then) \/ (s.else # NoElse /\ Continues(s.else))
      [] OTHER -> FALSE

RECURSIVE DoContinue(_)
DoContinue(s) ==
    CASE s.kind = "dowhile" -> Continues(s.body) \/ DoContinue(s.body)
      [] s.kind \in {"while", "for", "foreach"} -> DoContinue(s.body)
      [] s.kind = "brace" -> \E i \in DOMAIN s.body : DoContinue(s.body[i])
      [] s.kind = "if" -> DoContinue(s.then) \/ (s.else # NoElse /\ DoContinue(s.else))
      [] OTHER -> FALSE

\* Whether the end of s is reachable, and whether a reachable break leaves the
\* loop s is the body of.
RECURSIVE Completes(_), Breaks(_)
Reached(body, i) == \A j \in 1 .. i - 1 : Completes(body[j])
Completes(s) ==
    CASE s.kind \in {"break", "continue", "return"} -> FALSE
      [] s.kind = "brace" -> Reached(s.body, Len(s.body) + 1)
      [] s.kind = "if" -> s.else = NoElse \/ Completes(s.then) \/ Completes(s.else)
      [] s.kind = "dowhile" -> Completes(s.body) \/ Breaks(s.body)
      [] OTHER -> TRUE
Breaks(s) ==
    CASE s.kind = "break" -> TRUE
      [] s.kind = "brace" ->
            \E i \in DOMAIN s.body : Reached(s.body, i) /\ Breaks(s.body[i])
      [] s.kind = "if" -> Breaks(s.then) \/ (s.else # NoElse /\ Breaks(s.else))
      [] OTHER -> FALSE

\* A reachable else arm whose end is not, a loop without a condition, or a
\* return without a value.
RECURSIVE Trips(_)
Trips(s) ==
    CASE s.kind = "return" -> s.id = None
      [] s.kind = "brace" ->
            \E i \in DOMAIN s.body : Reached(s.body, i) /\ Trips(s.body[i])
      [] s.kind = "if" ->
            Trips(s.then) \/ (s.else # NoElse /\ (Trips(s.else) \/ ~Completes(s.else)))
      [] s.kind = "for" -> s.cond = None \/ Trips(s.body)
      [] s.kind \in {"while", "dowhile", "foreach"} -> Trips(s.body)
      [] OTHER -> FALSE

\* With assertions, Condition::exitFalse and complete and the constructor of
\* ReturnInst stop the compiler on exactly the functions that contain one of
\* these shapes; all others are lowered.  The assertions of the visitors hold: a
\* statement, a condition or a jump is only visited at a reachable point, and
\* the true arm of an if that does not reach the continuation leaves it unused.
AssertionsTripExactly ==
    /\ failed # "no" => Trips(prog.body)
    /\ failed \in {"no", "zapped branch keeps block alive", "unused continuation ends unreachable",
                   "folded condition ends unreachable", "null return value"}
    /\ prog.asserts /\ Generated => ~Trips(prog.body)

\* A function and the build of the compiler that lowers it.
Built(functions, asserts) ==
    {[params |-> f.params, body |-> f.body, void |-> f.void, asserts |-> asserts] :
       f \in functions}

AllPrograms == IfPrograms \cup LoopPrograms \cup NestedPrograms
Lowered == {p \in AllPrograms : ~DoContinue(p.body)}
NullReturns == {Func(<<VarDecl("z"), i>>, TRUE) : i \in Ifs({Return(None)})}
Programs == Built(Lowered, FALSE) \cup Built(Lowered \cup NullReturns, TRUE)
DoContinuePrograms == Built({p \in LoopPrograms : DoContinue(p.body)}, FALSE)

-----------------------------------------------------------------------------
\* The statements of these functions, and those that leave no loop around them.
RECURSIVE Parts(_)
Parts(s) ==
    {s} \cup CASE s.kind = "brace" -> UNION {Parts(t) : t \in ToSet(s.body)}
               [] s.kind = "if" -> UNION {Parts(t) : t \in {s.then, s.else} \ {NoElse}}
               [] s.kind \in {"while", "dowhile", "foreach"} -> Parts(s.body)
               [] s.kind = "for" -> Parts(s.body)
                                   \cup {CallOf(c) : c \in {s.init, s.inc} \ {None}}
               [] OTHER -> {}

RECURSIVE LeavesLoop(_)
LeavesLoop(s) ==
    CASE s.kind \in {"break", "continue"} -> TRUE
      [] s.kind = "brace" -> \E t \in ToSet(s.body) : LeavesLoop(t)
      [] s.kind = "if" -> \E t \in {s.then, s.else} \ {NoElse} : LeavesLoop(t)
      [] OTHER -> FALSE

Statements == UNION {Parts(p.body) : p \in AllPrograms \cup NullReturns}
LoweredStatements == UNION {Parts(p.body) : p \in Lowered \cup NullReturns}

\* No continue belongs to a do-while in the functions that are lowered to what they
\* mean (NoDoContinue in SILMeaningProofs).
ASSUME LoweredAssumption ==
    LET T == {s \in LoweredStatements : ~Continues(s)}
    IN  ContinueFree(T) /\ \A s \in LoweredStatements : s.kind = "dowhile" => s.body \in T

\* The variables declared in a statement.
RECURSIVE DeclaredIn(_)
DeclaredIn(s) ==
    CASE s.kind = "var" -> ToSet(s.vars)
      [] s.kind = "brace" -> UNION {DeclaredIn(t) : t \in ToSet(s.body)}
      [] s.kind = "if" -> UNION {DeclaredIn(t) : t \in {s.then, s.else} \ {NoElse}}
      [] s.kind \in {"while", "dowhile"} -> DeclaredIn(s.body)
      [] s.kind = "for" -> ToSet(s.vars) \cup DeclaredIn(s.body)
      [] s.kind = "foreach" -> ToSet(s.range \o s.elem) \cup DeclaredIn(s.body)
      [] OTHER -> {}

Declarations == [s \in Statements |-> DeclaredIn(s)]
FreeStatements == {s \in Statements : ~LeavesLoop(s)}
LoweredDeclarations == [s \in LoweredStatements |-> DeclaredIn(s)]
LoweredFree == {s \in LoweredStatements : ~LeavesLoop(s)}
=============================================================================
