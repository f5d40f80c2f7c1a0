------------------------------- MODULE MCIRGen -------------------------------
(***************************************************************************)
(* IRGen on every function of a small grammar: an if whose arms call,      *)
(* declare a variable or leave, alone, before a return and in the body of  *)
(* each kind of loop; each kind of loop in each other, with variables      *)
(* between them; for loops outside any other scope; and calls whose        *)
(* arguments are temporaries.                                              *)
(***************************************************************************)
EXTENDS IRGenRun

None == "none"
NoElse == [kind |-> "none"]

Temp(n, taken) == [name |-> n, taken |-> taken]
T3(x, y, z) == <<Temp("t1", x), Temp("t2", y), Temp("t3", z)>>
Temps == {"t1", "t2", "t3"}
Objects == {"p", "w", "w2", "x", "y", "z", "elem", "range", "elem2", "range2"} \cup Temps

Call1(n) == [kind |-> "call", id |-> n, temps |-> << >>]
CallWith(n, ts) == [kind |-> "call", id |-> n, temps |-> ts]
VarDecl(v) == [kind |-> "var", vars |-> <<v>>, temps |-> << >>]
VarsWith(vs, ts) == [kind |-> "var", vars |-> vs, temps |-> ts]
Brace(b) == [kind |-> "brace", body |-> b]
ReturnWith(r, ts) == [kind |-> "return", id |-> r, temps |-> ts]
Return(r) == ReturnWith(r, << >>)
If(t, e) == [kind |-> "if", cond |-> "c", then |-> t, else |-> e]

Jumps == {[kind |-> "break"], [kind |-> "continue"]}

Arms(exits) ==
    {Brace(<< >>), Brace(<<VarDecl("x"), Call1("a")>>)}
    \cup {Brace(<<e>>) : e \in exits}
    \cup {Brace(<<VarDecl("x"), e, Call1("a")>>) : e \in exits}

Ifs(exits) == {If(t, e) : t \in Arms(exits), e \in Arms(exits) \cup {NoElse}}

Bodies(exits) ==
    {Brace(<<VarDecl("y"), i, Call1("b")>>) : i \in Ifs(exits)} \cup Arms(exits)

Loops(bodies, cond, w, el, rg) ==
    {[kind |-> kd, cond |-> cond, body |-> b] : kd \in {"while", "dowhile"}, b \in bodies}
    \cup {[kind |-> "for", vars |-> <<w>>, init |-> "start", cond |-> cn,
           inc |-> ic, body |-> b] :
              cn \in {cond, None}, ic \in {"next", None}, b \in bodies}
    \cup {[kind |-> "foreach", range |-> <<rg>>, elem |-> <<el>>, cond |-> cond,
           body |-> b] : b \in bodies}

Func(stmts) == [params |-> <<"p">>, body |-> Brace(stmts), void |-> TRUE]
In(stmt) == Func(<<VarDecl("z"), stmt, Call1("d")>>)

Returns == {Return("r")}

IfPrograms == {Func(<<VarDecl("z"), i>>) : i \in Ifs(Returns)}
              \cup {In(i) : i \in Ifs(Returns \cup {Return(None)})}
              \cup {Func(<<VarDecl("z"), i, Return("r")>>) : i \in Ifs(Returns)}
LoopPrograms == {In(l) : l \in Loops(Bodies(Jumps \cup Returns), "more", "w", "elem", "range")}
Inner == Loops({Brace(<<VarDecl("x"), e>>) : e \in Jumps \cup Returns \cup {Call1("a")}}
               \cup {Brace(<<VarDecl("x"), If(Brace(<<e>>), NoElse)>>) : e \in Returns},
               "more2", "w2", "elem2", "range2")
NestedPrograms ==
    {In(l) : l \in Loops({Brace(<<VarDecl("y"), i, j>>) :
                             i \in {n \in Inner : n.kind # "for" \/ n.inc # None},
                             j \in {Call1("b"), [kind |-> "break"]}},
                         "more", "w", "elem", "range")}
TempPrograms ==
    {Func(<<VarsWith(<<"x", "y">>, T3(a, b, c)), CallWith("a", T3(a, b, c)),
            If(Brace(<<ReturnWith("r", T3(a, b, c))>>), NoElse), Call1("d")>>) :
        a, b, c \in BOOLEAN}
\* Loops whose body is the only scope: no parameters, no variables around it.
BarePrograms ==
    {[params |-> << >>, void |-> TRUE,
      body |-> Brace(<<[kind |-> "for", vars |-> << >>, init |-> None, cond |-> c,
                        inc |-> "next", body |-> Brace(<<VarDecl("y"), i>>)]>>)] :
        c \in {"more", None}, i \in Ifs({[kind |-> "break"]} \cup Returns)}

-----------------------------------------------------------------------------
\* A continue that leaves a do-while early, in s but not in a loop inside s.
RECURSIVE Continues(_)
Continues(s) ==
    CASE s.kind = "continue" -> TRUE
      [] s.kind = "brace" -> \E i \in DOMAIN s.body : Continues(s.body[i])
      [] s.kind = "if" -> Continues(s.then) \/ (s.else # NoElse /\ Continues(s.else))
      [] OTHER -> FALSE

RECURSIVE DoContinue(_)
DoContinue(s) ==
    CASE s.kind = "dowhile" -> Continues(s.body) \/ DoContinue(s.body)
      [] s.kind \in {"while", "for", "foreach"} -> DoContinue(s.body)
      [] s.kind = "brace" -> \E i \in DOMAIN s.body : DoContinue(s.body[i])
      [] s.kind = "if" -> DoContinue(s.then) \/ (s.else # NoElse /\ DoContinue(s.else))
      [] OTHER -> FALSE

AllPrograms == IfPrograms \cup LoopPrograms \cup NestedPrograms \cup TempPrograms \cup BarePrograms
Programs == {p \in AllPrograms : ~DoContinue(p.body)}
=============================================================================
