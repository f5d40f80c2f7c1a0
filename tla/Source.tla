-------------------------------- MODULE Source --------------------------------
(***************************************************************************)
(* What function bodies mean: the statements that SILGen and IRGen lower,  *)
(* and the execution of them that docs/LangRef.html describes.  This is    *)
(* the specification both lowerings are checked against.                   *)
(*                                                                         *)
(* A function is a record [params, body, void].  Its execution is a        *)
(* continuation k, the frames still to run, innermost first, and an        *)
(* environment env, the variables in scope, innermost last.  What a caller *)
(* of the function could observe are events: calls, tests and its end.     *)
(***************************************************************************)
EXTENDS Integers, SequencesExt

CONSTANTS
    NoStmt,     \* a null Stmt*: the missing else of an if
    NoName      \* a null Expr*: the missing condition or increment of a for

Visit(s) == [op |-> "visit", stmt |-> s]

\* temps: the owned temporaries a call makes for its arguments.  The callee
\* takes some of them; the others live until the end of the full-expression.
CallOf(name) == [kind |-> "call", id |-> name, temps |-> << >>]
Maybe(name) == IF name = NoName THEN << >> ELSE <<Visit(CallOf(name))>>

Leave(d) == [op |-> "leave", depth |-> d]
Loop(s, d) == [op |-> "loop", stmt |-> s, depth |-> d]

Event(op, id) == [op |-> op, id |-> id]

\* The next thing the source does that a caller could observe, or nothing yet.
Silent == Event("silent", NoName)
SourceEvent(k) ==
    IF k = << >> THEN Event("end", NoName) ELSE
    LET fr == Head(k) IN
    CASE fr.op = "visit" /\ fr.stmt.kind = "call" -> Event("apply", fr.stmt.id)
      [] fr.op = "visit" /\ fr.stmt.kind = "if" -> Event("condbr", fr.stmt.cond)
      [] fr.op = "visit" /\ fr.stmt.kind = "return" /\ fr.stmt.id # NoName ->
            Event("return", fr.stmt.id)
      [] fr.op = "loop" /\ fr.stmt.cond # NoName -> Event("condbr", fr.stmt.cond)
      [] OTHER -> Silent

\* One iteration of a loop, without the test.
Iteration(s, d) ==
    CASE s.kind = "for" -> <<Visit(s.body), [op |-> "inc", stmt |-> s, depth |-> d]>>
      [] s.kind = "foreach" ->
            <<Visit([kind |-> "var", vars |-> s.elem]), Visit(s.body), Leave(d)>>
      [] OTHER -> <<Visit(s.body)>>

\* Entering a loop: a do-while runs its body before the first test.
EnterLoop(s, d) ==
    CASE s.kind = "dowhile" -> <<Visit(s.body), Loop(s, d)>>
      [] s.kind = "for" ->
            <<Visit([kind |-> "var", vars |-> s.vars])>> \o Maybe(s.init)
            \o <<Loop(s, d + Len(s.vars)), Leave(d)>>
      [] s.kind = "foreach" ->
            <<Visit([kind |-> "var", vars |-> s.range]),
              Loop(s, d + Len(s.range)), Leave(d)>>
      [] OTHER -> <<Loop(s, d)>>

\* The frame a jump goes to: break ends the innermost loop, continue goes to
\* its increment if it has one, and to its test otherwise.
Target(k, kind) ==
    SelectInSeq(k, LAMBDA fr : fr.op = "loop" \/ (kind = "continue" /\ fr.op = "inc"))

\* The continuation and the environment after the next silent step.
SourceNext(k, env) ==
    LET fr == Head(k)
        s == fr.stmt
        d == Len(env)
        Go(frames, vs) == [k |-> frames \o Tail(k), env |-> vs]
    IN  CASE fr.op = "leave" -> Go(<< >>, SubSeq(env, 1, fr.depth))
          [] fr.op = "loop" -> Go(Iteration(s, d) \o <<fr>>, env)
          [] fr.op = "inc" -> Go(Maybe(s.inc), env)
          [] OTHER ->
                CASE s.kind = "var" -> Go(<< >>, env \o s.vars)
                  [] s.kind = "brace" ->
                        Go([i \in DOMAIN s.body |-> Visit(s.body[i])] \o <<Leave(d)>>, env)
                  [] s.kind \in {"while", "dowhile", "for", "foreach"} ->
                        Go(EnterLoop(s, d), env)
                  [] s.kind \in {"break", "continue"} ->
                        LET i == Target(k, s.kind) IN
                        [k |-> SubSeq(k, IF s.kind = "break" THEN i + 1 ELSE i, Len(k)),
                         env |-> SubSeq(env, 1, k[i].depth)]
                  [] s.kind = "return" -> [k |-> << >>, env |-> << >>]

\* The continuation after a condition came out as b.
AfterTest(k, env, b) ==
    LET fr == Head(k) IN
    IF fr.op = "visit"
    THEN (IF b THEN <<Visit(fr.stmt.then)>>
          ELSE IF fr.stmt.else = NoStmt THEN << >> ELSE <<Visit(fr.stmt.else)>>)
         \o Tail(k)
    ELSE IF b # (fr.stmt.kind = "foreach")   \* for-each tests for the empty range
         THEN Iteration(fr.stmt, Len(env)) \o k
         ELSE Tail(k)

=============================================================================
