-------------------------------- MODULE SILGen --------------------------------
(***************************************************************************)
(* Lowering of a function body to SIL: the statement visitors of           *)
(* lib/SIL/SILGen/SILGenStmt.cpp, the Condition object that joins the arms *)
(* of a branch, the cleanup stack and its scopes, pattern bindings and the *)
(* end of the function.                                                    *)
(*                                                                         *)
(* The recursion of the visitors is the stack todo: a frame is the part of *)
(* a visitor between two recursive calls, and one action runs one frame.   *)
(* A Scope destructor is the frame "endScope" pushed when the scope opens. *)
(***************************************************************************)
EXTENDS SILBuilder, Source

CONSTANTS
    Program,    \* the functions to lower (see Source), each with asserts: TRUE in a
                \* compiler built with assertions, FALSE under NDEBUG
    LoopStmt,   \* the statements in them
    FreeStmt    \* those of them that may stand outside every loop

\* A statement made of statements in S; the body of a loop is one of inside.
Made(s, S, inside, free) ==
    \/ s.kind \in {"call", "return"} /\ s.id \in Name
    \/ s.kind = "var" /\ s.vars \in Seq(Name)
    \/ s.kind = "brace" /\ s.body \in Seq(S)
    \/ s.kind = "if" /\ s.cond \in Name /\ s.then \in S /\ s.else \in S \cup {NoStmt}
    \/ s.kind \in {"while", "dowhile"} /\ s.cond \in Name \ {NoName} /\ s.body \in inside
    \/ /\ s.kind = "for" /\ s.vars \in Seq(Name) /\ s.cond \in Name /\ s.body \in inside
       /\ \A call \in {s.init, s.inc} \ {NoName} : CallOf(call) \in free
    \/ /\ s.kind = "foreach" /\ s.range \in Seq(Name) /\ s.elem \in Seq(Name)
       /\ s.cond \in Name \ {NoName} /\ s.body \in inside

\* Statements that may stand inside a loop, and those that may stand anywhere.
Grammar(inside, free) ==
    /\ free \subseteq inside
    /\ \A s \in inside : s.kind \in {"break", "continue"} \/ Made(s, inside, inside, free)
    /\ \A s \in free : Made(s, free, inside, free)

\* What the type checker lets through to SILGen: a break or a continue is inside a
\* loop (StmtChecker::visitBreakStmt and visitContinueStmt).
ASSUME StatementAssumption == Grammar(LoopStmt, FreeStmt) /\ NoName \in Name

\* The body of a function is a brace statement.
ASSUME ProgramAssumption ==
    \A p \in Program : /\ p.params \in Seq(Name)
                       /\ p.body \in FreeStmt /\ p.body.kind = "brace"
                       /\ {p.void, p.asserts} \subseteq BOOLEAN

VARIABLES
    prog,           \* the function being lowered
    todo,           \* frames still to run, innermost first
    cleanups,       \* CleanupManager::Stack: allocated variables, top last
    breakDests,     \* BreakDestStack and ContinueDestStack: JumpDests,
    continueDests,  \* top last
    failed          \* the assertion or null dereference that ended the compiler

genVars == <<fn, prog, todo, cleanups, breakDests, continueDests, failed>>

Plain(op, name) == [op |-> op, id |-> name, succs |-> << >>]
Emit(f, op, name) == Insert(f, Plain(op, name))
Jump(f, b) == CreateBranch(f, NoName, b)
Start(f, b) == EmitBlock(f, NoName, b)
\* Mutants: an unused block stays in the function; a used one is deleted.
EmitOrDelete_KeepsUnused(f, b) == IF PredEmpty(f, b) THEN f ELSE Start(f, b)
EmitOrDelete_DeletesUsed(f, b) == EraseBlock(f, b)
EmitOrDelete(f, b) == IF PredEmpty(f, b) THEN EraseBlock(f, b) ELSE Start(f, b)

\* emitCondition creates the continuation block, the true block and, with
\* false code, the false block, in that order, then branches on the condition.
CondBlocks(f, hasFalse) ==
    [true  |-> f.n + 2,
     false |-> IF hasFalse THEN f.n + 3 ELSE NoBlock,
     cont  |-> f.n + 1]
\* Mutant: the inverted condition of for-each is branched on as it is.
EmitCondition_NeverInverts(f, cond, hasFalse, invert) ==
    LET c == CondBlocks(f, hasFalse)
        two == NewBlock(NewBlock(f))
        all == IF hasFalse THEN NewBlock(two) ELSE two
    IN  CreateCondBranch(all, cond, c.true, IF hasFalse THEN c.false ELSE c.cont)
EmitCondition(f, cond, hasFalse, invert) ==
    LET c == CondBlocks(f, hasFalse)
        two == NewBlock(NewBlock(f))
        all == IF hasFalse THEN NewBlock(two) ELSE two
        otherwise == IF hasFalse THEN c.false ELSE c.cont
    IN  IF invert THEN CreateCondBranch(all, cond, otherwise, c.true)
                  ELSE CreateCondBranch(all, cond, c.true, otherwise)

\* Condition(LoopBB, 0, 0), for a loop without a condition: enterTrue and
\* exitTrue do nothing.
Always(loop) == [true |-> loop, false |-> NoBlock, cont |-> NoBlock]

EnterTrue(f, c) == IF c.cont = NoBlock THEN f ELSE Start(f, c.true)
ExitTrue(f, c) ==
    IF c.cont = NoBlock \/ ~HasValidIP(f) THEN f ELSE Jump(f, c.cont)

\* Mutant: the memory is released before the value in it is destroyed.
EmitCleanup_Swapped(f, v) == Emit(Emit(f, "dealloc", v), "destroy", v)

\* CleanupVar::emit.
EmitCleanup(f, v) == Emit(Emit(f, "destroy", v), "dealloc", v)

SILGenInit ==
    /\ fn = EmptyFunction
    /\ prog \in Program
    /\ todo = << [op |-> "bind", vars |-> prog.params],    \* emitProlog
                 [op |-> "visit", stmt |-> prog.body] >>
    /\ cleanups = << >>
    /\ breakDests = << >>
    /\ continueDests = << >>
    /\ failed = "no"

-----------------------------------------------------------------------------
Running(op) == failed = "no" /\ todo # << >> /\ Head(todo).op = op
Visiting(kind) == Running("visit") /\ Head(todo).stmt.kind = kind
Frame == Head(todo)
Stmt  == Head(todo).stmt

Then(frames) == todo' = frames \o Tail(todo)
Depth == Len(cleanups)

SameCleanups == UNCHANGED cleanups
SameDests == UNCHANGED <<breakDests, continueDests>>
Fine == failed' = "no" /\ UNCHANGED prog

\* An assertion that does not hold ends the compiler, unless it is compiled out.
Abort(what) ==
    /\ failed' = what
    /\ UNCHANGED <<fn, prog, todo, cleanups, breakDests, continueDests>>
Require(p, what, step) ==
    \/ prog.asserts /\ ~p /\ Abort(what)
    \/ (~prog.asserts \/ p) /\ step

Scoped(frames) == frames \o << [op |-> "endScope", depth |-> Depth] >>
Bind(vs) == [op |-> "bind", vars |-> vs]

\* An expression statement: a call, whose temporaries need no cleanup.
VisitExpr ==
    /\ Visiting("call")
    /\ fn' = Emit(fn, "apply", Stmt.id)
    /\ Then(<< >>)
    /\ SameCleanups /\ SameDests /\ Fine

VisitPatternBinding ==
    /\ Visiting("var")
    /\ Then(<<Bind(Stmt.vars)>>)
    /\ UNCHANGED fn /\ SameCleanups /\ SameDests /\ Fine

\* InitPatternWithExpr::visitNamedPattern for the next variable of a pattern.
BindVar ==
    /\ Running("bind")
    /\ \/ /\ Frame.vars = << >>
          /\ Then(<< >>)
          /\ UNCHANGED fn /\ SameCleanups
       \/ /\ Frame.vars # << >>
          /\ LET v == Head(Frame.vars) IN
                /\ fn' = Emit(Emit(fn, "alloc", v), "init", v)
                /\ cleanups' = Append(cleanups, v)
          /\ Then(<<Bind(Tail(Frame.vars))>>)
    /\ SameDests /\ Fine

VisitBrace ==
    /\ Visiting("brace")
    /\ Then(Scoped(<<[op |-> "brace", rest |-> Stmt.body, first |-> TRUE]>>))
    /\ UNCHANGED fn /\ SameCleanups /\ SameDests /\ Fine

\* Mutant: the elements after a jump are visited too.
BraceEnds_OnlyAtEnd == Frame.rest = << >>
BraceEnds == Frame.rest = << >> \/ (~Frame.first /\ ~HasValidIP(fn))

\* The element loop of visitBraceStmt.  It stops after a statement that leaves
\* no insertion point, so the rest of the brace is dead code.
BraceElement ==
    /\ Running("brace")
    /\ \/ BraceEnds /\ Then(<< >>) /\ Fine /\ UNCHANGED <<fn, cleanups>> /\ SameDests
       \/ /\ ~BraceEnds
          /\ Require(HasValidIP(fn), "brace element without insertion point",
                /\ Then(<<Visit(Head(Frame.rest)),
                          [op |-> "brace", rest |-> Tail(Frame.rest),
                           first |-> FALSE]>>)
                /\ UNCHANGED fn /\ SameCleanups /\ SameDests /\ Fine)

\* Mutant: a scope that ends in unreachable code does not pop its cleanups.
EndScope_OnlyReachable ==
    /\ Running("endScope")
    /\ \/ /\ Depth = Frame.depth
          /\ Then(<< >>)
          /\ UNCHANGED fn /\ SameCleanups
       \/ /\ Depth > Frame.depth
          /\ fn' = EmitCleanup(fn, cleanups[Depth])
          /\ cleanups' = IF HasValidIP(fn) THEN SubSeq(cleanups, 1, Depth - 1) ELSE cleanups
          /\ UNCHANGED todo
    /\ SameDests /\ Fine

\* Scope::popImpl and CleanupManager::endScope: pop and emit the top cleanup
\* until the depth of the scope is reached.  Unreachable code gets no cleanups.
EndScope ==
    /\ Running("endScope")
    /\ \/ /\ Depth = Frame.depth
          /\ Then(<< >>)
          /\ UNCHANGED fn /\ SameCleanups
       \/ /\ Depth > Frame.depth
          /\ fn' = EmitCleanup(fn, cleanups[Depth])
          /\ cleanups' = SubSeq(cleanups, 1, Depth - 1)
          /\ UNCHANGED todo
    /\ SameDests /\ Fine

\* visitReturnStmt: a result is evaluated and returned.  Without one, the
\* constructor of ReturnInst reads the type of a null Value.
VisitReturn ==
    /\ Visiting("return")
    /\ \/ Stmt.id = NoName /\ Abort("null return value")
       \/ /\ Stmt.id # NoName
          /\ fn' = CreateExit(fn, "return", Stmt.id)
          /\ Then(<< >>)
          /\ SameCleanups /\ SameDests /\ Fine

\* visitBreakStmt and visitContinueStmt start emitBranchAndCleanups.
VisitJump ==
    /\ Visiting("break") \/ Visiting("continue")
    /\ LET dests == IF Stmt.kind = "break" THEN breakDests ELSE continueDests
           dest  == dests[Len(dests)]
       IN  Require(HasValidIP(fn), "branch without insertion point",
               /\ Then(<<[op |-> "branch", dest |-> dest, top |-> Depth]>>)
               /\ UNCHANGED fn /\ SameCleanups /\ SameDests /\ Fine)

\* The loop of emitBranchAndCleanups: emit every cleanup above the depth of the
\* destination, innermost first, without popping it, then branch.
ThreadCleanup ==
    /\ Running("branch")
    /\ \/ /\ Frame.top > Frame.dest.depth
          /\ fn' = EmitCleanup(fn, cleanups[Frame.top])
          /\ Then(<<[Frame EXCEPT !.top = @ - 1]>>)
       \/ /\ Frame.top <= Frame.dest.depth
          /\ fn' = Jump(fn, Frame.dest.block)
          /\ Then(<< >>)
    /\ SameCleanups /\ SameDests /\ Fine

-----------------------------------------------------------------------------
(* if *)

VisitIf ==
    /\ Visiting("if")
    /\ LET hasFalse == Stmt.else # NoStmt
           c == CondBlocks(fn, hasFalse)
       IN  Require(HasValidIP(fn), "condition without insertion point",
               /\ fn.n + (IF hasFalse THEN 3 ELSE 2) <= MaxBlock
               /\ fn' = EnterTrue(EmitCondition(fn, Stmt.cond, hasFalse, FALSE), c)
               /\ Then(<<Visit(Stmt.then),
                         [op |-> "ifTrueExit", cond |-> c, else |-> Stmt.else]>>)
               /\ SameCleanups /\ SameDests /\ Fine)

\* exitTrue, then enterFalse if there is an else.
IfTrueExit ==
    /\ Running("ifTrueExit")
    /\ LET c == Frame.cond
           f == ExitTrue(fn, c)
           unused == PredEmpty(fn, c.cont) \/ c.false = NoBlock
       IN  Require(HasValidIP(fn) \/ unused, "continuation block used",
             \/ /\ c.false # NoBlock
                /\ fn' = Start(f, c.false)
                /\ Then(<<Visit(Frame.else), [op |-> "ifFalseExit", cond |-> c]>>)
                /\ SameCleanups /\ SameDests /\ Fine
             \/ /\ c.false = NoBlock
                /\ fn' = f
                /\ Then(<<[op |-> "complete", cond |-> c]>>)
                /\ SameCleanups /\ SameDests /\ Fine)

\* Condition::exitFalse.  When only the true case reaches the continuation
\* block, the branch to it is zapped and emission goes on before it; zapping
\* does not clear the predecessor list (see EraseTerminator).
IfFalseExit ==
    /\ Running("ifFalseExit")
    /\ LET cont == Frame.cond.cont
           pred == Head(fn.preds[cont])
           zapped == [EraseTerminator(fn, pred) EXCEPT !.ip = pred]
           done == Then(<<[op |-> "complete", cond |-> Frame.cond]>>)
                   /\ SameCleanups /\ SameDests /\ Fine
       IN  \/ PredEmpty(fn, cont) /\ UNCHANGED fn /\ done
           \/ /\ ~PredEmpty(fn, cont) /\ ~HasValidIP(fn)
              /\ Require(/\ Len(fn.preds[cont]) = 1
                        /\ PredEmpty(zapped, cont), "zapped branch keeps block alive",
                        fn' = zapped /\ done)
           \/ ~PredEmpty(fn, cont) /\ HasValidIP(fn) /\ fn' = Jump(fn, cont) /\ done

\* Condition::complete.
Complete ==
    /\ Running("complete")
    /\ LET cont == Frame.cond.cont
           done == Then(<< >>) /\ SameCleanups /\ SameDests /\ Fine
       IN  \/ /\ cont = NoBlock
              /\ Require(HasValidIP(fn), "folded condition ends unreachable",
                        UNCHANGED fn /\ done)
           \/ /\ cont # NoBlock /\ PredEmpty(fn, cont)
              /\ Require(HasValidIP(fn), "unused continuation ends unreachable",
                        fn' = EraseBlock(fn, cont) /\ done)
           \/ cont # NoBlock /\ ~PredEmpty(fn, cont) /\ fn' = Start(fn, cont) /\ done

-----------------------------------------------------------------------------
(* Loops *)

\* Mutant: the depth of a destination is that of the function.
PushDests_OutermostDepth(break, continue) ==
    /\ breakDests' = Append(breakDests, [block |-> break, depth |-> 0])
    /\ continueDests' = Append(continueDests, [block |-> continue, depth |-> 0])
PushDests(break, continue) ==
    /\ breakDests' = Append(breakDests, [block |-> break, depth |-> Depth])
    /\ continueDests' = Append(continueDests, [block |-> continue, depth |-> Depth])

\* The tail all loops share: join the condition, emit the end block if a break
\* reached it, pop the destinations.
Finally(c, end) == << [op |-> "complete", cond |-> c],
                      [op |-> "endLoop", end |-> end] >>

\* The loop block started, then the n blocks after it created.
LoopHead(n) ==
    LET started == NewBlock(Start(NewBlock(fn), NextBlock(fn)))
    IN  IF n = 1 THEN started ELSE NewBlock(started)

VisitWhile ==
    /\ Visiting("while")
    /\ fn.n + 4 <= MaxBlock
    /\ \E head \in {LoopHead(1)} :
          LET loop == NextBlock(fn)
              c == CondBlocks(head, FALSE)
          IN  /\ fn' = EnterTrue(EmitCondition(head, Stmt.cond, FALSE, FALSE), c)
              /\ PushDests(loop + 1, loop)
              /\ Then(<<Visit(Stmt.body),
                        [op |-> "loopBack", loop |-> loop, cond |-> c]>>
                      \o Finally(c, loop + 1))
    /\ SameCleanups /\ Fine

\* The end of a while or for-each body: back to the header, then exitTrue.
LoopBack ==
    /\ Running("loopBack")
    /\ fn' = ExitTrue(IF HasValidIP(fn) THEN Jump(fn, Frame.loop) ELSE fn, Frame.cond)
    /\ Then(<< >>)
    /\ SameCleanups /\ SameDests /\ Fine

EndLoop ==
    /\ Running("endLoop")
    /\ fn' = EmitOrDelete(fn, Frame.end)
    /\ breakDests' = SubSeq(breakDests, 1, Len(breakDests) - 1)
    /\ continueDests' = SubSeq(continueDests, 1, Len(continueDests) - 1)
    /\ Then(<< >>)
    /\ SameCleanups /\ Fine

VisitDoWhile ==
    /\ Visiting("dowhile")
    /\ fn.n + 2 <= MaxBlock
    /\ LET loop == NextBlock(fn) IN
          /\ fn' = NewBlock(Start(NewBlock(fn), loop))
          /\ PushDests(loop + 1, loop)
          /\ Then(<<Visit(Stmt.body),
                    [op |-> "doCondition", loop |-> loop, cond |-> Stmt.cond]>>)
    /\ SameCleanups /\ Fine

\* The condition of a do-while is emitted only if the end of the body is
\* reachable; its true block does nothing but go back.
DoCondition ==
    /\ Running("doCondition")
    /\ LET c == CondBlocks(fn, FALSE)
           enter == EnterTrue(EmitCondition(fn, Frame.cond, FALSE, FALSE), c)
           end == Frame.loop + 1
       IN  \/ /\ HasValidIP(fn)
              /\ fn.n + 2 <= MaxBlock
              /\ fn' = ExitTrue(Jump(enter, Frame.loop), c)
              /\ Then(Finally(c, end))
           \/ /\ ~HasValidIP(fn)
              /\ UNCHANGED fn
              /\ Then(<<[op |-> "endLoop", end |-> end]>>)
    /\ SameCleanups /\ SameDests /\ Fine

\* The initializer: variables, then a call, in a scope of their own.
VisitFor ==
    /\ Visiting("for")
    /\ Then(Scoped(<<Bind(Stmt.vars)>> \o Maybe(Stmt.init)
                   \o <<[op |-> "forHead", stmt |-> Stmt]>>))
    /\ UNCHANGED fn /\ SameCleanups /\ SameDests /\ Fine

ForHead ==
    /\ Running("forHead")
    /\ \/ ~HasValidIP(fn) /\ Then(<< >>) /\ UNCHANGED fn /\ SameDests
       \/ /\ HasValidIP(fn)
          /\ \E head \in {LoopHead(2)} :
             LET loop == NextBlock(fn)
                 inc == loop + 1
                 end == loop + 2
                 infinite == Stmt.cond = NoName
                 c == IF infinite THEN Always(loop) ELSE CondBlocks(head, FALSE)
             IN  /\ loop + 4 <= MaxBlock
                 /\ fn' = IF infinite THEN head
                          ELSE EnterTrue(EmitCondition(head, Stmt.cond, FALSE, FALSE), c)
                 /\ PushDests(end, inc)
                 /\ Then(<<Visit(Stmt.body),
                           [op |-> "forInc", inc |-> inc, call |-> Stmt.inc],
                           [op |-> "loopBack", loop |-> loop, cond |-> c]>>
                         \o Finally(c, end))
    /\ SameCleanups /\ Fine

\* The increment goes into the block continue branches to, if any does.
ForInc ==
    /\ Running("forInc")
    /\ fn' = EmitOrDelete(fn, Frame.inc)
    /\ Then(IF HasValidIP(fn') THEN Maybe(Frame.call) ELSE << >>)
    /\ SameCleanups /\ SameDests /\ Fine

\* visitForEachStmt: the range variable lives as long as the loop.
VisitForEach ==
    /\ Visiting("foreach")
    /\ Then(Scoped(<<Bind(Stmt.range), [op |-> "forEachHead", stmt |-> Stmt]>>))
    /\ UNCHANGED fn /\ SameCleanups /\ SameDests /\ Fine

\* The condition asks whether the range is empty, so it is inverted; the
\* element variables live in a scope around the body.
ForEachHead ==
    /\ Running("forEachHead")
    /\ \/ ~HasValidIP(fn) /\ Then(<< >>) /\ UNCHANGED fn /\ SameDests
       \/ /\ HasValidIP(fn)
          /\ \E head \in {LoopHead(1)} :
             LET loop == NextBlock(fn)
                 c == CondBlocks(head, FALSE)
             IN  /\ loop + 3 <= MaxBlock
                 /\ fn' = EnterTrue(EmitCondition(head, Stmt.cond, FALSE, TRUE), c)
                 /\ PushDests(loop + 1, loop)
                 /\ Then(Scoped(<<Bind(Stmt.elem), Visit(Stmt.body)>>)
                         \o <<[op |-> "loopBack", loop |-> loop, cond |-> c]>>
                         \o Finally(c, loop + 1))
    /\ SameCleanups /\ Fine

-----------------------------------------------------------------------------
(* The end of the function *)

\* ~SILGen: falling off the end returns the empty tuple from a void function
\* and is unreachable in any other.
FinishFunction ==
    /\ failed = "no" /\ todo = << >>
    /\ HasValidIP(fn)
    /\ fn' = CreateExit(fn, IF prog.void THEN "return" ELSE "unreachable", NoName)
    /\ UNCHANGED todo /\ SameCleanups /\ SameDests /\ Fine

SILGenStep ==
    \/ VisitExpr \/ VisitPatternBinding \/ BindVar
    \/ VisitBrace \/ BraceElement \/ EndScope
    \/ VisitReturn \/ VisitJump \/ ThreadCleanup
    \/ VisitIf \/ IfTrueExit \/ IfFalseExit \/ Complete
    \/ VisitWhile \/ LoopBack \/ EndLoop
    \/ VisitDoWhile \/ DoCondition
    \/ VisitFor \/ ForHead \/ ForInc
    \/ VisitForEach \/ ForEachHead
    \/ FinishFunction

\* constructSIL has returned: the visitors are done and ~SILGen has run.
Generated == failed = "no" /\ todo = << >> /\ ~HasValidIP(fn)

=============================================================================
