------------------------------ MODULE IRGenStmt ------------------------------
(***************************************************************************)
(* IRGen's lowering of a function body: the statement emitters of          *)
(* lib/IRGen/GenStmt.cpp, variables and their cleanups (GenInit.cpp), the  *)
(* temporaries of a call, and the function's prologue and epilogue         *)
(* (GenFunc.cpp), on top of IRGenControl.                                  *)
(*                                                                         *)
(* The recursion of emitStmt is the stack todo: a frame is the part of an  *)
(* emitter between two recursive calls, and one action runs one frame.     *)
(***************************************************************************)
EXTENDS IRGenControl, Source

CONSTANT Program    \* the functions to lower (see Source)

VARIABLES
    prog,           \* the function being lowered
    todo,           \* frames still to run, innermost first
    breakDests,     \* BreakDestStack and ContinueDestStack: JumpDests,
    continueDests   \* top last

genVars == <<igf, prog, todo, breakDests, continueDests>>

IRGenInit ==
    /\ igf = EmptyFunction
    /\ prog \in Program
    /\ todo = << [op |-> "params"], Visit(prog.body), [op |-> "epilogue"] >>
    /\ breakDests = << >>
    /\ continueDests = << >>

-----------------------------------------------------------------------------
Running(op) == igf.failed = "no" /\ todo # << >> /\ Head(todo).op = op
Visiting(kind) == Running("visit") /\ Head(todo).stmt.kind = kind
Frame == Head(todo)
Stmt  == Head(todo).stmt

Then(frames) == todo' = frames \o Tail(todo)
SameDests == UNCHANGED <<breakDests, continueDests>>
Fine == UNCHANGED prog
Scoped(frames) ==
    frames \o << [op |-> "endScope", depth |-> Depth(igf), saved |-> igf.innermost] >>
Bind(vs, temps) == [op |-> "bind", vars |-> vs, temps |-> temps]

\* What follows the steps of one full-expression: its scope ends.
FullExpr(g, inside(_)) == CloseScope(inside(OpenScope(g)), Depth(g), g.innermost)

\* Owned temporaries: each is made and gets a cleanup.
MakeTemps(g, temps) ==
    FoldLeft(LAMBDA h, t : Push(Plain(h, "make", t.name), "release", t.name, "active"),
             g, temps)
\* Mutant: the cleanup of an argument the callee takes stays active.
PassTemp_StaysActive(g, t, i) == IF t.taken THEN Plain(g, "pass", t.name) ELSE g
\* emitCallSite: the cleanup of an argument the callee takes is dead.
PassTemp(g, t, i) ==
    IF t.taken THEN SetCleanupState(Plain(g, "pass", t.name), i, "dead") ELSE g
PassTemps(g, temps, base) ==
    FoldLeft(LAMBDA h, i : PassTemp(h, temps[i], base + i), g, [i \in DOMAIN temps |-> i])
Evaluate(g, op, id, temps) ==
    LET made == MakeTemps(g, temps)
    IN  Plain(PassTemps(made, temps, Depth(g)), op, id)

\* An expression statement.
EmitCall ==
    /\ Visiting("call")
    /\ igf' = FullExpr(igf, LAMBDA g : Evaluate(g, "apply", Stmt.id, Stmt.temps))
    /\ Then(<< >>)
    /\ SameDests /\ Fine

\* RegisterPattern: a dormant destroy cleanup for every variable of the pattern.
Register(g, vars) ==
    FoldLeft(LAMBDA h, v : Push(h, "release", v, "dormant"), g, vars)

\* Mutant: the destroy cleanup is never activated.
MarkInitialized_OnlyDealloc(g, dealloc, destroy) == SetCleanupState(g, dealloc, "dead")
\* markInitialized: the variable is no longer deallocated but destroyed.
MarkInitialized(g, dealloc, destroy) ==
    SetCleanupState(SetCleanupState(g, dealloc, "dead"), destroy, "active")

\* The allocation is deallocated until it is initialized, then destroyed by the
\* cleanup at depth destroy.
InitVar(g, v, temps, destroy) ==
    LET allocated == Push(Plain(g, "alloc", v), "dealloc", v, "active")
    IN  MarkInitialized(Evaluate(allocated, "init", v, temps), Depth(allocated), destroy)

\* The parameters in emitPrologue (getAddrForParameter).
EmitPrologue ==
    /\ Running("params")
    /\ igf' = FoldLeft(LAMBDA h, v : InitVar(Register(h, <<v>>), v, << >>, Depth(h) + 1),
                       igf, prog.params)
    /\ Then(<< >>)
    /\ SameDests /\ Fine

\* emitPatternBindingDecl of a variable or of a tuple whose elements are
\* initialized one by one, each in a full-expression (visitNamedPattern).
BindVars ==
    /\ Running("bind")
    /\ LET base == Depth(igf)
           Init(h, i) == FullExpr(h, LAMBDA g :
                            InitVar(g, Frame.vars[i], Frame.temps, base + i))
       IN  igf' = FoldLeft(Init, Register(igf, Frame.vars), [i \in DOMAIN Frame.vars |-> i])
    /\ Then(<< >>)
    /\ SameDests /\ Fine

EmitLocal ==
    /\ Visiting("var")
    /\ Then(<<Bind(Stmt.vars, Stmt.temps)>>)
    /\ UNCHANGED igf /\ SameDests /\ Fine

EmitBrace ==
    /\ Visiting("brace")
    /\ Then(Scoped(<<[op |-> "brace", rest |-> Stmt.body, first |-> TRUE]>>))
    /\ igf' = OpenScope(igf)
    /\ SameDests /\ Fine

BraceEnds == Frame.rest = << >> \/ (~Frame.first /\ ~HasValidIP(igf))

\* The element loop of emitBraceStmt.
BraceElement ==
    /\ Running("brace")
    /\ IF BraceEnds THEN Then(<< >>) /\ UNCHANGED igf
       ELSE /\ igf' = Check(igf, HasValidIP(igf), "emitting at an unreachable point")
            /\ Then(<<Visit(Head(Frame.rest)),
                      [op |-> "brace", rest |-> Tail(Frame.rest), first |-> FALSE]>>)
    /\ SameDests /\ Fine

LeaveScope ==
    /\ Running("endScope")
    /\ igf' = CloseScope(igf, Frame.depth, Frame.saved)
    /\ Then(<< >>)
    /\ SameDests /\ Fine

ReturnDest == JumpDest(ReturnBB, 0)

\* emitReturnStmt: the result is evaluated in a full-expression of its own.
EmitReturn ==
    /\ Visiting("return")
    /\ LET valued == IF Stmt.id = NoName THEN FullExpr(igf, LAMBDA g : g)
                     ELSE FullExpr(igf, LAMBDA g :
                                      Evaluate(g, "result", Stmt.id, Stmt.temps))
       IN  igf' = LeaveTo(valued, ReturnDest)
    /\ Then(<< >>)
    /\ SameDests /\ Fine

\* emitBreakStmt and emitContinueStmt.
EmitJump ==
    /\ Visiting("break") \/ Visiting("continue")
    /\ igf' = LeaveTo(igf, Last(IF Stmt.kind = "break" THEN breakDests ELSE continueDests))
    /\ Then(<< >>)
    /\ SameDests /\ Fine

-----------------------------------------------------------------------------
(* if *)

EmitIf ==
    /\ Visiting("if")
    /\ LET hasFalse == Stmt.else # NoStmt
           t == Tested(igf)
           c == CondBlocks(t, hasFalse)
       IN  /\ igf' = EnterTrue(EmitCondition(t, Stmt.cond, hasFalse, FALSE), c)
           /\ Then(<<Visit(Stmt.then),
                     [op |-> "ifTrueExit", cond |-> c, else |-> Stmt.else]>>)
    /\ SameDests /\ Fine

IfTrueExit ==
    /\ Running("ifTrueExit")
    /\ LET c == Frame.cond
           g == ExitTrue(igf, c)
       IN  IF c.false # NoBlock
           THEN /\ igf' = EnterFalse(g, c)
                /\ Then(<<Visit(Frame.else), [op |-> "ifFalseExit", cond |-> c]>>)
           ELSE igf' = Complete(g, c) /\ Then(<< >>)
    /\ SameDests /\ Fine

IfFalseExit ==
    /\ Running("ifFalseExit")
    /\ igf' = Complete(ExitFalse(igf, Frame.cond), Frame.cond)
    /\ Then(<< >>)
    /\ SameDests /\ Fine

-----------------------------------------------------------------------------
(* Loops *)

\* Mutant: break and continue change places.
PushDests_Swapped(break, continue, depth) ==
    /\ breakDests' = Append(breakDests, JumpDest(continue, depth))
    /\ continueDests' = Append(continueDests, JumpDest(break, depth))
PushDests(break, continue, depth) ==
    /\ breakDests' = Append(breakDests, JumpDest(break, depth))
    /\ continueDests' = Append(continueDests, JumpDest(continue, depth))

\* createBasicBlock, CreateBr, emitBlock.
StartLoop(g) == EmitBlock(CreateBr(NewBlocks(g, 1), g.n + 1), g.n + 1)

EmitWhile ==
    /\ Visiting("while")
    /\ LET loop == igf.n + 1
           t == Tested(NewBlocks(StartLoop(igf), 1))
           c == CondBlocks(t, FALSE)
       IN  /\ igf' = EnterTrue(EmitCondition(t, Stmt.cond, FALSE, FALSE), c)
           /\ PushDests(loop + 1, loop, Depth(igf))
           /\ Then(<<Visit(Stmt.body),
                     [op |-> "endLoop", loop |-> loop, cond |-> c, end |-> loop + 1]>>)
    /\ Fine

\* The end of a loop: back to its header, the continuation, the end block.
EndLoop ==
    /\ Running("endLoop")
    /\ LET back == ExitTrue(LoopTo(igf, Frame.loop), Frame.cond)
       IN  igf' = EmitOrDelete(Complete(back, Frame.cond), Frame.end)
    /\ breakDests' = Front(breakDests)
    /\ continueDests' = Front(continueDests)
    /\ Then(<< >>)
    /\ Fine

EmitDoWhile ==
    /\ Visiting("dowhile")
    /\ LET loop == igf.n + 1 IN
          /\ igf' = NewBlocks(StartLoop(igf), 1)
          /\ PushDests(loop + 1, loop, Depth(igf))
          /\ Then(<<Visit(Stmt.body),
                    [op |-> "endDoWhile", loop |-> loop, cond |-> Stmt.cond]>>)
    /\ Fine

EndDoWhile ==
    /\ Running("endDoWhile")
    /\ LET t == Tested(igf)
           c == CondBlocks(t, FALSE)
           again == EnterTrue(EmitCondition(t, Frame.cond, FALSE, FALSE), c)
           joined == Complete(ExitTrue(LoopTo(again, Frame.loop), c), c)
       IN  igf' = EmitOrDelete(IF HasValidIP(igf) THEN joined ELSE igf, Frame.loop + 1)
    /\ breakDests' = Front(breakDests)
    /\ continueDests' = Front(continueDests)
    /\ Then(<< >>)
    /\ Fine

EmitFor ==
    /\ Visiting("for")
    /\ Then(Scoped(<<Bind(Stmt.vars, << >>)>> \o Maybe(Stmt.init)
                   \o <<[op |-> "forHead", stmt |-> Stmt]>>))
    /\ igf' = OpenScope(igf)
    /\ SameDests /\ Fine

ForHead ==
    /\ Running("forHead")
    /\ LET s == Frame.stmt
           loop == igf.n + 1
           head == NewBlocks(StartLoop(igf), 2)
           t == Tested(head)
           c == IF s.cond = NoName THEN Always(loop) ELSE CondBlocks(t, FALSE)
       IN  IF ~HasValidIP(igf) THEN Then(<< >>) /\ UNCHANGED igf /\ SameDests
           ELSE /\ igf' = EnterTrue(IF s.cond = NoName THEN head
                                    ELSE EmitCondition(t, s.cond, FALSE, FALSE), c)
                /\ PushDests(loop + 2, loop + 1, Depth(igf))
                /\ Then(<<Visit(s.body),
                          [op |-> "forInc", inc |-> loop + 1, call |-> s.inc],
                          [op |-> "endLoop", loop |-> loop, cond |-> c, end |-> loop + 2]>>)
    /\ Fine

\* The increment goes into the block continue branches to, if any does.
ForInc ==
    /\ Running("forInc")
    /\ igf' = EmitOrDelete(igf, Frame.inc)
    /\ Then(IF HasValidIP(igf') THEN Maybe(Frame.call) ELSE << >>)
    /\ SameDests /\ Fine

EmitForEach ==
    /\ Visiting("foreach")
    /\ Then(Scoped(<<Bind(Stmt.range, << >>), [op |-> "forEachHead", stmt |-> Stmt]>>))
    /\ igf' = OpenScope(igf)
    /\ SameDests /\ Fine

\* The condition asks whether the range is empty, so it is inverted; the
\* element variables live in a scope around the body.
ForEachHead ==
    /\ Running("forEachHead")
    /\ LET s == Frame.stmt
           loop == igf.n + 1
           t == Tested(NewBlocks(StartLoop(igf), 1))
           c == CondBlocks(t, FALSE)
           body == EnterTrue(EmitCondition(t, s.cond, FALSE, TRUE), c)
       IN  IF ~HasValidIP(igf) THEN Then(<< >>) /\ UNCHANGED igf /\ SameDests
           ELSE /\ igf' = OpenScope(body)
                /\ PushDests(loop + 1, loop, Depth(igf))
                /\ Then(<<Bind(s.elem, << >>), Visit(s.body),
                          [op |-> "endScope", depth |-> Depth(body), saved |-> body.innermost],
                          [op |-> "endLoop", loop |-> loop, cond |-> c, end |-> loop + 1]>>)
    /\ Fine

-----------------------------------------------------------------------------
(* The end of the function *)

\* Where the epilogue goes.  A single use of the return block is assumed to be
\* the branch of a return statement.
EnterEpilogue(g) ==
    CASE Uses(g, ReturnBB) = {} -> [g EXCEPT !.linked = @ \ {ReturnBB}]
      [] Uses(g, ReturnBB) # {} /\ HasValidIP(g) ->
            SetInsertPoint(CreateBr(g, ReturnBB), ReturnBB)
      [] HasOneUse(g, ReturnBB) /\ ~HasValidIP(g) ->
            IF UsedByBranch(g, ReturnBB)
            THEN [Absorb(g, ReturnBB) EXCEPT !.linked = @ \ {ReturnBB}]
            ELSE Fail(g, "return block used by a switch")
      [] OTHER -> SetInsertPoint(g, ReturnBB)

\* Drop the unreachable block and the jump-destination slot if nothing uses them.
TidyUp(g) ==
    LET switches == \E b \in 1 .. g.n :
                       g.insts[b] # << >> /\ Last(g.insts[b]).op = "switch"
        dropped == IF g.unreachable # NoBlock /\ Uses(g, g.unreachable) = {}
                   THEN {g.unreachable} ELSE {}
        Kept(inst) == switches \/ inst.op # "store"
    IN  [g EXCEPT !.linked = @ \ dropped,
                  !.insts = [b \in Block |-> SelectSeq(g.insts[b], Kept)]]

\* emitEpilogue: leave the parameters, then return.
EmitEpilogue ==
    /\ Running("epilogue")
    /\ LET g == EnterEpilogue(EndScope(igf, 0))
       IN  igf' = IF g.failed # "no" \/ ~HasValidIP(g) THEN g
                  ELSE TidyUp(Plain(g, "ret", NoId))
    /\ Then(<< >>)
    /\ SameDests /\ Fine

IRGenStep ==
    \/ EmitPrologue \/ EmitCall \/ BindVars \/ EmitLocal \/ EmitBrace \/ BraceElement \/ LeaveScope
    \/ EmitReturn \/ EmitJump
    \/ EmitIf \/ IfTrueExit \/ IfFalseExit
    \/ EmitWhile \/ EndLoop \/ EmitDoWhile \/ EndDoWhile
    \/ EmitFor \/ ForHead \/ ForInc \/ EmitForEach \/ ForEachHead
    \/ EmitEpilogue

\* The function has been lowered.
Generated == igf.failed = "no" /\ todo = << >>

=============================================================================
