----------------------------- MODULE IRGenControl -----------------------------
(***************************************************************************)
(* Control flow of an LLVM function under construction in IRGen: the       *)
(* builder and its insertion point, conditions, and the cleanup stack      *)
(* (lib/IRGen/IRBuilder.h, GenControl.cpp, Cleanup.h, Scope.h).            *)
(*                                                                         *)
(* A cleanup's code is emitted once, when it is popped.  Every branch that *)
(* leaves its scope before that goes to its entry block, with a label in   *)
(* the jump-destination slot; the popped cleanup switches on the label.    *)
(*                                                                         *)
(* The IRGenFunction is one record and each of its methods is an operator  *)
(* from record to record.  A broken assertion, or a null dereference,      *)
(* stops the compiler: the field failed names the first one, and nothing   *)
(* that happens after it means anything.                                   *)
(***************************************************************************)
EXTENDS Integers, SequencesExt, FiniteSetsExt

CONSTANTS
    MaxBlock,   \* bound: how many basic blocks one function may create
    MaxLabel    \* bound: how many branches may be threaded through cleanups

ASSUME BoundsAssumption == MaxBlock \in Nat /\ MaxLabel \in Nat

VARIABLE igf    \* the IRGenFunction

Block   == 1 .. MaxBlock
NoBlock == 0    \* a null BasicBlock*
Label   == 0 .. MaxLabel
NoId    == "none"   \* what an instruction that names nothing refers to

TermOps == {"br", "condbr", "switch", "ret", "unreachable"}
MemOps  == {"alloc", "init", "release", "dealloc", "make", "pass"}

\* labels: what a store puts into the jump-destination slot, and the cases of a
\* switch, whose successors are the default followed by one for each case.
Inst(op, id, succs, labels) ==
    [op |-> op, id |-> id, succs |-> succs, labels |-> labels]
IsTerm(inst) == inst.op \in TermOps

CleanupStates == {"dormant", "active", "dead"}

\* initCleanup.  body is the instruction that the cleanup emits.
Cleanup(op, id, state) ==
    [body |-> Inst(op, id, << >>, << >>), state |-> state,
     usedActive |-> FALSE, usedInactive |-> FALSE,
     fallthrough |-> FALSE,     \* some branch goes on to an outer cleanup
     nextLabel |-> 0,           \* larger than any label that goes through it
     entry |-> NoBlock,
     outflows |-> << >>]        \* branches that end after it: label and block

\* emitPrologue: an entry block and the return block, both in the function.
Entry == 1
ReturnBB == 2
EmptyFunction ==
    [n |-> 2,                       \* blocks created so far
     linked |-> {Entry, ReturnBB},  \* blocks in the function's list
     insts |-> [b \in Block |-> << >>],
     ip |-> Entry,                  \* block inserted into, NoBlock if cleared
     cleared |-> NoBlock,           \* block inserted into when it was cleared
     stack |-> << >>,               \* Cleanups, top last
     innermost |-> 0,               \* InnermostScope, a depth of the stack
     unreachable |-> NoBlock,       \* UnreachableBB
     failed |-> "no"]

Fail(g, why) == [g EXCEPT !.failed = IF @ = "no" THEN why ELSE @]
Check(g, p, why) == IF p THEN g ELSE Fail(g, why)

-----------------------------------------------------------------------------
(* The builder *)

HasValidIP(g) == g.ip # NoBlock
PostTerminator(g) ==
    HasValidIP(g) /\ g.insts[g.ip] # << >> /\ IsTerm(Last(g.insts[g.ip]))

\* The uses of a block: every successor of every terminator that is the block.
Uses(g, b) ==
    UNION {{<<p, i>> : i \in {j \in DOMAIN Last(g.insts[p]).succs :
                                 Last(g.insts[p]).succs[j] = b}} :
              p \in {q \in 1 .. g.n : g.insts[q] # << >>}}
HasOneUse(g, b) == \E u \in Uses(g, b) : Uses(g, b) = {u}
\* The block whose terminator is the only use of b.
OnlyUser(g, b) == (CHOOSE u \in Uses(g, b) : TRUE)[1]
UsedByBranch(g, b) ==
    HasOneUse(g, b) /\ Last(g.insts[OnlyUser(g, b)]).op = "br"

\* Blocks are made outside the function and inserted into it later.
NewBlocks(g, count) == [g EXCEPT !.n = @ + count]

Emit(g, inst) ==
    IF HasValidIP(g) THEN [g EXCEPT !.insts[g.ip] = Append(@, inst)]
    ELSE Fail(g, "emitting at an unreachable point")
Plain(g, op, id) == Emit(g, Inst(op, id, << >>, << >>))
CreateBr(g, b) == Emit(g, Inst("br", NoId, <<b>>, << >>))

SetInsertPoint(g, b) == [g EXCEPT !.ip = b, !.cleared = NoBlock]
ClearInsertionPoint(g) ==
    Check([g EXCEPT !.ip = NoBlock, !.cleared = g.ip],
           HasValidIP(g) /\ g.cleared = NoBlock, "clearing invalid insertion point")

\* insertBlockAnywhere: after the block inserted into now or last.
Link(g, b) ==
    IF b \in g.linked THEN Fail(g, "block inserted twice")
    ELSE Check([g EXCEPT !.linked = @ \cup {b}],
                HasValidIP(g) \/ g.cleared # NoBlock, "nowhere to insert")
EmitBlockAnywhere(g, b) == SetInsertPoint(Link(g, b), b)
EmitBlock(g, b) ==
    Check(EmitBlockAnywhere(g, b),
           HasValidIP(g) /\ g.cleared = NoBlock, "entering a block from nowhere")

\* Erase the branch that is the only use of b, and go on in its place.
Absorb(g, b) ==
    LET p == OnlyUser(g, b)
    IN  SetInsertPoint([g EXCEPT !.insts[p] = Front(@)], p)

EmitMergeableBlock(g, b) ==
    Check(IF UsedByBranch(g, b) THEN Absorb(g, b) ELSE EmitBlock(g, b),
           g.cleared = NoBlock, "merging a block after a cleared point")

-----------------------------------------------------------------------------
(* Popping cleanups *)

Depth(g) == Len(g.stack)
Top(g) == Last(g.stack)

\* getOrCreateNormalEntryBlock of the cleanup at depth i.
WithEntry(g, i) ==
    IF g.stack[i].entry # NoBlock THEN g
    ELSE [NewBlocks(g, 1) EXCEPT !.stack[i].entry = g.n + 1]

\* Mutant: the next cleanup is the one below, used or not.
NextForFallthrough_Below(g) == IF g.stack = << >> THEN {} ELSE {Depth(g)}
\* getNextCleanupForFallthrough: the topmost cleanup used while it was active.
NextForFallthrough(g) ==
    {i \in DOMAIN g.stack :
        g.stack[i].usedActive /\ \A j \in i + 1 .. Depth(g) : ~g.stack[j].usedActive}

\* Continue with how(g, entry block of the next cleanup).
ToNextCleanup(g, how(_, _)) ==
    LET next == NextForFallthrough(g) IN
    IF next = {} THEN Fail(g, "ran out of cleanups looking for outflows")
    ELSE LET i == CHOOSE j \in next : TRUE
             h == WithEntry(g, i)
         IN  how(h, h.stack[i].entry)

GetUnreachableBlock(g) ==
    IF g.unreachable # NoBlock THEN g
    ELSE LET b == g.n + 1 IN
         [NewBlocks(g, 1) EXCEPT
             !.unreachable = b, !.linked = @ \cup {b},
             !.insts[b] = <<Inst("unreachable", NoId, << >>, << >>)>>]

Switch(g, outflows, default) ==
    Emit(g, Inst("switch", NoId,
                 <<default>> \o [i \in DOMAIN outflows |-> outflows[i].block],
                 [i \in DOMAIN outflows |-> outflows[i].label]))

\* Where the code of a popped cleanup goes: to the next cleanup, to the only
\* destination, or wherever the label says.
Outflow(g, c) ==
    CASE c.outflows = << >> /\ ~c.fallthrough -> Fail(g, "cleanup leads nowhere")
      [] c.outflows = << >> /\ c.fallthrough -> ToNextCleanup(g, CreateBr)
      [] Len(c.outflows) = 1 /\ ~c.fallthrough -> CreateBr(g, c.outflows[1].block)
      [] Len(c.outflows) > 1 /\ ~c.fallthrough ->
            LET h == GetUnreachableBlock(g) IN Switch(h, c.outflows, h.unreachable)
      [] OTHER -> ToNextCleanup(g, LAMBDA h, e : Switch(h, c.outflows, e))

\* Enter the entry block of a popped cleanup: merged into its only predecessor
\* if that branches to it, inserted if it has several.  If its only use is an
\* edge of a switch, the code asks the entry for its parent, which is null:
\* the entry has not been inserted anywhere.
EnterEntry(g, entry) ==
    CASE Uses(g, entry) = {} -> Fail(g, "unused entry block")
      [] UsedByBranch(g, entry) -> Absorb(g, entry)
      [] HasOneUse(g, entry) /\ ~UsedByBranch(g, entry) ->
            Fail(g, "entry block has no parent")
      [] OTHER -> SetInsertPoint(Link(g, entry), entry)

\* popAndEmitTopCleanup: the code goes to the entry block, and the insertion
\* point back to where it was in g (ShiftIP).
EmitPopped(g, c, entered) ==
    IF entered.failed # "no" THEN entered
    ELSE [Outflow(Emit(entered, c.body), c) EXCEPT !.ip = g.ip, !.cleared = g.cleared]
PopTop(g) ==
    LET c == Top(g)
        popped == [g EXCEPT !.stack = Front(@)]
    IN  CASE g.failed # "no" -> g
          [] g.failed = "no" /\ c.state # "dead" -> Fail(g, "popping a living cleanup")
          [] g.failed = "no" /\ c.state = "dead" /\ ~c.usedActive ->
                Check(popped, c.entry = NoBlock /\ c.outflows = << >>,
                       "unused cleanup has an entry")
          [] OTHER -> EmitPopped(g, c, EnterEntry(popped, c.entry))

\* op applied while test holds, at most count times.
Repeat(op(_), test(_), g, count) ==
    FoldLeft(LAMBDA h, i : IF h.failed = "no" /\ test(h) THEN op(h) ELSE h,
             g, [i \in 1 .. count |-> i])

PopDead(g, end) ==
    Repeat(PopTop, LAMBDA h : Depth(h) > end /\ Top(h).state = "dead", g, Depth(g))

\* setCleanupState on the cleanup at depth i.  A cleanup that was used both
\* while active and while inactive would get a control flag here; the branches
\* of this module never make one necessary, so the flag is a failure.
SetState(g, i, new) ==
    LET c == g.stack[i] IN
    IF c.state \in {"dead", new} THEN Fail(g, "bad cleanup state")
    ELSE IF new = "active" /\ ~HasValidIP(g) THEN Fail(g, "activating cleanup at invalid IP")
    ELSE IF c.usedActive /\ c.usedInactive /\ ~(c.state = "dormant" /\ new = "dead")
         THEN Fail(g, "cleanup needs a control flag")
         ELSE [g EXCEPT !.stack[i].state = new]

\* Its public form: a dead cleanup on the top of its scope is popped at once.
SetCleanupState(g, i, new) ==
    LET h == SetState(g, i, new) IN
    IF new = "dead" /\ i = Depth(h) THEN PopDead(h, h.innermost) ELSE h

Push(g, op, id, state) ==
    [g EXCEPT !.stack = Append(@, Cleanup(op, id, state))]

-----------------------------------------------------------------------------
(* Leaving scopes *)

JumpDest(b, depth) == [block |-> b, depth |-> depth]

Active(g, depth) == {i \in depth + 1 .. Depth(g) : g.stack[i].state = "active"}

\* A label that no branch through any cleanup between the two depths has.
NewLabel(g, depth, inner) ==
    Max({g.stack[i].nextLabel : i \in depth + 1 .. inner})

\* Mutant: the cleanups in between do not learn that the label is taken.
Thread_NoReserve(c, label) ==
    [c EXCEPT !.usedActive = @ \/ c.state = "active",
              !.usedInactive = @ \/ c.state # "active", !.fallthrough = TRUE]
\* What a branch does to a cleanup that it goes through.
Thread(c, label) ==
    [c EXCEPT !.usedActive = @ \/ c.state = "active",
              !.usedInactive = @ \/ c.state # "active",
              !.fallthrough = TRUE, !.nextLabel = label + 1]
\* What it does to the outermost one, after which it goes to its destination.
Exit(c, label, b) ==
    [c EXCEPT !.usedActive = TRUE, !.nextLabel = label + 1,
              !.outflows = Append(@, [label |-> label, block |-> b])]

\* A branch through the cleanups from inner to outer, the active ones at either end.
Route(g, b, label, inner, outer) ==
    LET through == [i \in 1 .. inner - outer |-> Thread(g.stack[outer + i], label)] IN
    WithEntry([g EXCEPT !.stack = SubSeq(@, 1, outer - 1)
                                  \o <<Exit(@[outer], label, b)>> \o through
                                  \o SubSeq(@, inner + 1, Len(@))],
              inner)
GoToEntry(g, label, inner) ==
    CreateBr(Emit(g, Inst("store", NoId, << >>, <<label>>)), g.stack[inner].entry)
BranchThrough(g, dest, label, inner, outer) ==
    GoToEntry(Route(g, dest.block, label, inner, outer), label, inner)

\* emitBranch.  The insertion point stays behind the branch.
EmitBranch(g, dest) ==
    LET active == Active(g, dest.depth)
        inner == Max(active)
    IN  CASE ~HasValidIP(g) -> Fail(g, "branch at an unreachable point")
          [] HasValidIP(g) /\ active = {} -> CreateBr(g, dest.block)
          [] OTHER ->
                BranchThrough(g, dest, NewLabel(g, dest.depth, inner), inner, Min(active))

\* One step of endScope's loop.
KillTop(g) ==
    PopTop(IF Top(g).state = "dead" THEN g ELSE SetState(g, Depth(g), "dead"))

\* endScope, called with the enclosing scope already innermost.
PopTo(g, depth) == Repeat(KillTop, LAMBDA h : Depth(h) > depth, g, Depth(g) - depth)
ContinueIn(g, cont) == IF g.failed = "no" THEN EmitMergeableBlock(g, cont) ELSE g
EndScope(g, depth) ==
    LET cont == g.n + 1 IN
    CASE Depth(g) = depth -> PopDead(g, g.innermost)
      [] Depth(g) # depth /\ HasValidIP(g) /\ Active(g, depth) # {} ->
            ContinueIn(PopTo(EmitBranch(NewBlocks(g, 1), JumpDest(cont, depth)), depth), cont)
      [] OTHER -> PopTo(g, depth)

\* Scope's constructor.
OpenScope(g) == [g EXCEPT !.innermost = Depth(g)]
\* Mutant: the enclosing scope does not become the innermost one again.
CloseScope_KeepsInnermost(g, depth, saved) == EndScope(g, depth)
\* Scope::popImpl.
CloseScope(g, depth, saved) ==
    Check(EndScope([g EXCEPT !.innermost = saved], depth),
           g.innermost = depth, "popping scopes out of order")

-----------------------------------------------------------------------------
(* Conditions *)

\* emitCondition: the condition is a full-expression; then, in the function t
\* that leaves, come the blocks for the continuation, the true case and, with
\* false code, the false case.
Tested(g) == CloseScope(OpenScope(g), Depth(g), g.innermost)
CondBlocks(t, hasFalse) ==
    [true  |-> t.n + 2, false |-> IF hasFalse THEN t.n + 3 ELSE NoBlock, cont |-> t.n + 1]
EmitCondition(t, cond, hasFalse, invert) ==
    LET otherwise == IF hasFalse THEN t.n + 3 ELSE t.n + 1 IN
    Emit(NewBlocks(t, IF hasFalse THEN 3 ELSE 2),
         Inst("condbr", cond,
              IF invert THEN <<otherwise, t.n + 2>> ELSE <<t.n + 2, otherwise>>, << >>))

\* Condition(LoopBB, 0, 0), for a loop without a condition.
Always(loop) == [true |-> loop, false |-> NoBlock, cont |-> NoBlock]

EnterTrue(g, c) == IF c.cont = NoBlock THEN g ELSE EmitBlock(g, c.true)

ExitTrue(g, c) ==
    CASE c.cont = NoBlock -> g
      [] c.cont # NoBlock /\ HasValidIP(g) -> CreateBr(g, c.cont)
      [] OTHER -> Check(g, Uses(g, c.cont) = {} \/ c.false = NoBlock,
                         "continuation block used")

EnterFalse(g, c) == EmitBlockAnywhere(g, c.false)

ExitFalse(g, c) ==
    CASE Uses(g, c.cont) = {} -> g
      [] Uses(g, c.cont) # {} /\ HasValidIP(g) -> CreateBr(g, c.cont)
      [] OTHER -> IF UsedByBranch(g, c.cont) THEN Absorb(g, c.cont)
                  ELSE Fail(g, "continuation block used by more than one branch")

Complete(g, c) ==
    IF c.cont = NoBlock \/ Uses(g, c.cont) = {}
    THEN Check(g, ~PostTerminator(g), "unused continuation ends post-terminator")
    ELSE Check(EmitBlockAnywhere(g, c.cont),
                PostTerminator(g) \/ (c.false = NoBlock /\ ~HasValidIP(g)),
                "continuation block entered from an open block")

\* Mutant: the code before the block does not go on into it.
EmitOrDelete_NoBranch(g, b) ==
    IF Uses(g, b) = {} THEN g ELSE EmitBlockAnywhere(g, b)
\* emitOrDeleteBlock.
EmitOrDelete(g, b) ==
    IF Uses(g, b) = {} THEN g
    ELSE EmitBlockAnywhere(IF HasValidIP(g) THEN CreateBr(g, b) ELSE g, b)

\* The end of a loop's body.
LoopTo(g, loop) ==
    IF HasValidIP(g) THEN ClearInsertionPoint(CreateBr(g, loop)) ELSE g
\* A jump out of a statement.
LeaveTo(g, dest) == ClearInsertionPoint(EmitBranch(g, dest))

=============================================================================
