------------------------------ MODULE SILBuilder ------------------------------
(***************************************************************************)
(* A SIL function under construction: its basic blocks, the predecessor    *)
(* list every block keeps, and the SILBuilder that inserts instructions    *)
(* (include/swift/SIL/SILBuilder.h, BasicBlock.h, SILSuccessor.h,          *)
(* lib/SIL/SILSuccessor.cpp).                                              *)
(*                                                                         *)
(* The function is one record, so that a visitor that makes several calls  *)
(* on its builder is the composition of the operators below.  At the end   *)
(* the module states the contract the builder expects of its clients, as a *)
(* state machine with one action per builder call.                         *)
(***************************************************************************)
EXTENDS Integers, Sequences

CONSTANTS
    MaxBlock,   \* bound: how many basic blocks one function may create
    Name        \* what instructions refer to: callees, variables, conditions

ASSUME MaxBlockAssumption == MaxBlock \in Nat \ {0}

VARIABLE fn     \* the Function and the SILBuilder that emits into it

Block   == 1 .. MaxBlock
NoBlock == 0            \* a null BasicBlock*; also the parent of a lost branch
Entry   == 1            \* Function::begin(): created first, never re-emitted

TermOps  == {"br", "condbr", "return", "unreachable"}
PlainOps == {"apply", "alloc", "init", "destroy", "dealloc"}

Inst == [op : TermOps \cup PlainOps, id : Name, succs : Seq(Block)]

IsTerm(inst) == inst.op \in TermOps

\* The blocks a terminator may transfer control to (TermInst::getSuccessors).
SuccSet(inst) == {inst.succs[i] : i \in DOMAIN inst.succs}

\* Fields: n       blocks created so far (they are 1 .. n)
\*         linked  blocks in the function's block list
\*         emitted blocks handed to emitBlock (the entry block counts)
\*         insts   the instruction list of each block
\*         preds   the predecessor list of each block: one entry per SILSuccessor
\*                 that points to it, most recent first, naming the block the
\*                 terminator was inserted into
\*         ip      the block the builder inserts into, NoBlock when cleared
FunctionType == [ n       : 0 .. MaxBlock,
                  linked  : SUBSET Block,
                  emitted : SUBSET Block,
                  insts   : [Block -> Seq(Inst)],
                  preds   : [Block -> Seq(Block \cup {NoBlock})],
                  ip      : Block \cup {NoBlock} ]

\* Function(Context), whose builder starts in a new entry block.
EmptyFunction == [ n       |-> 1,
                   linked  |-> {Entry},
                   emitted |-> {Entry},
                   insts   |-> [b \in Block |-> << >>],
                   preds   |-> [b \in Block |-> << >>],
                   ip      |-> Entry ]

HasValidIP(f) == f.ip # NoBlock

\* BasicBlock::BasicBlock: a new block goes to the end of the block list.
NextBlock(f) == f.n + 1
\* Mutant: the list gets the block after the new one.
NewBlock_OffByOne(f) ==
    [f EXCEPT !.n = @ + 1, !.linked = @ \cup {NextBlock(f) + 1}]
NewBlock(f)  == [f EXCEPT !.n = @ + 1, !.linked = @ \cup {NextBlock(f)}]

\* insertImpl: without an insertion point the instruction is dropped.
Insert(f, inst) ==
    IF HasValidIP(f) THEN [f EXCEPT !.insts[f.ip] = Append(@, inst)] ELSE f

\* SILSuccessor::operator=: the terminator enters itself at the head of the
\* predecessor list of its targets, whether or not it has been inserted.
Succeed(f, inst) ==
    [f EXCEPT !.preds = [b \in Block |->
        IF b \in SuccSet(inst) THEN <<f.ip>> \o @[b] ELSE @[b]]]

\* Mutant: the insertion point is not cleared.
Terminate_KeepsIP(f, inst) == Insert(Succeed(f, inst), inst)

\* insertTerminator.
Terminate(f, inst) == [Insert(Succeed(f, inst), inst) EXCEPT !.ip = NoBlock]

CreateBranch(f, name, b) ==
    Terminate(f, [op |-> "br", id |-> name, succs |-> <<b>>])
CreateCondBranch(f, name, t, e) ==
    Terminate(f, [op |-> "condbr", id |-> name, succs |-> <<t, e>>])
CreateExit(f, op, name) ==
    Terminate(f, [op |-> op, id |-> name, succs |-> << >>])

\* SILBuilder::emitBlock: fall through into b, then insert at its end.
EmitBlock(f, name, b) ==
    LET g == IF HasValidIP(f) THEN CreateBranch(f, name, b) ELSE f
    IN  [g EXCEPT !.ip = b, !.emitted = @ \cup {b}]

\* BasicBlock::eraseFromParent.
EraseBlock(f, b) == [f EXCEPT !.linked = @ \ {b}]

\* Instruction::eraseFromParent on the terminator of b.  The list's deleteNode
\* is empty, so ~SILSuccessor never runs and the predecessor lists keep the
\* entry, which now names an instruction without a parent.
EraseTerminator(f, b) ==
    LET t == f.insts[b][Len(f.insts[b])]
    IN  [f EXCEPT !.insts[b] = SubSeq(@, 1, Len(@) - 1),
                  !.preds = [s \in Block |->
                     IF s \in SuccSet(t)
                     THEN [k \in DOMAIN @[s] |-> IF @[s][k] = b THEN NoBlock ELSE @[s][k]]
                     ELSE @[s]]]

\* Mutant: a block with a single predecessor counts as unused.
PredEmpty_AllowsOne(f, b) == Len(f.preds[b]) <= 1
PredEmpty(f, b) == f.preds[b] = << >>

-----------------------------------------------------------------------------
(***************************************************************************)
(* The contract: what SILGen's visitors do between two builder calls.  A   *)
(* block is emitted once, erased only while it has no predecessor, and the *)
(* branch zapped is the only one to a block not emitted yet                *)
(* (Condition::exitFalse).                                                 *)
(***************************************************************************)
Fresh(b) == b \in fn.linked \ fn.emitted

CreateBlock == fn.n < MaxBlock /\ fn' = NewBlock(fn)

InsertPlain(op, name) ==
    fn' = Insert(fn, [op |-> op, id |-> name, succs |-> << >>])

Branch(name, b) ==
    /\ HasValidIP(fn)
    /\ b \in fn.linked
    /\ fn' = CreateBranch(fn, name, b)

CondBranch(name, t, e) ==
    /\ HasValidIP(fn)
    /\ {t, e} \subseteq fn.linked /\ t # e
    /\ fn' = CreateCondBranch(fn, name, t, e)

Exit(op, name) == HasValidIP(fn) /\ fn' = CreateExit(fn, op, name)

EmitFresh(name, b) == Fresh(b) /\ fn' = EmitBlock(fn, name, b)

EraseUnused(b) == Fresh(b) /\ PredEmpty(fn, b) /\ fn' = EraseBlock(fn, b)

ZapBranch(b, p) ==
    /\ Fresh(b)
    /\ ~HasValidIP(fn)
    /\ fn.preds[b] = <<p>>
    /\ p # NoBlock
    /\ fn.insts[p] # << >>
    /\ fn.insts[p][Len(fn.insts[p])].op = "br"
    /\ fn.insts[p][Len(fn.insts[p])].succs = <<b>>
    /\ fn' = [EraseTerminator(fn, p) EXCEPT !.ip = p]

BuilderInit == fn = EmptyFunction

BuilderNext ==
    \/ CreateBlock
    \/ \E name \in Name :
        \/ \E op \in PlainOps : InsertPlain(op, name)
        \/ \E b \in Block : Branch(name, b) \/ EmitFresh(name, b)
        \/ \E t, e \in Block : CondBranch(name, t, e)
        \/ \E op \in {"return", "unreachable"} : Exit(op, name)
    \/ \E b \in Block : EraseUnused(b) \/ \E p \in Block : ZapBranch(b, p)

BuilderSpec == BuilderInit /\ [][BuilderNext]_fn

-----------------------------------------------------------------------------
Ended(f, b) == f.insts[b] # << >> /\ IsTerm(f.insts[b][Len(f.insts[b])])

\* Every terminator t in block b of f that may go to s.
Edge(f, b, i, s) == i \in DOMAIN f.insts[b] /\ s \in SuccSet(f.insts[b][i])

EndsOnce(f) ==
    /\ \A b \in Block : \A i \in 1 .. Len(f.insts[b]) - 1 : ~IsTerm(f.insts[b][i])
    /\ HasValidIP(f) => ~Ended(f, f.ip)
    /\ \A b \in Block \ f.emitted : f.insts[b] = << >>

PredsCover(f) ==
    \A b, s \in Block : \A i \in DOMAIN f.insts[b] :
        Edge(f, b, i, s) => \E j \in DOMAIN f.preds[s] : f.preds[s][j] = b

EdgesLinked(f) ==
    \A b, s \in Block : \A i \in DOMAIN f.insts[b] :
        Edge(f, b, i, s) => s \in f.linked

\* The fields of the function stay in their types.
BuilderTypeOK == fn \in FunctionType

\* A block ends at its terminator: nothing is ever inserted after one, which
\* Verifier.cpp asserts of the finished function; the builder never points at
\* a block that is already terminated, and blocks not emitted yet are empty.
WellTerminated == EndsOnce(fn)

\* The predecessor list misses no branch: "it is always kept up to date"
\* (SILSuccessor.h).  This is what makes pred_empty() a licence to erase.
PredsComplete == PredsCover(fn)

\* No terminator of the function targets a block erased from it.
NoDanglingBranch == EdgesLinked(fn)

=============================================================================
