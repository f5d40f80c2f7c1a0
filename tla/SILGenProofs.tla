----------------------------- MODULE SILGenProofs -----------------------------
(***************************************************************************)
(* Whatever the function body, the lowering of SILGen leaves it whole: no  *)
(* block without a terminator, no branch to an erased block, no cleanup    *)
(* and no destination left over; and the code that comes out never runs    *)
(* past the end of a block.                                                *)
(*                                                                         *)
(* The inductive invariant GenInv is about the stack of frames, that is,   *)
(* about what every visitor still active is going to do: each block that   *)
(* is not emitted yet is owned by the one frame that will emit or erase    *)
(* it, frames that emit code run only where there is an insertion point,   *)
(* and the stacks of destinations and cleanups are those of the loops and  *)
(* scopes on the stack.                                                    *)
(*                                                                         *)
(* The lemmas come in this order: what each operation on the function does *)
(* to blocks; what replacing the first frame of the stack does to each     *)
(* part of the invariant; one lemma per visitor; the theorems.             *)
(***************************************************************************)
EXTENDS SILRun, SILBuilderProofs, SequenceTheorems

-----------------------------------------------------------------------------
(* Functions *)

\* A branch has one target and a conditional branch two.
Arity(inst) ==
    /\ inst.op = "br" => Len(inst.succs) = 1
    /\ inst.op = "condbr" => Len(inst.succs) = 2

\* What holds of the function between two frames: the contract of the builder
\* (see SILBuilderProofs), and more about blocks.  Only the block the builder points
\* at may lack a terminator; a block erased from the function has no predecessor.
Sound(f) ==
    /\ WellFormed(f)
    /\ f.linked \subseteq 1 .. f.n
    /\ f.emitted \subseteq f.linked
    /\ Entry \in f.emitted
    /\ \A b \in Block \ f.linked : PredEmpty(f, b)
    /\ \A b \in f.emitted \ {f.ip} : Ended(f, b)
    /\ \A b \in Block : \A i \in DOMAIN f.insts[b] : Arity(f.insts[b][i])

\* Block p ends in a branch to c.
JumpsTo(f, p, c) ==
    /\ f.insts[p] # << >>
    /\ f.insts[p][Len(f.insts[p])].op = "br"
    /\ f.insts[p][Len(f.insts[p])].succs = <<c>>

\* Nothing branches to c but the end of one block, by a plain branch: what
\* Condition::exitFalse assumes when it zaps that branch.
OneJump(f, c) == PredEmpty(f, c) \/ \E p \in Block : f.preds[c] = <<p>> /\ JumpsTo(f, p, c)

\* Going from f to g does not make block c used, nor used a second time.
Keeps(f, g, c) ==
    /\ PredEmpty(f, c) => PredEmpty(g, c)
    /\ OneJump(f, c) => OneJump(g, c)

\* What a sound function is made of.
LEMMA SoundFields ==
    ASSUME NEW f, Sound(f)
    PROVE  /\ f \in FunctionType /\ WellFormed(f)
           /\ f.n \in 0 .. MaxBlock /\ f.linked \subseteq Block
           /\ f.emitted \subseteq f.linked
           /\ f.insts \in [Block -> Seq(Inst)]
           /\ f.preds \in [Block -> Seq(Block \cup {NoBlock})]
           /\ f.ip \in f.emitted \cup {NoBlock}
           /\ \A b \in Block \ f.emitted : f.insts[b] = << >>
BY FunctionFields DEF Sound, WellFormed, EndsOnce

\* An instruction that is no terminator keeps the function sound and all blocks
\* as they are used.
LEMMA PlainSound ==
    ASSUME NEW f, Sound(f), NEW op \in PlainOps, NEW name \in Name
    PROVE  LET g == Emit(f, op, name)
           IN  /\ Sound(g)
               /\ g.n = f.n /\ g.linked = f.linked /\ g.emitted = f.emitted /\ g.ip = f.ip
               /\ \A c \in Block : Keeps(f, g, c)
<1> DEFINE inst == Plain(op, name)
           g == Emit(f, op, name)
<1>1. inst \in Inst /\ ~IsTerm(inst) /\ inst.succs = << >> /\ Arity(inst)
  BY DEF Inst, IsTerm, PlainOps, TermOps, Plain, Arity
<1>2. WellFormed(g)
  <2> HIDE DEF inst
  <2> QED BY <1>1, InsertWellFormed DEF Sound, Emit, inst
<1>3. CASE ~HasValidIP(f)
  BY <1>3 DEF Emit, Insert, Keeps
<1>4. CASE HasValidIP(f)
  <2>1. f \in FunctionType /\ f.ip \in Block /\ f.ip \in f.emitted
    BY <1>4, SoundFields DEF HasValidIP
  <2>2. g = [f EXCEPT !.insts[f.ip] = Append(@, inst)]
    BY <1>4 DEF Emit, Insert
  <2> HIDE DEF g, inst
  <2>3. /\ g.preds = f.preds /\ g.linked = f.linked /\ g.emitted = f.emitted /\ g.ip = f.ip
        /\ Len(g.insts[f.ip]) = Len(f.insts[f.ip]) + 1
        /\ g.insts[f.ip][Len(g.insts[f.ip])] = inst
        /\ \A i \in 1 .. Len(f.insts[f.ip]) : g.insts[f.ip][i] = f.insts[f.ip][i]
        /\ \A b \in Block \ {f.ip} : g.insts[b] = f.insts[b]
    BY <2>1, <2>2, <1>1, InsertField
  <2>4. g.n = f.n
    BY <2>1, <2>2 DEF FunctionType
  <2>5. \A b \in Block : \A i \in DOMAIN g.insts[b] : Arity(g.insts[b][i])
    <3> TAKE b \in Block
    <3> TAKE i \in DOMAIN g.insts[b]
    <3>1. g.insts[b] \in Seq(Inst) /\ f.insts[b] \in Seq(Inst)
      BY <1>2, SoundFields, FunctionFields DEF WellFormed
    <3>2. CASE b = f.ip
      <4>1. i \in 1 .. Len(f.insts[b]) \/ i = Len(g.insts[b])
        BY <2>3, <3>1, <3>2, SMTT(30)
      <4>2. CASE i = Len(g.insts[b])
        BY <4>2, <2>3, <3>2, <1>1
      <4>3. CASE i \in 1 .. Len(f.insts[b])
        <5>1. g.insts[b][i] = f.insts[b][i]
          BY <4>3, <2>3, <3>2
        <5>2. i \in DOMAIN f.insts[b]
          BY <4>3, <3>1
        <5> QED BY <5>1, <5>2 DEF Sound
      <4> QED BY <4>1, <4>2, <4>3
    <3>3. CASE b # f.ip
      BY <2>3, <3>3 DEF Sound
    <3> QED BY <3>2, <3>3
  <2>6. ~Ended(f, f.ip)
    BY <1>4 DEF Sound, WellFormed, EndsOnce
  <2>7. Sound(g)
    <3>1. \A b \in g.emitted \ {g.ip} : Ended(g, b)
      BY <2>1, <2>3, SoundFields DEF Sound, Ended
    <3>2. \A b \in Block \ g.linked : PredEmpty(g, b)
      BY <2>3 DEF Sound, PredEmpty
    <3> QED BY <1>2, <2>3, <2>4, <2>5, <3>1, <3>2 DEF Sound
  <2>8. ASSUME NEW c \in Block PROVE Keeps(f, g, c)
    <3>1. PredEmpty(f, c) => PredEmpty(g, c)
      BY <2>3 DEF PredEmpty
    <3>2. ASSUME NEW p \in Block, JumpsTo(f, p, c) PROVE JumpsTo(g, p, c)
      <4>1. p # f.ip
        BY <3>2, <2>6 DEF JumpsTo, Ended, IsTerm, TermOps
      <4> QED BY <4>1, <3>2, <2>3 DEF JumpsTo
    <3> QED BY <3>1, <3>2, <2>3 DEF Keeps, OneJump, PredEmpty
  <2> QED BY <2>3, <2>4, <2>7, <2>8 DEF g
<1> QED BY <1>3, <1>4

\* A terminator ends the current block and touches the list of its targets only.
LEMMA TerminateSound ==
    ASSUME NEW f, Sound(f), HasValidIP(f), NEW inst \in Inst, IsTerm(inst),
           Arity(inst), SuccSet(inst) \subseteq f.linked
    PROVE  LET g == Terminate(f, inst)
           IN  /\ Sound(g)
               /\ g.n = f.n /\ g.linked = f.linked /\ g.emitted = f.emitted /\ g.ip = NoBlock
               /\ \A c \in Block \ SuccSet(inst) : Keeps(f, g, c)
               /\ \A c \in Block : inst.op = "br" /\ inst.succs = <<c>> /\ PredEmpty(f, c)
                                       => OneJump(g, c)
<1> DEFINE h == Succeed(f, inst)
           g == Terminate(f, inst)
           longer == Append(f.insts[f.ip], inst)
           lists == [b \in Block |-> IF b \in SuccSet(inst) THEN <<f.ip>> \o f.preds[b] ELSE f.preds[b]]
<1>1. /\ f \in FunctionType /\ f.ip \in Block /\ f.ip \in f.emitted
      /\ f.insts \in [Block -> Seq(Inst)] /\ f.preds \in [Block -> Seq(Block \cup {NoBlock})]
  BY SoundFields DEF HasValidIP
<1>2. /\ WellFormed(g) /\ g.ip = NoBlock /\ g.linked = f.linked /\ g.emitted = f.emitted
      /\ \A b \in Block \ {f.ip} : g.insts[b] = f.insts[b]
  BY TerminateWellFormed DEF Sound
<1>3. g.preds = lists /\ g.n = f.n /\ g.insts[f.ip] = longer
  <2>1. h = [f EXCEPT !.preds = lists]
    BY DEF Succeed
  <2>2. g = [[h EXCEPT !.insts[h.ip] = Append(@, inst)] EXCEPT !.ip = NoBlock]
    <3>1. h.ip = f.ip
      BY <2>1, <1>1 DEF FunctionType
    <3> QED BY <3>1 DEF Terminate, Insert, HasValidIP
  <2> HIDE DEF lists, h, g, longer
  <2> QED BY <2>1, <2>2, <1>1 DEF FunctionType, longer
<1>4. /\ longer \in Seq(Inst) /\ longer # << >> /\ longer[Len(longer)] = inst
      /\ Len(longer) = Len(f.insts[f.ip]) + 1
      /\ \A i \in 1 .. Len(f.insts[f.ip]) : longer[i] = f.insts[f.ip][i]
  BY <1>1, SMTT(30)
<1>5. \A b \in Block \ SuccSet(inst) : g.preds[b] = f.preds[b]
  BY <1>3
<1>6. \A b \in SuccSet(inst) \cap Block : g.preds[b] = <<f.ip>> \o f.preds[b]
  BY <1>3
<1> HIDE DEF g, h, lists, longer
<1>7. ~Ended(f, f.ip)
  BY DEF Sound, WellFormed, EndsOnce
<1>8. Ended(g, f.ip)
  BY <1>3, <1>4 DEF Ended
<1>9. Sound(g)
  <2>1. \A b \in g.emitted \ {g.ip} : Ended(g, b)
    <3> TAKE b \in g.emitted \ {g.ip}
    <3>1. CASE b = f.ip
      BY <3>1, <1>8
    <3>2. CASE b # f.ip
      BY <3>2, <1>2, SoundFields DEF Sound, Ended
    <3> QED BY <3>1, <3>2
  <2>2. \A b \in Block \ g.linked : PredEmpty(g, b)
    BY <1>2, <1>5 DEF Sound, PredEmpty
  <2>3. \A b \in Block : \A i \in DOMAIN g.insts[b] : Arity(g.insts[b][i])
    <3> TAKE b \in Block
    <3> TAKE i \in DOMAIN g.insts[b]
    <3>1. CASE b = f.ip
      <4>1. i \in 1 .. Len(f.insts[b]) \/ i = Len(longer)
        BY <1>3, <1>4, <3>1, <1>1
      <4>2. CASE i = Len(longer)
        BY <4>2, <3>1, <1>3, <1>4
      <4>3. CASE i \in 1 .. Len(f.insts[b])
        <5>1. g.insts[b][i] = f.insts[b][i]
          BY <4>3, <1>3, <1>4, <3>1
        <5>2. i \in DOMAIN f.insts[b]
          BY <4>3, <1>1, <3>1
        <5> QED BY <5>1, <5>2 DEF Sound
      <4> QED BY <4>1, <4>2, <4>3
    <3>2. CASE b # f.ip
      BY <1>2, <3>2 DEF Sound
    <3> QED BY <3>1, <3>2
  <2> QED BY <1>2, <1>3, <2>1, <2>2, <2>3 DEF Sound
<1>10. ASSUME NEW c \in Block \ SuccSet(inst) PROVE Keeps(f, g, c)
  <2>1. ASSUME NEW p \in Block, JumpsTo(f, p, c) PROVE JumpsTo(g, p, c)
    <3>1. p # f.ip
      BY <2>1, <1>7 DEF JumpsTo, Ended, IsTerm, TermOps
    <3> QED BY <3>1, <2>1, <1>2 DEF JumpsTo
  <2> QED BY <2>1, <1>5 DEF Keeps, OneJump, PredEmpty
<1>11. ASSUME NEW c \in Block, inst.op = "br", inst.succs = <<c>>, PredEmpty(f, c)
       PROVE  OneJump(g, c)
  <2>1. c \in SuccSet(inst)
    BY <1>11 DEF SuccSet
  <2>2. g.preds[c] = <<f.ip>>
    <3>1. <<f.ip>> \o << >> = <<f.ip>>
      BY <1>1
    <3> QED BY <2>1, <1>6, <1>11, <3>1 DEF PredEmpty
  <2>3. JumpsTo(g, f.ip, c)
    BY <1>3, <1>4, <1>11 DEF JumpsTo
  <2> QED BY <2>2, <2>3, <1>1 DEF OneJump
<1> QED BY <1>2, <1>3, <1>9, <1>10, <1>11 DEF g

\* A branch is a new use of its target only.
LEMMA JumpSound ==
    ASSUME NEW f, Sound(f), HasValidIP(f), NEW b \in f.linked
    PROVE  LET g == Jump(f, b)
           IN  /\ Sound(g)
               /\ g.n = f.n /\ g.linked = f.linked /\ g.emitted = f.emitted /\ g.ip = NoBlock
               /\ \A c \in Block \ {b} : Keeps(f, g, c)
               /\ PredEmpty(f, b) => OneJump(g, b)
<1> DEFINE inst == [op |-> "br", id |-> NoName, succs |-> <<b>>]
<1>1. b \in Block
  BY SoundFields
<1>2. inst \in Inst /\ IsTerm(inst) /\ SuccSet(inst) = {b} /\ Arity(inst)
  BY <1>1, StatementAssumption DEF Inst, IsTerm, TermOps, SuccSet, Arity
<1>3. inst.op = "br" /\ inst.succs = <<b>>
  OBVIOUS
<1>4. Jump(f, b) = Terminate(f, inst)
  BY DEF Jump, CreateBranch
<1> HIDE DEF inst
<1> QED BY <1>1, <1>2, <1>3, <1>4, TerminateSound

\* An exit uses no block.
LEMMA ExitSound ==
    ASSUME NEW f, Sound(f), HasValidIP(f), NEW op \in {"return", "unreachable"}, NEW name \in Name
    PROVE  LET g == CreateExit(f, op, name)
           IN  /\ Sound(g)
               /\ g.n = f.n /\ g.linked = f.linked /\ g.emitted = f.emitted /\ g.ip = NoBlock
               /\ \A c \in Block : Keeps(f, g, c)
<1> DEFINE inst == [op |-> op, id |-> name, succs |-> << >>]
<1>1. inst \in Inst /\ IsTerm(inst) /\ SuccSet(inst) = {} /\ Arity(inst)
  BY DEF Inst, IsTerm, TermOps, SuccSet, Arity
<1>2. CreateExit(f, op, name) = Terminate(f, inst)
  BY DEF CreateExit
<1> HIDE DEF inst
<1> QED BY <1>1, <1>2, TerminateSound

\* A new block is in the function, unused and still to be emitted.
LEMMA NewSound ==
    ASSUME NEW f, Sound(f), f.n < MaxBlock
    PROVE  LET g == NewBlock(f)
           IN  /\ Sound(g)
               /\ g.n = f.n + 1 /\ g.linked = f.linked \cup {f.n + 1}
               /\ g.emitted = f.emitted /\ g.ip = f.ip
               /\ f.n + 1 \in Block \ f.linked /\ PredEmpty(g, f.n + 1)
               /\ \A c \in Block : Keeps(f, g, c)
<1> DEFINE g == NewBlock(f)
<1>1. f \in FunctionType /\ f.n \in 0 .. MaxBlock /\ f.linked \subseteq 1 .. f.n
  BY SoundFields DEF Sound
<1>2. f.n + 1 \in Block \ f.linked
  BY <1>1, MaxBlockAssumption DEF Block
<1>3. /\ g.n = f.n + 1 /\ g.linked = f.linked \cup {f.n + 1}
      /\ g.emitted = f.emitted /\ g.ip = f.ip /\ g.insts = f.insts /\ g.preds = f.preds
  BY <1>1 DEF NewBlock, NextBlock, FunctionType
<1>4. WellFormed(g)
  BY NewBlockWellFormed DEF Sound
<1> HIDE DEF g
<1>5. Sound(g)
  <2>1. g.linked \subseteq 1 .. g.n
    BY <1>1, <1>3
  <2> QED BY <2>1, <1>3, <1>4 DEF Sound, PredEmpty, Ended
<1>6. PredEmpty(g, f.n + 1) /\ \A c \in Block : Keeps(f, g, c)
  BY <1>2, <1>3 DEF Sound, PredEmpty, Keeps, OneJump, JumpsTo
<1> QED BY <1>2, <1>3, <1>5, <1>6 DEF g

\* A block that is emitted for the first time becomes the insertion point.
LEMMA StartSound ==
    ASSUME NEW f, Sound(f), NEW b \in f.linked \ f.emitted
    PROVE  LET g == Start(f, b)
           IN  /\ Sound(g)
               /\ g.n = f.n /\ g.linked = f.linked /\ g.emitted = f.emitted \cup {b} /\ g.ip = b
               /\ \A c \in Block \ {b} : Keeps(f, g, c)
<1> DEFINE h == IF HasValidIP(f) THEN Jump(f, b) ELSE f
           g == [h EXCEPT !.ip = b, !.emitted = h.emitted \cup {b}]
<1>1. /\ Sound(h) /\ h.n = f.n /\ h.linked = f.linked /\ h.emitted = f.emitted /\ h.ip = NoBlock
      /\ \A c \in Block \ {b} : Keeps(f, h, c)
  <2>1. CASE HasValidIP(f)
    BY <2>1, JumpSound
  <2>2. CASE ~HasValidIP(f)
    BY <2>2 DEF HasValidIP, Keeps
  <2> QED BY <2>1, <2>2
<1>2. Start(f, b) = g
  BY DEF Start, EmitBlock, Jump
<1>3. b \in Block /\ h \in FunctionType
  BY <1>1, SoundFields
<1>4. WellFormed(Start(f, b))
  BY <1>3, StatementAssumption, EmitWellFormed DEF Start, Sound
<1> HIDE DEF h
<1>5. /\ g.n = f.n /\ g.linked = f.linked /\ g.emitted = f.emitted \cup {b} /\ g.ip = b
      /\ g.insts = h.insts /\ g.preds = h.preds
  BY <1>1, <1>3 DEF FunctionType
<1> HIDE DEF g
<1>6. Sound(g)
  <2>1. \A c \in g.emitted \ {g.ip} : Ended(g, c)
    <3> TAKE c \in g.emitted \ {g.ip}
    <3>1. c \in h.emitted \ {h.ip}
      <4>1. f.emitted \subseteq Block
        BY SoundFields
      <4> QED BY <4>1, <1>1, <1>5, MaxBlockAssumption DEF Block, NoBlock
    <3> QED BY <3>1, <1>1, <1>5 DEF Sound, Ended
  <2>2. Entry \in g.emitted /\ g.emitted \subseteq g.linked /\ g.linked \subseteq 1 .. g.n
    BY <1>5 DEF Sound
  <2>3. \A c \in Block \ g.linked : PredEmpty(g, c)
    BY <1>1, <1>5 DEF Sound, PredEmpty
  <2>4. \A c \in Block : \A i \in DOMAIN g.insts[c] : Arity(g.insts[c][i])
    BY <1>1, <1>5 DEF Sound
  <2>5. WellFormed(g)
    BY <1>2, <1>4
  <2> QED BY <2>1, <2>2, <2>3, <2>4, <2>5 DEF Sound
<1>7. ASSUME NEW c \in Block \ {b} PROVE Keeps(f, g, c)
  <2>1. PredEmpty(h, c) => PredEmpty(g, c)
    BY <1>5 DEF PredEmpty
  <2>2. OneJump(h, c) => OneJump(g, c)
    BY <2>1, <1>5 DEF OneJump, JumpsTo
  <2>3. Keeps(f, h, c)
    BY <1>1
  <2> QED BY <2>1, <2>2, <2>3 DEF Keeps
<1> QED BY <1>2, <1>5, <1>6, <1>7

\* An unused block that was not emitted may be erased.
LEMMA EraseSound ==
    ASSUME NEW f, Sound(f), NEW b \in f.linked \ f.emitted, PredEmpty(f, b)
    PROVE  LET g == EraseBlock(f, b)
           IN  /\ Sound(g)
               /\ g.n = f.n /\ g.linked = f.linked \ {b} /\ g.emitted = f.emitted /\ g.ip = f.ip
               /\ \A c \in Block : Keeps(f, g, c)
<1> DEFINE g == EraseBlock(f, b)
<1>1. f \in FunctionType /\ b \in Block /\ f.linked \subseteq Block
  BY SoundFields
<1>2. /\ g.n = f.n /\ g.linked = f.linked \ {b}
      /\ g.emitted = f.emitted /\ g.ip = f.ip /\ g.insts = f.insts /\ g.preds = f.preds
  BY <1>1 DEF EraseBlock, FunctionType
<1>3. WellFormed(g)
  BY <1>1, EraseWellFormed DEF Sound
<1> HIDE DEF g
<1>4. Sound(g)
  BY <1>2, <1>3 DEF Sound, PredEmpty, Ended
<1>5. \A c \in Block : Keeps(f, g, c)
  BY <1>2 DEF PredEmpty, Keeps, OneJump, JumpsTo
<1> QED BY <1>2, <1>4, <1>5 DEF g

\* Zapping the only jump to a block takes emission back to before the jump.
LEMMA ZapSound ==
    ASSUME NEW f, Sound(f), ~HasValidIP(f), NEW c \in Block, OneJump(f, c), ~PredEmpty(f, c)
    PROVE  LET p == Head(f.preds[c])
               g == [EraseTerminator(f, p) EXCEPT !.ip = p]
           IN  /\ Sound(g) /\ p \in Block
               /\ g.n = f.n /\ g.linked = f.linked /\ g.emitted = f.emitted /\ g.ip = p
               /\ \A d \in Block \ {c} : Keeps(f, g, d)
<1>1. PICK p \in Block : p = Head(f.preds[c]) /\ f.preds[c] = <<p>> /\ JumpsTo(f, p, c)
  BY DEF OneJump
<1> DEFINE g == [EraseTerminator(f, p) EXCEPT !.ip = p]
           old == f.insts[p]
           n == Len(old)
           rest == SubSeq(old, 1, n - 1)
           forget(s) == [j \in DOMAIN f.preds[s] |->
                           IF f.preds[s][j] = p THEN NoBlock ELSE f.preds[s][j]]
           lists == [s \in Block |-> IF s \in SuccSet(old[n]) THEN forget(s) ELSE f.preds[s]]
<1> HIDE DEF g, old, n, rest, forget, lists
<1>2. /\ f \in FunctionType /\ f.insts \in [Block -> Seq(Inst)]
      /\ f.preds \in [Block -> Seq(Block \cup {NoBlock})]
  BY SoundFields
<1>3. WellFormed(g)
  <2>1. f.insts[p] # << >> /\ f.insts[p][Len(f.insts[p])].succs = <<c>>
    BY <1>1, Zenon DEF JumpsTo
  <2>2. WellFormed(f)
    BY Zenon DEF Sound
  <2> QED BY <2>1, <2>2, ZapWellFormed, Zenon DEF g
<1>4. /\ g.n = f.n /\ g.linked = f.linked /\ g.emitted = f.emitted /\ g.ip = p
      /\ g.preds = lists /\ g.insts = [f.insts EXCEPT ![p] = rest]
  <2> DEFINE h == [f EXCEPT !.insts = [f.insts EXCEPT ![p] = rest], !.preds = lists]
  <2>1. EraseTerminator(f, p) = h
    BY <1>2 DEF EraseTerminator, FunctionType, lists, forget, rest, n, old
  <2> HIDE DEF h
  <2>2. g = [h EXCEPT !.ip = p]
    BY <2>1, Zenon DEF g
  <2> QED BY <2>2, <1>2 DEF FunctionType, h
<1>5. SuccSet(old[n]) = {c} /\ old # << >>
  <2>1. old[n].succs = <<c>> /\ old # << >>
    BY <1>1, Zenon DEF JumpsTo, old, n
  <2>2. \A t : t.succs = <<c>> => SuccSet(t) = {c}
    BY DEF SuccSet
  <2> QED BY <2>1, <2>2, Zenon
<1>6. /\ old \in Seq(Inst) /\ DOMAIN old = 1 .. n /\ n \in Nat \ {0}
      /\ rest \in Seq(Inst) /\ Len(rest) = n - 1
      /\ \A i \in 1 .. n - 1 : rest[i] = old[i]
  <2>1. old \in Seq(Inst) /\ n \in Nat \ {0} /\ n = Len(old)
    BY <1>2, <1>5 DEF old, n
  <2> QED BY <2>1 DEF rest
<1>7. \A d \in Block \ {c} : g.preds[d] = f.preds[d]
  <2>1. f.preds \in [Block -> Seq(Block \cup {NoBlock})]
    BY <1>2
  <2> QED BY <1>4, <1>5, <2>1 DEF lists
<1>8. g.insts[p] = rest /\ \A b \in Block \ {p} : g.insts[b] = f.insts[b]
  BY <1>4, <1>1, <1>2
<1>9. p \in f.emitted
  BY <1>1, <1>5, SoundFields DEF old
<1>10. c \in f.linked
  BY <1>1 DEF Sound, PredEmpty
<1>11. Sound(g)
  <2>1. \A b \in g.emitted \ {g.ip} : Ended(g, b)
    <3> TAKE b \in g.emitted \ {g.ip}
    <3>1. b \in Block /\ b # f.ip /\ b # p
      BY <1>4, SoundFields, MaxBlockAssumption DEF HasValidIP, NoBlock, Block
    <3> QED BY <3>1, <1>4, <1>8 DEF Sound, Ended
  <2>2. \A b \in Block \ g.linked : PredEmpty(g, b)
    BY <1>4, <1>7, <1>10 DEF Sound, PredEmpty
  <2>3. \A b \in Block : \A i \in DOMAIN g.insts[b] : Arity(g.insts[b][i])
    <3> TAKE b \in Block
    <3> TAKE i \in DOMAIN g.insts[b]
    <3>1. CASE b = p
      <4>1. i \in 1 .. n - 1
        BY <3>1, <1>6, <1>8
      <4>2. i \in DOMAIN old /\ g.insts[b][i] = old[i]
        BY <4>1, <3>1, <1>6, <1>8
      <4> QED BY <4>2, <3>1 DEF Sound, old
    <3>2. CASE b # p
      BY <1>8, <3>2 DEF Sound
    <3> QED BY <3>1, <3>2
  <2> QED BY <1>3, <1>4, <2>1, <2>2, <2>3 DEF Sound
<1>12. ASSUME NEW d \in Block \ {c} PROVE Keeps(f, g, d)
  <2>1. ASSUME NEW q \in Block, JumpsTo(f, q, d) PROVE JumpsTo(g, q, d)
    <3>1. q # p
      <4>1. /\ f.insts[q][Len(f.insts[q])].succs = <<d>>
            /\ f.insts[p][Len(f.insts[p])].succs = <<c>>
        BY <2>1, <1>1, Zenon DEF JumpsTo
      <4>2. <<d>> # <<c>>
        OBVIOUS
      <4> QED BY <4>1, <4>2, Zenon
    <3>2. g.insts[q] = f.insts[q]
      BY <3>1, <1>8
    <3> QED BY <2>1, <3>2, Zenon DEF JumpsTo
  <2> QED BY <2>1, <1>7 DEF Keeps, OneJump, PredEmpty
<1> QED BY <1>1, <1>4, <1>11, <1>12 DEF g

\* The blocks of a Condition.
CondRecs == [true : Block, false : Block \cup {NoBlock}, cont : Block \cup {NoBlock}]

\* emitCondition and enterTrue: emission goes on in the new true block, and the
\* other new blocks are still to be emitted.
LEMMA ConditionSound ==
    ASSUME NEW f, Sound(f), HasValidIP(f), NEW cond \in Name,
           NEW hasFalse \in BOOLEAN, NEW invert \in BOOLEAN,
           f.n + (IF hasFalse THEN 3 ELSE 2) <= MaxBlock
    PROVE  LET c == CondBlocks(f, hasFalse)
               g == EnterTrue(EmitCondition(f, cond, hasFalse, invert), c)
           IN  /\ Sound(g) /\ c \in CondRecs
               /\ c.true = f.n + 2 /\ c.cont = f.n + 1 /\ {c.true, c.cont} \subseteq Block \ f.linked
               /\ c.false = (IF hasFalse THEN f.n + 3 ELSE NoBlock)
               /\ c.false \notin f.linked \cup {c.true, c.cont}
               /\ g.linked = f.linked \cup ({c.true, c.cont, c.false} \ {NoBlock})
               /\ g.emitted = f.emitted \cup {c.true} /\ g.ip = c.true
               /\ hasFalse => PredEmpty(g, c.cont)
               /\ \A d \in f.linked : Keeps(f, g, d)
<1> DEFINE c == CondBlocks(f, hasFalse)
           one == NewBlock(f)
           two == NewBlock(one)
           all == IF hasFalse THEN NewBlock(two) ELSE two
           otherwise == IF hasFalse THEN c.false ELSE c.cont
           yes == IF invert THEN otherwise ELSE c.true
           no == IF invert THEN c.true ELSE otherwise
           inst == [op |-> "condbr", id |-> cond, succs |-> <<yes, no>>]
           h == Terminate(all, inst)
           g == EnterTrue(EmitCondition(f, cond, hasFalse, invert), c)
<1>1. /\ f.n \in Nat /\ f.n + 2 <= MaxBlock /\ (hasFalse => f.n + 3 <= MaxBlock)
      /\ f.linked \subseteq 1 .. f.n /\ f.linked \subseteq Block
  BY SoundFields, MaxBlockAssumption DEF Sound
<1>2. /\ c.true = f.n + 2 /\ c.cont = f.n + 1 /\ c.false = (IF hasFalse THEN f.n + 3 ELSE NoBlock)
      /\ c \in CondRecs /\ {c.true, c.cont} \subseteq Block \ f.linked
      /\ c.false \notin f.linked \cup {c.true, c.cont} /\ c.true # c.cont
      /\ hasFalse => c.false \in Block
      /\ NoBlock \notin {c.true, c.cont}
  BY <1>1, MaxBlockAssumption DEF CondBlocks, CondRecs, Block, NoBlock
<1>3. EmitCondition(f, cond, hasFalse, invert) = h
  BY DEF EmitCondition, CreateCondBranch
<1> HIDE DEF c
<1>4. /\ Sound(one) /\ one.n = f.n + 1 /\ one.linked = f.linked \cup {f.n + 1}
      /\ one.emitted = f.emitted /\ one.ip = f.ip /\ PredEmpty(one, f.n + 1)
      /\ \A d \in Block : Keeps(f, one, d)
  <2>1. f.n < MaxBlock
    BY <1>1, MaxBlockAssumption
  <2> QED BY <2>1, NewSound
<1> HIDE DEF one
<1>5. /\ Sound(two) /\ two.n = f.n + 2 /\ two.linked = f.linked \cup {f.n + 1, f.n + 2}
      /\ two.emitted = f.emitted /\ two.ip = f.ip
      /\ \A d \in Block : Keeps(one, two, d)
  <2>1. one.n < MaxBlock /\ one.n + 1 = f.n + 2
    BY <1>1, <1>4, MaxBlockAssumption
  <2> QED BY <2>1, <1>4, NewSound
<1> HIDE DEF two
<1>6. /\ Sound(all) /\ all.linked = f.linked \cup ({c.true, c.cont, c.false} \ {NoBlock})
      /\ all.emitted = f.emitted /\ all.ip = f.ip
      /\ \A d \in Block : Keeps(two, all, d)
  <2>1. CASE hasFalse
    <3>1. c.false # NoBlock
      BY <1>2, <2>1, MaxBlockAssumption DEF Block, NoBlock
    <3>2. /\ Sound(NewBlock(two)) /\ NewBlock(two).linked = two.linked \cup {two.n + 1}
          /\ NewBlock(two).emitted = f.emitted /\ NewBlock(two).ip = f.ip
          /\ \A d \in Block : Keeps(two, NewBlock(two), d)
      <4>1. two.n < MaxBlock
        BY <1>1, <1>5, <2>1, MaxBlockAssumption
      <4> QED BY <4>1, <1>5, NewSound
    <3>3. two.n + 1 = f.n + 3
      BY <1>1, <1>5
    <3> QED BY <3>1, <3>2, <3>3, <1>2, <1>5, <2>1
  <2>2. CASE ~hasFalse
    BY <2>2, <1>2, <1>5 DEF Keeps
  <2> QED BY <2>1, <2>2
<1> HIDE DEF all
<1>7. {yes, no} = {c.true, otherwise} /\ {c.true, otherwise} \subseteq all.linked
      /\ {c.true, otherwise} \subseteq Block
  BY <1>2, <1>6, MaxBlockAssumption DEF Block, NoBlock
<1>8. inst \in Inst /\ IsTerm(inst) /\ SuccSet(inst) = {yes, no} /\ Arity(inst)
  <2>1. yes \in Block /\ no \in Block
    BY <1>7
  <2> HIDE DEF yes, no
  <2> QED BY <2>1 DEF Inst, IsTerm, TermOps, SuccSet, Arity
<1> HIDE DEF inst, yes, no
<1>9. /\ Sound(h) /\ h.linked = all.linked /\ h.emitted = all.emitted /\ h.ip = NoBlock
      /\ \A d \in Block \ {c.true, otherwise} : Keeps(all, h, d)
  BY <1>6, <1>7, <1>8, TerminateSound DEF HasValidIP
<1> HIDE DEF h
<1>10. /\ Sound(Start(h, c.true)) /\ Start(h, c.true).linked = h.linked
       /\ Start(h, c.true).emitted = h.emitted \cup {c.true} /\ Start(h, c.true).ip = c.true
       /\ \A d \in Block \ {c.true} : Keeps(h, Start(h, c.true), d)
  <2>1. c.true \in h.linked \ h.emitted
    BY <1>2, <1>6, <1>7, <1>9, SoundFields DEF Sound
  <2> QED BY <2>1, <1>9, StartSound
<1>11. g = Start(h, c.true)
  BY <1>2, <1>3 DEF EnterTrue
<1> HIDE DEF g
<1>12. ASSUME NEW d \in Block \ {c.true, otherwise} PROVE Keeps(f, g, d)
  BY <1>4, <1>5, <1>6, <1>9, <1>10, <1>11 DEF Keeps
<1>13. ASSUME hasFalse PROVE PredEmpty(g, c.cont)
  <2>1. c.cont \in Block \ {c.true, otherwise}
    BY <1>2, <1>13
  <2> QED BY <2>1, <1>2, <1>4, <1>5, <1>6, <1>9, <1>10, <1>11 DEF Keeps
<1>14. \A d \in f.linked : Keeps(f, g, d)
  BY <1>1, <1>2, <1>12
<1> QED BY <1>2, <1>6, <1>9, <1>10, <1>11, <1>13, <1>14 DEF c, g

\* The same for a condition without false code.
LEMMA LoopConditionSound ==
    ASSUME NEW f, Sound(f), HasValidIP(f), NEW cond \in Name, NEW invert \in BOOLEAN,
           f.n + 2 <= MaxBlock
    PROVE  LET c == CondBlocks(f, FALSE)
               g == EnterTrue(EmitCondition(f, cond, FALSE, invert), c)
           IN  /\ Sound(g) /\ c \in CondRecs /\ c.false = NoBlock
               /\ c.true \in Block \ f.linked /\ c.cont \in Block \ f.linked
               /\ c.true # c.cont /\ c.true # NoBlock /\ c.cont # NoBlock
               /\ g.linked = f.linked \cup {c.true, c.cont}
               /\ g.emitted = f.emitted \cup {c.true} /\ g.ip = c.true
               /\ \A d \in f.linked : Keeps(f, g, d)
<1> DEFINE no == FALSE
           c == CondBlocks(f, no)
           g == EnterTrue(EmitCondition(f, cond, no, invert), c)
<1>1. no \in BOOLEAN /\ ~no /\ f.n + (IF no THEN 3 ELSE 2) <= MaxBlock
  OBVIOUS
<1> HIDE DEF no
<1>2. /\ Sound(g) /\ c \in CondRecs
      /\ c.true = f.n + 2 /\ c.cont = f.n + 1 /\ {c.true, c.cont} \subseteq Block \ f.linked
      /\ c.false = (IF no THEN f.n + 3 ELSE NoBlock)
      /\ c.false \notin f.linked \cup {c.true, c.cont}
      /\ g.linked = f.linked \cup ({c.true, c.cont, c.false} \ {NoBlock})
      /\ g.emitted = f.emitted \cup {c.true} /\ g.ip = c.true
      /\ no => PredEmpty(g, c.cont)
      /\ \A d \in f.linked : Keeps(f, g, d)
  <2> DEFINE P(hasFalse, v) ==
               LET d == CondBlocks(f, hasFalse)
                   h == EnterTrue(EmitCondition(f, cond, hasFalse, v), d)
               IN  /\ Sound(h) /\ d \in CondRecs
                   /\ d.true = f.n + 2 /\ d.cont = f.n + 1 /\ {d.true, d.cont} \subseteq Block \ f.linked
                   /\ d.false = (IF hasFalse THEN f.n + 3 ELSE NoBlock)
                   /\ d.false \notin f.linked \cup {d.true, d.cont}
                   /\ h.linked = f.linked \cup ({d.true, d.cont, d.false} \ {NoBlock})
                   /\ h.emitted = f.emitted \cup {d.true} /\ h.ip = d.true
                   /\ hasFalse => PredEmpty(h, d.cont)
                   /\ \A b \in f.linked : Keeps(f, h, b)
  <2>1. ASSUME NEW hasFalse \in BOOLEAN, f.n + (IF hasFalse THEN 3 ELSE 2) <= MaxBlock
        PROVE  P(hasFalse, invert)
    BY <2>1, ConditionSound
  <2>2. P(no, invert)
    <3> HIDE DEF P
    <3> QED BY <1>1, <2>1
  <2> QED BY <2>2
<1> HIDE DEF c, g
<1>3. f.n \in Nat
  BY SoundFields, MaxBlockAssumption
<1>4. c.true # c.cont /\ c.true # NoBlock /\ c.cont # NoBlock
  BY <1>2, <1>3 DEF NoBlock
<1>5. c.false = NoBlock
  BY <1>1, <1>2
<1>6. g.linked = f.linked \cup {c.true, c.cont}
  BY <1>2, <1>4, <1>5
<1> QED BY <1>2, <1>4, <1>5, <1>6 DEF c, g, no

\* The start of a loop: emission goes on in the loop block.
LEMMA LoopHeadSound ==
    ASSUME Sound(fn), NEW n \in {1, 2}, fn.n + n + 1 <= MaxBlock
    PROVE  LET g == LoopHead(n)
               loop == fn.n + 1
           IN  /\ Sound(g) /\ g.n = fn.n + n + 1 /\ g.ip = loop
               /\ g.linked = fn.linked \cup loop .. loop + n
               /\ g.emitted = fn.emitted \cup {loop}
               /\ loop .. loop + n \subseteq Block \ fn.linked
               /\ \A d \in fn.linked : Keeps(fn, g, d)
<1> DEFINE loop == fn.n + 1
           one == NewBlock(fn)
           two == Start(one, loop)
           three == NewBlock(two)
           four == NewBlock(three)
<1>1. /\ fn.n \in Nat /\ fn.linked \subseteq 1 .. fn.n /\ fn.linked \subseteq Block
      /\ fn.emitted \subseteq fn.linked
  BY SoundFields DEF Sound
<1>2. /\ loop .. loop + n \subseteq Block \ fn.linked /\ loop \in Block
      /\ fn.n < MaxBlock /\ fn.n + 1 < MaxBlock
  BY <1>1, MaxBlockAssumption DEF Block
<1>3. /\ Sound(one) /\ one.n = loop /\ one.linked = fn.linked \cup {loop}
      /\ one.emitted = fn.emitted
      /\ \A d \in Block : Keeps(fn, one, d)
  BY <1>2, NewSound
<1> HIDE DEF one
<1>4. /\ Sound(two) /\ two.n = loop /\ two.linked = fn.linked \cup {loop}
      /\ two.emitted = fn.emitted \cup {loop} /\ two.ip = loop
      /\ \A d \in Block \ {loop} : Keeps(one, two, d)
  <2>1. loop \in one.linked \ one.emitted
    BY <1>1, <1>3
  <2> QED BY <2>1, <1>3, StartSound
<1> HIDE DEF two
<1>5. /\ Sound(three) /\ three.n = loop + 1 /\ three.linked = fn.linked \cup {loop, loop + 1}
      /\ three.emitted = fn.emitted \cup {loop} /\ three.ip = loop
      /\ \A d \in Block : Keeps(two, three, d)
  BY <1>2, <1>4, NewSound
<1> HIDE DEF three
<1>6. ASSUME NEW d \in fn.linked PROVE Keeps(fn, three, d)
  BY <1>1, <1>3, <1>4, <1>5 DEF Keeps
<1>7. CASE n = 1
  <2>1. LoopHead(n) = three
    BY <1>7 DEF LoopHead, NextBlock, one, two, three
  <2>2. loop .. loop + n = {loop, loop + 1}
    BY <1>1, <1>7
  <2> QED BY <2>1, <2>2, <1>1, <1>2, <1>5, <1>6, <1>7
<1>8. CASE n = 2
  <2>1. LoopHead(n) = four
    BY <1>8 DEF LoopHead, NextBlock, one, two, three
  <2>2. loop .. loop + n = {loop, loop + 1, loop + 2}
    BY <1>1, <1>8
  <2>3. three.n < MaxBlock
    BY <1>1, <1>5, <1>8, MaxBlockAssumption
  <2>4. /\ Sound(four) /\ four.n = three.n + 1 /\ four.linked = three.linked \cup {three.n + 1}
        /\ four.emitted = three.emitted /\ four.ip = three.ip
        /\ \A d \in Block : Keeps(three, four, d)
    BY <1>5, <2>3, NewSound
  <2> HIDE DEF four
  <2>5. \A d \in fn.linked : Keeps(fn, four, d)
    BY <1>1, <1>6, <2>4 DEF Keeps
  <2> QED BY <2>1, <2>2, <2>4, <2>5, <1>1, <1>2, <1>5, <1>8
<1> QED BY <1>7, <1>8

-----------------------------------------------------------------------------
\* A JumpDest.
Dests == [block : Block, depth : Nat]

\* What the clauses of a for statement may call, or no call.
Callable == {name \in Name : CallOf(name) \in FreeStmt} \cup {NoName}

\* The frames of the visitors.
Frames ==
    UNION { [op : {"bind"}, vars : Seq(Name)],
            [op : {"visit"}, stmt : LoopStmt],
            [op : {"brace"}, rest : Seq(LoopStmt), first : BOOLEAN],
            [op : {"endScope"}, depth : Nat],
            [op : {"branch"}, dest : Dests, top : Nat],
            [op : {"ifTrueExit"}, cond : CondRecs, else : LoopStmt \cup {NoStmt}],
            [op : {"ifFalseExit", "complete"}, cond : CondRecs],
            [op : {"loopBack"}, loop : Block, cond : CondRecs],
            [op : {"endLoop"}, end : Block],
            [op : {"doCondition"}, loop : Block, cond : Name],
            [op : {"forHead", "forEachHead"}, stmt : LoopStmt],
            [op : {"forInc"}, inc : Block, call : Callable] }

\* What the rest of a visitor relies on.  The true arm of an if with an else is
\* lowered before anything branches to the continuation; then at most the true arm
\* branches to it; and a loop goes back to a block that was emitted.
FrameFits(fr, f) ==
    /\ fr.op = "ifTrueExit" =>
          /\ fr.cond.cont # NoBlock /\ fr.cond.false # fr.cond.cont
          /\ fr.cond.false # NoBlock => fr.else \in LoopStmt /\ PredEmpty(f, fr.cond.cont)
    /\ fr.op = "ifFalseExit" => fr.cond.cont # NoBlock /\ OneJump(f, fr.cond.cont)
    /\ fr.op \in {"loopBack", "doCondition"} => fr.loop \in f.emitted
    /\ fr.op = "forHead" => fr.stmt.kind = "for"
    /\ fr.op = "forEachHead" => fr.stmt.kind = "foreach"

\* Every frame on the stack gets what it relies on.
FramesFit(t, f) == \A i \in DOMAIN t : FrameFits(t[i], f)

\* Blocks of the function that are still to be emitted or erased.
Pending(f) == f.linked \ f.emitted

\* The blocks a frame is going to emit or erase.
Owned(fr) ==
    CASE fr.op = "ifTrueExit"  -> {fr.cond.cont, fr.cond.false} \ {NoBlock}
      [] fr.op = "ifFalseExit" -> {fr.cond.cont}
      [] fr.op = "complete"    -> {fr.cond.cont} \ {NoBlock}
      [] fr.op = "endLoop"     -> {fr.end}
      [] fr.op = "doCondition" -> {fr.loop + 1}
      [] fr.op = "forInc"      -> {fr.inc}
      [] OTHER -> {}

\* Every pending block is owned by one frame: it is resolved once, and no block
\* is forgotten.
Ownership(t, f) ==
    /\ \A i \in DOMAIN t : Owned(t[i]) \subseteq Pending(f)
    /\ \A i, j \in DOMAIN t : i # j => Owned(t[i]) \cap Owned(t[j]) = {}
    /\ \A b \in Pending(f) : \E i \in DOMAIN t : b \in Owned(t[i])

\* Frames that run only where code can be reached.
NeedsIP(fr) == fr.op \in {"visit", "bind", "branch"} \/ (fr.op = "brace" /\ fr.first)

\* The frame about to run has its insertion point.  A frame below it that needs
\* one comes after the variables of a pattern, which keep it.
Reachable(t, f) ==
    /\ t # << >> /\ NeedsIP(t[1]) => HasValidIP(f)
    /\ \A i \in 2 .. Len(t) : NeedsIP(t[i]) => t[i].op # "branch" /\ t[i - 1].op = "bind"

\* A frame under which a break or a continue may be visited.
MayJump(fr) ==
    \/ fr.op = "visit" /\ fr.stmt \notin FreeStmt
    \/ fr.op = "brace" /\ fr.rest \notin Seq(FreeStmt)
    \/ fr.op = "ifTrueExit" /\ fr.cond.false # NoBlock /\ fr.else \notin FreeStmt

\* Frames that end a loop.
EndsLoop(fr) == fr.op \in {"endLoop", "doCondition"}

\* The block a break out of that loop goes to.
EndOf(fr) == IF fr.op = "endLoop" THEN fr.end ELSE fr.loop + 1

\* Jumps are inside a loop, and the tail of a loop stays in its order.
LoopsFit(t) ==
    \A i \in DOMAIN t :
        /\ MayJump(t[i]) => \E e \in DOMAIN t : e > i /\ EndsLoop(t[e])
        /\ t[i].op = "loopBack" => /\ i + 2 <= Len(t) /\ t[i + 1].op = "complete"
                                   /\ t[i + 2].op = "endLoop"
        /\ t[i].op = "forInc" => i + 3 <= Len(t) /\ t[i + 1].op = "loopBack"

\* Frame e ends the loop whose breaks go to b.
EndsAt(t, e, b) == EndsLoop(t[e]) /\ EndOf(t[e]) = b

\* The stack of break destinations is that of the loops being lowered, in order.
DestsMatch(t, bd) ==
    /\ \A j \in DOMAIN bd : \E e \in DOMAIN t : EndsAt(t, e, bd[j].block)
    /\ \A e \in DOMAIN t : EndsLoop(t[e]) => \E j \in DOMAIN bd : bd[j].block = EndOf(t[e])
    /\ \A i, j \in DOMAIN bd : \A d, e \in DOMAIN t :
          i < j /\ EndsAt(t, d, bd[i].block) /\ EndsAt(t, e, bd[j].block) => e < d

\* Frames that visit no continue statement.
Quiet(fr) == fr.op \in {"loopBack", "complete"} \/ (fr.op = "visit" /\ fr.stmt.kind = "call")

\* Block dest, where a continue goes in the loop that ends at end: it was emitted
\* already (the header), or it is still owned by the increment of the loop, or the
\* body is over and nothing can jump to it any more.
ContinueFits(t, f, end, dest) ==
    \/ dest \in f.emitted
    \/ \E i \in DOMAIN t : t[i].op = "forInc" /\ t[i].inc = dest /\ t[i + 3].end = end
    \/ \E e \in DOMAIN t : /\ t[e].op = "endLoop" /\ t[e].end = end
                           /\ \A i \in 1 .. e - 1 : Quiet(t[i])

\* The stack of continue destinations goes with that of break destinations.
ContinuesFit(t, f, bd, cd) ==
    \A j \in DOMAIN bd : ContinueFits(t, f, bd[j].block, cd[j].block)

\* u is the stack t with the frames fs in place of its first.
Replaces(t, fs, u) ==
    /\ t \in Seq(Frames) /\ t # << >> /\ fs \in Seq(Frames) /\ u \in Seq(Frames)
    /\ Len(u) = Len(fs) + Len(t) - 1
    /\ \A i \in 1 .. Len(fs) : i \in DOMAIN u /\ u[i] = fs[i]
    /\ \A i \in 2 .. Len(t) : i + Len(fs) - 1 \in DOMAIN u /\ u[i + Len(fs) - 1] = t[i]
    /\ \A i \in DOMAIN u : \/ i \in 1 .. Len(fs) /\ u[i] = fs[i]
                           \/ /\ i > Len(fs) /\ i - Len(fs) + 1 \in 2 .. Len(t)
                              /\ u[i] = t[i - Len(fs) + 1]

\* Running a frame replaces the first of the stack.
LEMMA PushReplaces ==
    ASSUME NEW t \in Seq(Frames), t # << >>, NEW fs \in Seq(Frames)
    PROVE  Replaces(t, fs, fs \o Tail(t))
<1> DEFINE u == fs \o Tail(t)
           m == Len(fs)
<1>1. /\ Tail(t) \in Seq(Frames) /\ Len(Tail(t)) = Len(t) - 1 /\ m \in Nat
      /\ Len(t) \in Nat \ {0} /\ \A i \in 1 .. Len(t) - 1 : Tail(t)[i] = t[i + 1]
  OBVIOUS
<1>2. /\ u \in Seq(Frames) /\ Len(u) = m + Len(t) - 1
      /\ \A i \in 1 .. m : u[i] = fs[i]
      /\ \A i \in m + 1 .. m + Len(t) - 1 : u[i] = Tail(t)[i - m]
  BY <1>1
<1> HIDE DEF u, m
<1>3. \A i \in m + 1 .. Len(u) : i - m + 1 \in 2 .. Len(t) /\ u[i] = t[i - m + 1]
  BY <1>1, <1>2
<1>4. \A i \in 2 .. Len(t) : i + m - 1 \in m + 1 .. Len(u) /\ u[i + m - 1] = t[i]
  BY <1>1, <1>2
<1>5. DOMAIN u = 1 .. Len(u)
  BY <1>2
<1>6. Replaces(t, fs, u)
  <2>1. /\ \A i \in 1 .. m : i \in DOMAIN u /\ u[i] = fs[i]
        /\ \A i \in 2 .. Len(t) : i + m - 1 \in DOMAIN u /\ u[i + m - 1] = t[i]
        /\ \A i \in DOMAIN u : \/ i \in 1 .. m /\ u[i] = fs[i]
                               \/ i > m /\ i - m + 1 \in 2 .. Len(t) /\ u[i] = t[i - m + 1]
    BY <1>1, <1>2, <1>3, <1>4, <1>5, SMTT(30)
  <2> QED BY <2>1, <1>1, <1>2 DEF Replaces, m
<1> QED BY <1>6 DEF u

\* The blocks that frame fr of f owns go to the frames fs of g or are resolved,
\* and new blocks go to fs.
Hands(fr, fs, f, g) ==
    /\ \A i \in 1 .. Len(fs) : Owned(fs[i]) \subseteq Pending(g)
    /\ \A i, j \in 1 .. Len(fs) : i # j => Owned(fs[i]) \cap Owned(fs[j]) = {}
    /\ \A i \in 1 .. Len(fs) : Owned(fs[i]) \cap Pending(f) \subseteq Owned(fr)
    /\ Pending(f) \ Owned(fr) \subseteq Pending(g)
    /\ \A b \in Pending(g) : \/ b \in Pending(f) \ Owned(fr)
                             \/ \E i \in 1 .. Len(fs) : b \in Owned(fs[i])

\* The frames that replace another take over its blocks and the new ones.
LEMMA OwnershipReplaced ==
    ASSUME NEW t, NEW fs, NEW u, Replaces(t, fs, u), NEW f, NEW g, Ownership(t, f),
           Hands(t[1], fs, f, g)
    PROVE  Ownership(u, g)
<1> DEFINE m == Len(fs)
<1>1. m \in Nat /\ Len(t) \in Nat \ {0} /\ DOMAIN t = 1 .. Len(t) /\ DOMAIN u = 1 .. Len(u)
  BY DEF Replaces
<1>2. ASSUME NEW i \in DOMAIN u, i > m
      PROVE  /\ i - m + 1 \in DOMAIN t /\ i - m + 1 # 1 /\ u[i] = t[i - m + 1]
             /\ Owned(u[i]) \subseteq Pending(f) \ Owned(t[1])
  <2>1. i - m + 1 \in 2 .. Len(t) /\ u[i] = t[i - m + 1]
    BY <1>1, <1>2 DEF Replaces
  <2>2. i - m + 1 \in DOMAIN t /\ i - m + 1 # 1 /\ 1 \in DOMAIN t
    BY <1>1, <2>1
  <2> QED BY <2>1, <2>2 DEF Ownership
<1>3. ASSUME NEW i \in DOMAIN u, ~(i > m) PROVE i \in 1 .. m /\ u[i] = fs[i]
  BY <1>1, <1>3 DEF Replaces
<1>4. \A i \in DOMAIN u : Owned(u[i]) \subseteq Pending(g)
  BY <1>2, <1>3 DEF Hands
<1>5. ASSUME NEW i \in DOMAIN u, NEW j \in DOMAIN u, i # j
      PROVE  Owned(u[i]) \cap Owned(u[j]) = {}
  <2>1. CASE i > m /\ j > m
    <3>1. i - m + 1 # j - m + 1
      BY <1>1, <1>5
    <3> QED BY <1>2, <2>1, <3>1 DEF Ownership
  <2>2. CASE ~(i > m) /\ ~(j > m)
    BY <1>3, <1>5, <2>2 DEF Hands
  <2>3. CASE i > m /\ ~(j > m)
    BY <1>2, <1>3, <2>3 DEF Hands
  <2>4. CASE ~(i > m) /\ j > m
    BY <1>2, <1>3, <2>4 DEF Hands
  <2> QED BY <2>1, <2>2, <2>3, <2>4
<1>6. ASSUME NEW b \in Pending(g) PROVE \E i \in DOMAIN u : b \in Owned(u[i])
  <2>1. CASE b \in Pending(f) \ Owned(t[1])
    <3>1. PICK i \in DOMAIN t : b \in Owned(t[i])
      BY <2>1 DEF Ownership
    <3>2. i \in 2 .. Len(t)
      BY <1>1, <2>1, <3>1
    <3>3. i + m - 1 \in DOMAIN u /\ u[i + m - 1] = t[i]
      BY <3>2 DEF Replaces
    <3> QED BY <3>1, <3>3
  <2>2. CASE \E i \in 1 .. Len(fs) : b \in Owned(fs[i])
    BY <2>2 DEF Replaces
  <2> QED BY <2>1, <2>2 DEF Hands
<1> QED BY <1>4, <1>5, <1>6 DEF Ownership

\* The block a frame joins control flow in, if it asks something of that block.
Joins(fr, c) == fr.op \in {"ifTrueExit", "ifFalseExit"} /\ fr.cond.cont = c

\* A branch being emitted goes to a block of the function that no if joins in,
\* and threads cleanups that are on the stack.
BranchFits(t, f, c) ==
    t # << >> /\ t[1].op = "branch" => /\ t[1].dest.block \in f.linked /\ t[1].top <= Len(c)
                                       /\ \A i \in DOMAIN t : ~Joins(t[i], t[1].dest.block)

\* An if owns the block it joins in.
LEMMA JoinOwned ==
    ASSUME NEW t, NEW f, Ownership(t, f), FramesFit(t, f), NEW i \in DOMAIN t, NEW c, Joins(t[i], c)
    PROVE  c \in Owned(t[i]) /\ c \in Pending(f)
<1>1. FrameFits(t[i], f) /\ Owned(t[i]) \subseteq Pending(f)
  BY DEF FramesFit, Ownership
<1>2. c # NoBlock
  BY <1>1 DEF Joins, FrameFits
<1>3. c \in Owned(t[i])
  BY <1>2 DEF Joins, Owned
<1> QED BY <1>1, <1>3

\* The other frames keep what they rely on if their blocks are left alone.
LEMMA FramesReplaced ==
    ASSUME NEW t, NEW fs, NEW u, Replaces(t, fs, u), NEW f, NEW g,
           FramesFit(t, f), f.emitted \subseteq g.emitted,
           \A i \in DOMAIN t : i # 1 => \A c : Joins(t[i], c) => Keeps(f, g, c),
           \A i \in 1 .. Len(fs) : FrameFits(fs[i], g)
    PROVE  FramesFit(u, g)
<1> SUFFICES ASSUME NEW i \in DOMAIN u PROVE FrameFits(u[i], g)
  BY DEF FramesFit
<1>1. CASE i \in 1 .. Len(fs) /\ u[i] = fs[i]
  BY <1>1
<1>2. CASE i > Len(fs) /\ i - Len(fs) + 1 \in 2 .. Len(t) /\ u[i] = t[i - Len(fs) + 1]
  <2> DEFINE j == i - Len(fs) + 1
             c == t[j].cond.cont
  <2>1. j \in DOMAIN t /\ j # 1
    BY <1>2 DEF Replaces
  <2>2. FrameFits(t[j], f)
    BY <2>1 DEF FramesFit
  <2> HIDE DEF j
  <2>3. FrameFits(t[j], g)
    <3>1. CASE t[j].op \in {"ifTrueExit", "ifFalseExit"}
      <4>1. Keeps(f, g, c)
        BY <2>1, <3>1 DEF Joins
      <4> QED BY <3>1, <4>1, <2>2 DEF FrameFits, Keeps
    <3>2. CASE t[j].op \notin {"ifTrueExit", "ifFalseExit"}
      BY <3>2, <2>2 DEF FrameFits
    <3> QED BY <3>1, <3>2
  <2> QED BY <2>3, <1>2 DEF j
<1> QED BY <1>1, <1>2 DEF Replaces

\* No other frame joins in a block of the first.
LEMMA OthersKept ==
    ASSUME NEW t, NEW f, Ownership(t, f), FramesFit(t, f), t # << >>, 1 \in DOMAIN t, NEW g,
           \A c \in Pending(f) \ Owned(t[1]) : Keeps(f, g, c)
    PROVE  \A i \in DOMAIN t : i # 1 => \A c : Joins(t[i], c) => Keeps(f, g, c)
<1> SUFFICES ASSUME NEW i \in DOMAIN t, i # 1, NEW c, Joins(t[i], c) PROVE Keeps(f, g, c)
  OBVIOUS
<1>1. c \in Owned(t[i]) /\ c \in Pending(f)
  BY JoinOwned
<1>2. Owned(t[1]) \cap Owned(t[i]) = {}
  BY DEF Ownership
<1> QED BY <1>1, <1>2

\* The insertion point a frame needs is that of the frame before it.
LEMMA ReachableReplaced ==
    ASSUME NEW t, NEW fs, NEW u, Replaces(t, fs, u), NEW f, NEW g, Reachable(t, f),
           fs # << >> /\ NeedsIP(fs[1]) => HasValidIP(g),
           \A i \in 2 .. Len(fs) : NeedsIP(fs[i]) => fs[i].op # "branch" /\ fs[i - 1].op = "bind",
           t[1].op = "bind" => IF fs = << >> THEN HasValidIP(g) ELSE fs[Len(fs)].op = "bind"
    PROVE  Reachable(u, g)
<1> DEFINE m == Len(fs)
<1>1. /\ m \in Nat /\ Len(t) \in Nat \ {0} /\ DOMAIN u = 1 .. Len(u)
      /\ (fs = << >> <=> m = 0) /\ Len(u) \in Nat /\ Len(u) = m + Len(t) - 1
  BY DEF Replaces
<1> HIDE DEF m
<1>0. /\ \A i \in 1 .. m : u[i] = fs[i]
      /\ \A i \in DOMAIN u : i > m => i - m + 1 \in 2 .. Len(t) /\ u[i] = t[i - m + 1]
  BY <1>1 DEF Replaces, m
<1>2. ASSUME u # << >>, NeedsIP(u[1]) PROVE HasValidIP(g)
  <2>1. 1 \in DOMAIN u
    BY <1>1, <1>2 
  <2>2. CASE m # 0
    BY <1>1, <1>2, <2>1, <2>2, <1>0
  <2>3. CASE m = 0
    <3>1. 2 \in 2 .. Len(t) /\ u[1] = t[2]
      BY <1>1, <2>1, <2>3, <1>0
    <3>2. t[1].op = "bind"
      BY <1>2, <3>1 DEF Reachable
    <3> QED BY <1>1, <2>3, <3>2
  <2> QED BY <2>2, <2>3
<1>3. ASSUME NEW i \in 2 .. Len(u), NeedsIP(u[i])
      PROVE  u[i].op # "branch" /\ u[i - 1].op = "bind"
  <2>1. i \in DOMAIN u /\ i - 1 \in DOMAIN u
    BY <1>1
  <2>2. CASE i <= m
    <3>1. u[i] = fs[i] /\ u[i - 1] = fs[i - 1] /\ i \in 2 .. m
      BY <1>1, <2>2, <1>0
    <3> QED BY <1>3, <3>1 DEF m
  <2>3. CASE i = m + 1
    <3>1. 2 \in 2 .. Len(t) /\ u[i] = t[2] /\ m # 0
      BY <1>1, <2>3, <2>1, <1>0, SMTT(60)
    <3>2. t[1].op = "bind" /\ t[2].op # "branch"
      BY <1>3, <3>1 DEF Reachable
    <3>3. u[i - 1] = fs[m]
      BY <1>1, <2>3, <3>1, <1>0
    <3> QED BY <1>1, <3>1, <3>2, <3>3 DEF m
  <2>4. CASE i > m + 1
    <3>1. i - m + 1 \in 2 .. Len(t) /\ u[i] = t[i - m + 1] /\ u[i - 1] = t[(i - m + 1) - 1]
      <4>1. i - m + 1 \in 2 .. Len(t) /\ u[i] = t[i - m + 1]
        BY <1>1, <2>4, <2>1, <1>0
      <4>2. u[i - 1] = t[(i - 1) - m + 1]
        BY <1>1, <2>4, <2>1, <1>0, SMTT(30)
      <4>3. (i - 1) - m + 1 = (i - m + 1) - 1
        BY <1>1
      <4> QED BY <4>1, <4>2, <4>3
    <3> QED BY <1>3, <3>1 DEF Reachable
  <2> QED BY <1>1, <2>2, <2>3, <2>4
<1> QED BY <1>2, <1>3 DEF Reachable

\* What Replaces says of positions, with nothing about frames.
LEMMA ReplacedAt ==
    ASSUME NEW t, NEW fs, NEW u, Replaces(t, fs, u)
    PROVE  LET m == Len(fs)
           IN  /\ m \in Nat /\ Len(t) \in Nat \ {0} /\ Len(u) = m + Len(t) - 1
               /\ DOMAIN t = 1 .. Len(t) /\ DOMAIN u = 1 .. Len(u) /\ DOMAIN fs = 1 .. m
               /\ \A i \in 1 .. m : i \in DOMAIN u /\ u[i] = fs[i]
               /\ \A i \in DOMAIN t : i # 1 => i + m - 1 \in DOMAIN u /\ u[i + m - 1] = t[i]
               /\ \A i \in DOMAIN u : i > m => /\ i - m + 1 \in DOMAIN t /\ i - m + 1 # 1
                                               /\ u[i] = t[i - m + 1]
<1>1. /\ Len(fs) \in Nat /\ Len(t) \in Nat \ {0} /\ Len(u) = Len(fs) + Len(t) - 1
      /\ DOMAIN t = 1 .. Len(t) /\ DOMAIN u = 1 .. Len(u) /\ DOMAIN fs = 1 .. Len(fs)
  BY DEF Replaces
<1>2. \A i \in DOMAIN t : i # 1 => i \in 2 .. Len(t)
  BY <1>1
<1>3. \A i \in 2 .. Len(t) : i \in DOMAIN t /\ i # 1
  BY <1>1
<1>4. \A i \in 1 .. Len(fs) : i \in DOMAIN u /\ u[i] = fs[i]
  BY DEF Replaces
<1>5. \A i \in DOMAIN t : i # 1 => i + Len(fs) - 1 \in DOMAIN u /\ u[i + Len(fs) - 1] = t[i]
  BY <1>2 DEF Replaces
<1>6. ASSUME NEW i \in DOMAIN u, i > Len(fs)
      PROVE  i - Len(fs) + 1 \in DOMAIN t /\ i - Len(fs) + 1 # 1 /\ u[i] = t[i - Len(fs) + 1]
  <2>1. i - Len(fs) + 1 \in 2 .. Len(t) /\ u[i] = t[i - Len(fs) + 1]
    BY <1>1, <1>6 DEF Replaces
  <2> QED BY <2>1, <1>3
<1> QED BY <1>1, <1>4, <1>5, <1>6

\* The tails of loops stay in order under the frames that replace the first.
LEMMA LoopsReplaced ==
    ASSUME NEW t, NEW fs, NEW u, Replaces(t, fs, u), LoopsFit(t),
           \A i \in DOMAIN fs :
              /\ MayJump(fs[i]) => \/ MayJump(t[1])
                                   \/ \E e \in DOMAIN fs : e > i /\ EndsLoop(fs[e])
              /\ fs[i].op = "loopBack" => /\ i + 2 <= Len(fs) /\ fs[i + 1].op = "complete"
                                          /\ fs[i + 2].op = "endLoop"
              /\ fs[i].op = "forInc" => i + 3 <= Len(fs) /\ fs[i + 1].op = "loopBack"
    PROVE  LoopsFit(u)
<1> DEFINE m == Len(fs)
<1>1. /\ m \in Nat /\ Len(t) \in Nat \ {0} /\ Len(u) = m + Len(t) - 1
      /\ DOMAIN t = 1 .. Len(t) /\ DOMAIN u = 1 .. Len(u) /\ DOMAIN fs = 1 .. m
      /\ \A i \in 1 .. m : i \in DOMAIN u /\ u[i] = fs[i]
      /\ \A i \in DOMAIN t : i # 1 => i + m - 1 \in DOMAIN u /\ u[i + m - 1] = t[i]
      /\ \A i \in DOMAIN u : i > m => /\ i - m + 1 \in DOMAIN t /\ i - m + 1 # 1
                                      /\ u[i] = t[i - m + 1]
  BY ReplacedAt
<1> SUFFICES ASSUME NEW i \in DOMAIN u
             PROVE  /\ MayJump(u[i]) => \E e \in DOMAIN u : e > i /\ EndsLoop(u[e])
                    /\ u[i].op = "loopBack" => /\ i + 2 <= Len(u) /\ u[i + 1].op = "complete"
                                               /\ u[i + 2].op = "endLoop"
                    /\ u[i].op = "forInc" => i + 3 <= Len(u) /\ u[i + 1].op = "loopBack"
  BY DEF LoopsFit
<1>2. CASE i > m
  <2> DEFINE j == i - m + 1
  <2>1. j \in DOMAIN t /\ j # 1 /\ u[i] = t[j] /\ j \in Int /\ j > 1 /\ i = j + m - 1
    BY <1>1, <1>2
  <2> HIDE DEF j, m
  <2>2. ASSUME MayJump(u[i]) PROVE \E e \in DOMAIN u : e > i /\ EndsLoop(u[e])
    <3>1. PICK e \in DOMAIN t : e > j /\ EndsLoop(t[e])
      BY <2>1, <2>2 DEF LoopsFit
    <3>2. e # 1 /\ e + m - 1 > i
      BY <1>1, <2>1, <3>1
    <3> QED BY <1>1, <3>1, <3>2
  <2>3. ASSUME NEW d \in {1, 2, 3}, j + d <= Len(t)
        PROVE  i + d <= Len(u) /\ u[i + d] = t[j + d]
    <3>0. /\ m \in Nat /\ Len(t) \in Nat /\ DOMAIN t = 1 .. Len(t) /\ Len(u) = m + Len(t) - 1
          /\ j \in Int /\ j > 1 /\ i = j + m - 1 /\ d \in Int /\ d > 0
      BY <1>1, <2>1
    <3>1. j + d \in DOMAIN t /\ j + d # 1 /\ (j + d) + m - 1 = i + d /\ i + d <= Len(u)
      <4> HIDE DEF j, m
      <4>1. CASE d = 1
        BY <4>1, <3>0, <2>3, SMTT(30)
      <4>2. CASE d = 2
        BY <4>2, <3>0, <2>3
      <4>3. CASE d = 3
        BY <4>3, <3>0, <2>3
      <4> QED BY <4>1, <4>2, <4>3
    <3>2. u[(j + d) + m - 1] = t[j + d]
      BY <1>1, <3>1
    <3> QED BY <3>1, <3>2
  <2>4. ASSUME u[i].op = "loopBack"
        PROVE  i + 2 <= Len(u) /\ u[i + 1].op = "complete" /\ u[i + 2].op = "endLoop"
    <3>1. j + 2 <= Len(t) /\ t[j + 1].op = "complete" /\ t[j + 2].op = "endLoop"
      BY <2>1, <2>4 DEF LoopsFit
    <3>2. j + 1 <= Len(t)
      BY <2>1, <3>1, <1>1
    <3> QED BY <2>3, <3>1, <3>2
  <2>5. ASSUME u[i].op = "forInc" PROVE i + 3 <= Len(u) /\ u[i + 1].op = "loopBack"
    <3>1. j + 3 <= Len(t) /\ t[j + 1].op = "loopBack"
      BY <2>1, <2>5 DEF LoopsFit
    <3>2. j + 1 <= Len(t)
      BY <2>1, <3>1, <1>1
    <3> QED BY <2>3, <3>1, <3>2
  <2> QED BY <2>2, <2>4, <2>5
<1>3. CASE ~(i > m)
  <2>1. i \in 1 .. m /\ i \in DOMAIN fs /\ u[i] = fs[i]
    BY <1>1, <1>3
  <2> HIDE DEF m
  <2>2. ASSUME MayJump(u[i]) PROVE \E e \in DOMAIN u : e > i /\ EndsLoop(u[e])
    <3>1. CASE MayJump(t[1])
      <4>1. PICK e \in DOMAIN t : e > 1 /\ EndsLoop(t[e])
        BY <1>1, <3>1 DEF LoopsFit
      <4>2. e # 1 /\ e + m - 1 > i
        BY <1>1, <2>1, <4>1
      <4> QED BY <1>1, <4>1, <4>2
    <3>2. CASE \E e \in DOMAIN fs : e > i /\ EndsLoop(fs[e])
      BY <1>1, <3>2
    <3> QED BY <2>1, <2>2, <3>1, <3>2
  <2>3. ASSUME NEW d \in {1, 2, 3}, i + d <= m
        PROVE  i + d <= Len(u) /\ u[i + d] = fs[i + d]
    <3>1. i + d \in 1 .. m
      BY <1>1, <2>1, <2>3, SMTT(30)
    <3> QED BY <1>1, <3>1
  <2>4. ASSUME u[i].op = "loopBack"
        PROVE  i + 2 <= Len(u) /\ u[i + 1].op = "complete" /\ u[i + 2].op = "endLoop"
    <3>1. i + 2 <= m /\ fs[i + 1].op = "complete" /\ fs[i + 2].op = "endLoop"
      BY <2>1, <2>4 DEF m
    <3>2. i + 1 <= m
      BY <1>1, <2>1, <3>1
    <3> QED BY <2>3, <3>1, <3>2
  <2>5. ASSUME u[i].op = "forInc" PROVE i + 3 <= Len(u) /\ u[i + 1].op = "loopBack"
    <3>1. i + 3 <= m /\ fs[i + 1].op = "loopBack"
      BY <2>1, <2>5 DEF m
    <3>2. i + 1 <= m
      BY <1>1, <2>1, <3>1
    <3> QED BY <2>3, <3>1, <3>2
  <2> QED BY <2>2, <2>4, <2>5
<1> QED BY <1>2, <1>3

\* The destinations of a step that neither opens nor closes a loop.
LEMMA DestsReplaced ==
    ASSUME NEW t, NEW fs, NEW u, Replaces(t, fs, u), NEW bd, DestsMatch(t, bd),
           \A i \in DOMAIN fs : EndsLoop(fs[i]) => EndsLoop(t[1]) /\ EndOf(fs[i]) = EndOf(t[1]),
           EndsLoop(t[1]) => \E i \in DOMAIN fs : EndsLoop(fs[i])
    PROVE  DestsMatch(u, bd)
<1> DEFINE m == Len(fs)
           At(i) == IF i > m THEN i - m + 1 ELSE 1
<1>1. /\ m \in Nat /\ Len(t) \in Nat \ {0} /\ Len(u) = m + Len(t) - 1
      /\ DOMAIN t = 1 .. Len(t) /\ DOMAIN u = 1 .. Len(u) /\ DOMAIN fs = 1 .. m
      /\ \A i \in 1 .. m : i \in DOMAIN u /\ u[i] = fs[i]
      /\ \A i \in DOMAIN t : i # 1 => i + m - 1 \in DOMAIN u /\ u[i + m - 1] = t[i]
      /\ \A i \in DOMAIN u : i > m => /\ i - m + 1 \in DOMAIN t /\ i - m + 1 # 1
                                      /\ u[i] = t[i - m + 1]
  BY ReplacedAt
<1> HIDE DEF m
<1>2. ASSUME NEW i \in DOMAIN u, EndsLoop(u[i])
      PROVE  At(i) \in DOMAIN t /\ EndsLoop(t[At(i)]) /\ EndOf(t[At(i)]) = EndOf(u[i])
  <2>1. CASE i > m
    BY <1>1, <1>2, <2>1
  <2>2. CASE ~(i > m)
    <3>1. i \in DOMAIN fs /\ u[i] = fs[i] /\ 1 \in DOMAIN t
      BY <1>1, <2>2
    <3> QED BY <3>1, <1>2, <2>2
  <2> QED BY <2>1, <2>2
<1>3. ASSUME NEW e \in DOMAIN t, EndsLoop(t[e])
      PROVE  \E i \in DOMAIN u : EndsLoop(u[i]) /\ EndOf(u[i]) = EndOf(t[e])
  <2>1. CASE e = 1
    BY <1>1, <1>3, <2>1
  <2>2. CASE e # 1
    BY <1>1, <1>3, <2>2
  <2> QED BY <2>1, <2>2
<1>4. \A j \in DOMAIN bd : \E e \in DOMAIN u : EndsAt(u, e, bd[j].block)
  BY <1>3 DEF DestsMatch, EndsAt
<1>5. \A e \in DOMAIN u : EndsLoop(u[e]) => \E j \in DOMAIN bd : bd[j].block = EndOf(u[e])
  BY <1>2 DEF DestsMatch
<1>6. ASSUME NEW i \in DOMAIN bd, NEW j \in DOMAIN bd, NEW d \in DOMAIN u, NEW e \in DOMAIN u,
             i < j, EndsAt(u, d, bd[i].block), EndsAt(u, e, bd[j].block)
      PROVE  e < d
  <2>1. /\ At(d) \in DOMAIN t /\ At(e) \in DOMAIN t
        /\ EndsAt(t, At(d), bd[i].block) /\ EndsAt(t, At(e), bd[j].block)
    BY <1>2, <1>6 DEF EndsAt
  <2> HIDE DEF At
  <2>2. At(e) < At(d)
    BY <1>6, <2>1 DEF DestsMatch
  <2> USE DEF At
  <2> QED BY <2>1, <2>2, <1>1, SMTT(30)
<1> QED BY <1>4, <1>5, <1>6 DEF DestsMatch

\* The end block of a loop is owned by the frame that ends it.
LEMMA EndOwned ==
    ASSUME NEW t, NEW f, Ownership(t, f), NEW e \in DOMAIN t, EndsLoop(t[e])
    PROVE  EndOf(t[e]) \in Owned(t[e]) /\ EndOf(t[e]) \in Pending(f)
<1>1. EndOf(t[e]) \in Owned(t[e])
  BY DEF EndsLoop, EndOf, Owned
<1> QED BY <1>1 DEF Ownership

\* A new loop: its end is a block that did not exist.
LEMMA DestsPushed ==
    ASSUME NEW t, NEW fs, NEW u, Replaces(t, fs, u), NEW f, Ownership(t, f),
           NEW bd \in Seq(Dests), DestsMatch(t, bd), NEW new \in Dests,
           new.block \notin f.linked, ~EndsLoop(t[1]),
           \A i \in DOMAIN fs : EndsLoop(fs[i]) => EndOf(fs[i]) = new.block,
           \E i \in DOMAIN fs : EndsLoop(fs[i])
    PROVE  DestsMatch(u, Append(bd, new))
<1> DEFINE m == Len(fs)
           bdn == Append(bd, new)
<1>1. /\ m \in Nat /\ Len(t) \in Nat \ {0} /\ Len(u) = m + Len(t) - 1
      /\ DOMAIN t = 1 .. Len(t) /\ DOMAIN u = 1 .. Len(u) /\ DOMAIN fs = 1 .. m
      /\ \A i \in 1 .. m : i \in DOMAIN u /\ u[i] = fs[i]
      /\ \A i \in DOMAIN t : i # 1 => i + m - 1 \in DOMAIN u /\ u[i + m - 1] = t[i]
      /\ \A i \in DOMAIN u : i > m => /\ i - m + 1 \in DOMAIN t /\ i - m + 1 # 1
                                      /\ u[i] = t[i - m + 1]
  BY ReplacedAt
<1> HIDE DEF m
<1>2. /\ DOMAIN bdn = DOMAIN bd \cup {Len(bd) + 1} /\ bdn[Len(bd) + 1] = new
      /\ \A j \in DOMAIN bd : bdn[j] = bd[j] /\ j < Len(bd) + 1
      /\ DOMAIN bd = 1 .. Len(bd) /\ Len(bd) \in Nat
  OBVIOUS
<1> HIDE DEF bdn
<1>3. ASSUME NEW e \in DOMAIN t, EndsLoop(t[e]) PROVE EndOf(t[e]) # new.block
  BY <1>3, EndOwned DEF Pending
<1>4. ASSUME NEW i \in DOMAIN u, EndsLoop(u[i])
      PROVE  \/ i > m /\ EndsLoop(t[i - m + 1]) /\ EndOf(u[i]) # new.block
             \/ ~(i > m) /\ EndOf(u[i]) = new.block
  <2>1. CASE i > m
    BY <1>1, <1>3, <1>4, <2>1, SMTT(30)
  <2>2. CASE ~(i > m)
    <3>1. i \in DOMAIN fs /\ u[i] = fs[i]
      BY <1>1, <2>2
    <3> QED BY <3>1, <1>4, <2>2
  <2> QED BY <2>1, <2>2
<1>5. ASSUME NEW j \in DOMAIN bdn PROVE \E e \in DOMAIN u : EndsAt(u, e, bdn[j].block)
  <2>1. CASE j \in DOMAIN bd
    <3>1. PICK e \in DOMAIN t : EndsAt(t, e, bd[j].block)
      BY <2>1 DEF DestsMatch
    <3>2. e # 1
      BY <3>1 DEF EndsAt
    <3>3. e + m - 1 \in DOMAIN u /\ u[e + m - 1] = t[e]
      BY <1>1, <3>2
    <3>4. EndsAt(u, e + m - 1, bdn[j].block)
      BY <1>2, <2>1, <3>1, <3>3 DEF EndsAt
    <3> QED BY <3>3, <3>4
  <2>2. CASE j = Len(bd) + 1
    <3>1. PICK i \in DOMAIN fs : EndsLoop(fs[i])
      OBVIOUS
    <3>2. i \in DOMAIN u /\ EndsAt(u, i, bdn[j].block)
      BY <1>1, <1>2, <2>2, <3>1 DEF EndsAt
    <3> QED BY <3>2
  <2> QED BY <1>2, <2>1, <2>2
<1>6. ASSUME NEW e \in DOMAIN u, EndsLoop(u[e]) PROVE \E j \in DOMAIN bdn : bdn[j].block = EndOf(u[e])
  <2>1. CASE e > m
    <3>1. e - m + 1 \in DOMAIN t /\ u[e] = t[e - m + 1]
      BY <1>1, <2>1
    <3>2. PICK j \in DOMAIN bd : bd[j].block = EndOf(u[e])
      BY <1>6, <3>1 DEF DestsMatch
    <3> QED BY <1>2, <3>2
  <2>2. CASE ~(e > m)
    BY <1>2, <1>4, <1>6, <2>2
  <2> QED BY <2>1, <2>2
<1>7. ASSUME NEW i \in DOMAIN bdn, NEW j \in DOMAIN bdn, NEW d \in DOMAIN u, NEW e \in DOMAIN u,
             i < j, EndsAt(u, d, bdn[i].block), EndsAt(u, e, bdn[j].block)
      PROVE  e < d
  <2>1. i \in DOMAIN bd
    BY <1>2, <1>7
  <2>2. bd[i].block # new.block
    <3>1. PICK x \in DOMAIN t : EndsAt(t, x, bd[i].block)
      BY <2>1 DEF DestsMatch
    <3> QED BY <3>1, <1>3 DEF EndsAt
  <2>3. d > m
    BY <1>2, <1>4, <1>7, <2>1, <2>2 DEF EndsAt
  <2>4. CASE j = Len(bd) + 1
    <3>1. ~(e > m)
      BY <1>2, <1>4, <1>7, <2>4 DEF EndsAt
    <3> QED BY <1>1, <2>3, <3>1
  <2>5. CASE j \in DOMAIN bd
    <3>1. bd[j].block # new.block
      <4>1. PICK x \in DOMAIN t : EndsAt(t, x, bd[j].block)
        BY <2>5 DEF DestsMatch
      <4> QED BY <4>1, <1>3 DEF EndsAt
    <3>2. e > m
      BY <1>2, <1>4, <1>7, <2>5, <3>1 DEF EndsAt
    <3>3. /\ d - m + 1 \in DOMAIN t /\ u[d] = t[d - m + 1]
          /\ e - m + 1 \in DOMAIN t /\ u[e] = t[e - m + 1]
      BY <1>1, <2>3, <3>2
    <3>4. EndsAt(t, d - m + 1, bd[i].block) /\ EndsAt(t, e - m + 1, bd[j].block)
      BY <1>2, <1>7, <2>1, <2>5, <3>3 DEF EndsAt
    <3>5. e - m + 1 < d - m + 1
      BY <1>7, <2>1, <2>5, <3>3, <3>4 DEF DestsMatch
    <3> QED BY <1>1, <3>5
  <2> QED BY <1>2, <2>4, <2>5
<1>8. DestsMatch(u, bdn)
  BY <1>5, <1>6, <1>7 DEF DestsMatch
<1> QED BY <1>8 DEF bdn

\* The innermost destination is that of the first frame, if this ends a loop.
LEMMA InnermostEnds ==
    ASSUME NEW t, NEW bd \in Seq(Dests), DestsMatch(t, bd), 1 \in DOMAIN t,
           DOMAIN t \subseteq Nat \ {0}, EndsLoop(t[1])
    PROVE  /\ bd # << >> /\ bd[Len(bd)].block = EndOf(t[1])
           /\ \A j \in 1 .. Len(bd) - 1 : bd[j].block # EndOf(t[1])
<1>1. PICK j \in DOMAIN bd : bd[j].block = EndOf(t[1])
  BY DEF DestsMatch
<1>2. Len(bd) \in DOMAIN bd /\ DOMAIN bd = 1 .. Len(bd) /\ bd # << >>
  BY <1>1
<1>3. ASSUME NEW i \in DOMAIN bd, bd[i].block = EndOf(t[1]), i # Len(bd) PROVE FALSE
  <2>1. PICK e \in DOMAIN t : EndsAt(t, e, bd[Len(bd)].block)
    BY <1>2 DEF DestsMatch
  <2>2. EndsAt(t, 1, bd[i].block) /\ i < Len(bd)
    BY <1>2, <1>3 DEF EndsAt
  <2>3. e < 1
    BY <1>2, <2>1, <2>2 DEF DestsMatch
  <2> QED BY <2>1, <2>3
<1> QED BY <1>1, <1>2, <1>3

\* The end of a loop.
LEMMA DestsPopped ==
    ASSUME NEW t, NEW u, Replaces(t, << >>, u), NEW f, Ownership(t, f),
           NEW bd \in Seq(Dests), DestsMatch(t, bd), t[1].op = "endLoop"
    PROVE  DestsMatch(u, SubSeq(bd, 1, Len(bd) - 1))
<1> DEFINE bdn == SubSeq(bd, 1, Len(bd) - 1)
<1>1. /\ Len(t) \in Nat \ {0} /\ DOMAIN t = 1 .. Len(t) /\ DOMAIN u = 1 .. Len(u)
      /\ Len(u) = Len(t) - 1
      /\ \A i \in DOMAIN t : i # 1 => i - 1 \in DOMAIN u /\ u[i - 1] = t[i]
      /\ \A i \in DOMAIN u : i + 1 \in DOMAIN t /\ i + 1 # 1 /\ u[i] = t[i + 1]
  <2>0. Len(<< >>) = 0
    OBVIOUS
  <2>1. /\ Len(t) \in Nat \ {0} /\ DOMAIN t = 1 .. Len(t) /\ DOMAIN u = 1 .. Len(u)
        /\ Len(u) = 0 + Len(t) - 1
        /\ \A i \in DOMAIN t : i # 1 => i + 0 - 1 \in DOMAIN u /\ u[i + 0 - 1] = t[i]
        /\ \A i \in DOMAIN u : i > 0 => i - 0 + 1 \in DOMAIN t /\ i - 0 + 1 # 1 /\ u[i] = t[i - 0 + 1]
    <3> DEFINE fs == << >>
    <3>1. Replaces(t, fs, u) /\ Len(fs) = 0
      BY <2>0
    <3> HIDE DEF fs
    <3> QED BY <3>1, ReplacedAt
  <2> QED BY <2>1, SMTT(30)
<1>2. 1 \in DOMAIN t /\ EndsLoop(t[1]) /\ DOMAIN t \subseteq Nat \ {0}
  BY <1>1 DEF EndsLoop
<1>3. /\ bd # << >> /\ bd[Len(bd)].block = EndOf(t[1])
      /\ \A j \in 1 .. Len(bd) - 1 : bd[j].block # EndOf(t[1])
  BY <1>2, InnermostEnds
<1>4. /\ DOMAIN bdn = 1 .. Len(bd) - 1 /\ DOMAIN bd = 1 .. Len(bd) /\ Len(bd) \in Nat \ {0}
      /\ \A j \in DOMAIN bdn : j \in DOMAIN bd /\ bdn[j] = bd[j]
      /\ \A j \in DOMAIN bd : j # Len(bd) => j \in DOMAIN bdn
  BY <1>3
<1> HIDE DEF bdn
<1>5. ASSUME NEW j \in DOMAIN bdn PROVE \E e \in DOMAIN u : EndsAt(u, e, bdn[j].block)
  <2>1. PICK e \in DOMAIN t : EndsAt(t, e, bd[j].block)
    BY <1>4 DEF DestsMatch
  <2>2. e # 1
    BY <1>3, <1>4, <2>1 DEF EndsAt
  <2>3. e - 1 \in DOMAIN u /\ u[e - 1] = t[e]
    BY <1>1, <2>2
  <2>4. EndsAt(u, e - 1, bdn[j].block)
    BY <1>4, <2>1, <2>3 DEF EndsAt
  <2> QED BY <2>3, <2>4
<1>6. ASSUME NEW e \in DOMAIN u, EndsLoop(u[e]) PROVE \E j \in DOMAIN bdn : bdn[j].block = EndOf(u[e])
  <2>1. e + 1 \in DOMAIN t /\ e + 1 # 1 /\ u[e] = t[e + 1]
    BY <1>1
  <2>2. PICK j \in DOMAIN bd : bd[j].block = EndOf(u[e])
    BY <1>6, <2>1 DEF DestsMatch
  <2>3. EndOf(t[e + 1]) \in Owned(t[e + 1]) /\ EndOf(t[1]) \in Owned(t[1])
    BY <1>2, <1>6, <2>1, EndOwned
  <2>4. EndOf(u[e]) # EndOf(t[1])
    BY <1>2, <2>1, <2>3 DEF Ownership
  <2> QED BY <1>3, <1>4, <2>2, <2>4
<1>7. ASSUME NEW i \in DOMAIN bdn, NEW j \in DOMAIN bdn, NEW d \in DOMAIN u, NEW e \in DOMAIN u,
             i < j, EndsAt(u, d, bdn[i].block), EndsAt(u, e, bdn[j].block)
      PROVE  e < d
  <2>1. d + 1 \in DOMAIN t /\ e + 1 \in DOMAIN t /\ u[d] = t[d + 1] /\ u[e] = t[e + 1]
    BY <1>1
  <2>2. EndsAt(t, d + 1, bd[i].block) /\ EndsAt(t, e + 1, bd[j].block)
    BY <1>4, <1>7, <2>1 DEF EndsAt
  <2>3. e + 1 < d + 1
    BY <1>4, <1>7, <2>1, <2>2 DEF DestsMatch
  <2> QED BY <1>1, <2>3
<1>8. DestsMatch(u, bdn)
  BY <1>5, <1>6, <1>7 DEF DestsMatch
<1> QED BY <1>8 DEF bdn

\* The continue destination of a loop, after a step that does not reach it.
LEMMA ContinueReplaced ==
    ASSUME NEW t, NEW fs, NEW u, Replaces(t, fs, u), LoopsFit(t), NEW f, NEW g,
           f.emitted \subseteq g.emitted, t[1].op \notin {"forInc", "endLoop"},
           Quiet(t[1]) => \A i \in DOMAIN fs : Quiet(fs[i]),
           NEW end, NEW dest, ContinueFits(t, f, end, dest)
    PROVE  ContinueFits(u, g, end, dest)
<1> DEFINE m == Len(fs)
<1>1. /\ m \in Nat /\ Len(t) \in Nat \ {0} /\ Len(u) = m + Len(t) - 1
      /\ DOMAIN t = 1 .. Len(t) /\ DOMAIN u = 1 .. Len(u) /\ DOMAIN fs = 1 .. m
      /\ \A i \in 1 .. m : i \in DOMAIN u /\ u[i] = fs[i]
      /\ \A i \in DOMAIN t : i # 1 => i + m - 1 \in DOMAIN u /\ u[i + m - 1] = t[i]
      /\ \A i \in DOMAIN u : i > m => /\ i - m + 1 \in DOMAIN t /\ i - m + 1 # 1
                                      /\ u[i] = t[i - m + 1]
  BY ReplacedAt
<1> HIDE DEF m
<1>2. CASE dest \in f.emitted
  BY <1>2 DEF ContinueFits
<1>3. CASE \E i \in DOMAIN t : t[i].op = "forInc" /\ t[i].inc = dest /\ t[i + 3].end = end
  <2>1. PICK i \in DOMAIN t : t[i].op = "forInc" /\ t[i].inc = dest /\ t[i + 3].end = end
    BY <1>3
  <2>2. i # 1 /\ i + 3 <= Len(t)
    BY <2>1 DEF LoopsFit
  <2>3. i + 3 \in DOMAIN t /\ i + 3 # 1 /\ (i + 3) + m - 1 = (i + m - 1) + 3
    BY <1>1, <2>2
  <2>4. u[(i + 3) + m - 1] = t[i + 3] /\ i + m - 1 \in DOMAIN u /\ u[i + m - 1] = t[i]
    BY <1>1, <2>2, <2>3
  <2>5. u[(i + m - 1) + 3] = t[i + 3]
    BY <2>3, <2>4
  <2> QED BY <2>1, <2>4, <2>5 DEF ContinueFits
<1>4. CASE \E e \in DOMAIN t : /\ t[e].op = "endLoop" /\ t[e].end = end
                               /\ \A i \in 1 .. e - 1 : Quiet(t[i])
  <2>1. PICK e \in DOMAIN t : /\ t[e].op = "endLoop" /\ t[e].end = end
                              /\ \A i \in 1 .. e - 1 : Quiet(t[i])
    BY <1>4
  <2>2. e # 1 /\ 1 \in 1 .. e - 1 /\ Quiet(t[1])
    BY <1>1, <2>1
  <2>3. e + m - 1 \in DOMAIN u /\ u[e + m - 1] = t[e]
    BY <1>1, <2>2
  <2>4. ASSUME NEW i \in 1 .. (e + m - 1) - 1 PROVE Quiet(u[i])
    <3>1. i \in DOMAIN u /\ i \in Int
      BY <1>1, <2>1, <2>2
    <3>2. CASE i > m
      <4>1. i - m + 1 \in 1 .. e - 1 /\ u[i] = t[i - m + 1]
        BY <1>1, <2>1, <3>1, <3>2, SMTT(30)
      <4> QED BY <4>1, <2>1
    <3>3. CASE ~(i > m)
      <4>1. i \in DOMAIN fs /\ u[i] = fs[i]
        BY <1>1, <3>1, <3>3
      <4> QED BY <4>1, <2>2
    <3> QED BY <3>2, <3>3
  <2> QED BY <2>1, <2>3, <2>4 DEF ContinueFits
<1> QED BY <1>2, <1>3, <1>4 DEF ContinueFits

-----------------------------------------------------------------------------
\* Frames are made this way.
LEMMA FrameForms ==
    /\ \A vs \in Seq(Name) : Bind(vs) \in Frames
    /\ \A s \in LoopStmt : Visit(s) \in Frames
    /\ \A ss \in Seq(LoopStmt), b \in BOOLEAN : [op |-> "brace", rest |-> ss, first |-> b] \in Frames
    /\ \A d \in Nat : [op |-> "endScope", depth |-> d] \in Frames
    /\ \A d \in Dests, n \in Nat : [op |-> "branch", dest |-> d, top |-> n] \in Frames
    /\ \A c \in CondRecs : /\ \A s \in LoopStmt \cup {NoStmt} :
                                 [op |-> "ifTrueExit", cond |-> c, else |-> s] \in Frames
                           /\ [op |-> "ifFalseExit", cond |-> c] \in Frames
                           /\ [op |-> "complete", cond |-> c] \in Frames
                           /\ \A b \in Block : [op |-> "loopBack", loop |-> b, cond |-> c] \in Frames
    /\ \A b \in Block : /\ [op |-> "endLoop", end |-> b] \in Frames
                        /\ \A n \in Name : [op |-> "doCondition", loop |-> b, cond |-> n] \in Frames
                        /\ \A n \in Callable : [op |-> "forInc", inc |-> b, call |-> n] \in Frames
    /\ \A s \in LoopStmt : /\ [op |-> "forHead", stmt |-> s] \in Frames
                           /\ [op |-> "forEachHead", stmt |-> s] \in Frames
BY DEF Frames, Bind, Visit

\* Frames are made of these fields.
LEMMA FrameFields ==
    ASSUME NEW fr \in Frames
    PROVE  /\ fr.op = "bind" => fr.vars \in Seq(Name) /\ fr = Bind(fr.vars)
           /\ fr.op = "visit" => fr.stmt \in LoopStmt /\ fr = Visit(fr.stmt)
           /\ fr.op = "brace" => fr.rest \in Seq(LoopStmt) /\ fr.first \in BOOLEAN
           /\ fr.op = "endScope" => fr.depth \in Nat
           /\ fr.op = "branch" => /\ fr.dest \in Dests /\ fr.top \in Nat
                                  /\ fr = [op |-> "branch", dest |-> fr.dest, top |-> fr.top]
           /\ fr.op = "ifTrueExit" => fr.cond \in CondRecs /\ fr.else \in LoopStmt \cup {NoStmt}
           /\ fr.op \in {"ifFalseExit", "complete"} => fr.cond \in CondRecs
           /\ fr.op = "loopBack" => fr.loop \in Block /\ fr.cond \in CondRecs
           /\ fr.op = "endLoop" => fr.end \in Block
           /\ fr.op = "doCondition" => fr.loop \in Block /\ fr.cond \in Name
           /\ fr.op \in {"forHead", "forEachHead"} => fr.stmt \in LoopStmt
           /\ fr.op = "forInc" => fr.inc \in Block /\ fr.call \in Callable
BY DEF Frames, Bind, Visit

\* The parts of a statement are statements and names.
LEMMA StatementParts ==
    ASSUME NEW s \in LoopStmt
    PROVE  /\ FreeStmt \subseteq LoopStmt
           /\ s.kind \in {"call", "return"} => s.id \in Name
           /\ s.kind = "var" => s.vars \in Seq(Name)
           /\ s.kind = "brace" => s.body \in Seq(LoopStmt)
           /\ s.kind = "if" => /\ s.cond \in Name /\ s.then \in LoopStmt
                               /\ s.else \in LoopStmt \cup {NoStmt}
           /\ s.kind \in {"while", "dowhile", "for", "foreach"} => s.cond \in Name /\ s.body \in LoopStmt
           /\ s.kind = "for" => s.vars \in Seq(Name)
           /\ s.kind = "foreach" => s.range \in Seq(Name) /\ s.elem \in Seq(Name)
BY StatementAssumption DEF Grammar, Made

\* The clauses of a for statement are calls.
LEMMA ForParts ==
    ASSUME NEW s \in LoopStmt, s.kind = "for", NEW name \in {s.init, s.inc}
    PROVE  name \in Callable
<1>1. name # NoName => CallOf(name) \in FreeStmt
  BY StatementAssumption DEF Grammar, Made
<1>2. CASE name = NoName
  BY <1>2 DEF Callable
<1>3. CASE name # NoName
  <2>1. CallOf(name).kind = "call" /\ CallOf(name).id = name
    BY DEF CallOf
  <2>2. CallOf(name).id \in Name
    BY <1>1, <1>3, <2>1, StatementParts DEF Grammar
  <2> QED BY <1>1, <1>3, <2>1, <2>2 DEF Callable
<1> QED BY <1>2, <1>3

\* A statement that may stand outside every loop has such parts.
LEMMA FreeParts ==
    ASSUME NEW s \in FreeStmt
    PROVE  /\ s \in LoopStmt /\ s.kind \notin {"break", "continue"}
           /\ s.kind = "brace" => s.body \in Seq(FreeStmt)
           /\ s.kind = "if" => s.then \in FreeStmt /\ s.else \in FreeStmt \cup {NoStmt}
BY StatementAssumption DEF Grammar, Made

\* An optional clause is one call, or nothing.
LEMMA MaybeFrames ==
    ASSUME NEW name \in Callable
    PROVE  LET fs == Maybe(name)
           IN  /\ fs \in Seq(Frames) /\ Len(fs) \in {0, 1}
               /\ \A i \in DOMAIN fs : /\ i = 1 /\ fs[i].op = "visit" /\ fs[i].stmt \in FreeStmt
                                       /\ fs[i].stmt.kind = "call" /\ Quiet(fs[i])
<1>1. CASE name = NoName
  BY <1>1 DEF Maybe
<1>2. CASE name # NoName
  <2>1. CallOf(name) \in FreeStmt /\ CallOf(name) \in LoopStmt /\ CallOf(name).kind = "call"
    BY <1>2, FreeParts DEF Callable, CallOf
  <2>2. Maybe(name) = <<Visit(CallOf(name))>> /\ Visit(CallOf(name)) \in Frames
    BY <1>2, <2>1, FrameForms DEF Maybe
  <2>3. Visit(CallOf(name)).op = "visit" /\ Visit(CallOf(name)).stmt = CallOf(name)
    BY DEF Visit
  <2> QED BY <2>1, <2>2, <2>3 DEF Quiet
<1> QED BY <1>1, <1>2

-----------------------------------------------------------------------------
\* The part of the invariant about the stack of frames and the function.
StackFits(t, f) ==
    t \in Seq(Frames) /\ FramesFit(t, f) /\ Ownership(t, f) /\ Reachable(t, f) /\ LoopsFit(t)

\* The part of the invariant about the two stacks of destinations.
DestsFit(t, f, bd, cd) ==
    /\ bd \in Seq(Dests) /\ cd \in Seq(Dests) /\ Len(bd) = Len(cd)
    /\ DestsMatch(t, bd) /\ ContinuesFit(t, f, bd, cd)

\* Frames that own no block and end no loop.
Linear == {"bind", "visit", "brace", "endScope", "branch", "forHead", "forEachHead"}

\* Frame fr is replaced by the frames fs in a step from f to g that owns and
\* resolves no block, and neither opens nor closes a loop.
LinearMove(fr, fs, f, g) ==
    /\ g.linked = f.linked /\ g.emitted = f.emitted
    /\ \A c \in Pending(f) : Keeps(f, g, c)
    /\ fr.op \in Linear \cup {"loopBack"}
    /\ \A i \in DOMAIN fs : /\ fs[i].op \in Linear /\ FrameFits(fs[i], g)
                            /\ MayJump(fs[i]) => MayJump(fr)
                            /\ Quiet(fr) => Quiet(fs[i])
    /\ fs # << >> /\ NeedsIP(fs[1]) => HasValidIP(g)
    /\ \A i \in 2 .. Len(fs) : NeedsIP(fs[i]) => fs[i].op # "branch" /\ fs[i - 1].op = "bind"
    /\ fr.op = "bind" => IF fs = << >> THEN HasValidIP(g) ELSE fs[Len(fs)].op = "bind"

\* Such a step keeps the stack and the destinations in order.
LEMMA LinearStep ==
    ASSUME NEW t, NEW f, StackFits(t, f), t # << >>, NEW fs \in Seq(Frames), NEW g,
           LinearMove(t[1], fs, f, g)
    PROVE  LET u == fs \o Tail(t)
           IN  /\ StackFits(u, g)
               /\ \A bd, cd : DestsFit(t, f, bd, cd) => DestsFit(u, g, bd, cd)
<1> DEFINE u == fs \o Tail(t)
<1>0. Replaces(t, fs, u)
  BY PushReplaces DEF StackFits
<1>1. Replaces(t, fs, u) /\ u \in Seq(Frames) /\ DOMAIN fs = 1 .. Len(fs)
  BY <1>0, SMTT(30) DEF Replaces
<1> HIDE DEF u
<1>2. Pending(g) = Pending(f) /\ f.emitted \subseteq g.emitted
  BY DEF Pending, LinearMove
<1>3. /\ Owned(t[1]) = {} /\ ~EndsLoop(t[1]) /\ t[1].op \notin {"forInc", "endLoop"}
      /\ \A i \in DOMAIN fs : /\ Owned(fs[i]) = {} /\ ~EndsLoop(fs[i])
                              /\ fs[i].op \notin {"loopBack", "forInc"}
  BY DEF LinearMove, Linear, Owned, EndsLoop
<1>4. FramesFit(u, g)
  <2>1. 1 \in DOMAIN t /\ \A c \in Pending(f) \ Owned(t[1]) : Keeps(f, g, c)
    BY <1>3 DEF StackFits, LinearMove
  <2>2. \A i \in DOMAIN t : i # 1 => \A c : Joins(t[i], c) => Keeps(f, g, c)
    BY <2>1, OthersKept DEF StackFits
  <2>3. FramesFit(t, f) /\ \A i \in 1 .. Len(fs) : FrameFits(fs[i], g)
    BY <1>1 DEF StackFits, LinearMove
  <2> QED BY <1>0, <1>2, <2>2, <2>3, FramesReplaced
<1>5. Ownership(u, g)
  <2>1. /\ \A i \in 1 .. Len(fs) : Owned(fs[i]) \subseteq Pending(g)
        /\ \A i, j \in 1 .. Len(fs) : i # j => Owned(fs[i]) \cap Owned(fs[j]) = {}
        /\ \A i \in 1 .. Len(fs) : Owned(fs[i]) \cap Pending(f) \subseteq Owned(t[1])
    BY <1>1, <1>3
  <2>2. /\ Pending(f) \ Owned(t[1]) \subseteq Pending(g)
        /\ \A b \in Pending(g) : \/ b \in Pending(f) \ Owned(t[1])
                                  \/ \E i \in 1 .. Len(fs) : b \in Owned(fs[i])
    BY <1>2, <1>3
  <2>3. Ownership(t, f)
    BY DEF StackFits
  <2>4. Hands(t[1], fs, f, g)
    BY <2>1, <2>2 DEF Hands
  <2> QED BY <1>0, <2>3, <2>4, OwnershipReplaced
<1>6. Reachable(u, g)
  BY <1>1, ReachableReplaced DEF StackFits, LinearMove
<1>7. LoopsFit(u)
  BY <1>1, <1>3, LoopsReplaced, SMTT(30) DEF StackFits, LinearMove
<1>8. ASSUME NEW bd, NEW cd, DestsFit(t, f, bd, cd) PROVE DestsFit(u, g, bd, cd)
  <2>1. DestsMatch(u, bd)
    BY <1>1, <1>3, <1>8, DestsReplaced DEF DestsFit
  <2>2. ContinuesFit(u, g, bd, cd)
    <3>1. LoopsFit(t) /\ (Quiet(t[1]) => \A i \in DOMAIN fs : Quiet(fs[i]))
      BY DEF StackFits, LinearMove
    <3>2. ASSUME NEW j \in DOMAIN bd PROVE ContinueFits(u, g, bd[j].block, cd[j].block)
      <4>1. ContinueFits(t, f, bd[j].block, cd[j].block)
        BY <1>8 DEF DestsFit, ContinuesFit
      <4>2. f.emitted \subseteq g.emitted /\ t[1].op \notin {"forInc", "endLoop"}
        BY <1>2, <1>3
      <4> QED BY <1>0, <3>1, <4>1, <4>2, ContinueReplaced, SMTT(30)
    <3> QED BY <3>2 DEF ContinuesFit
  <2> QED BY <2>1, <2>2, <1>8 DEF DestsFit
<1> QED BY <1>1, <1>4, <1>5, <1>6, <1>7, <1>8 DEF StackFits, u

\* Opening a loop: its end is new, and its continue destination is emitted or
\* the increment block that a frame owns.
LEMMA DestsOpened ==
    ASSUME NEW t, NEW f, StackFits(t, f), t # << >>, NEW fs \in Seq(Frames), NEW g,
           f.emitted \subseteq g.emitted, NEW bd, NEW cd, DestsFit(t, f, bd, cd),
           ~EndsLoop(t[1]), t[1].op # "forInc", ~Quiet(t[1]),
           NEW break \in Dests, NEW continue \in Dests, break.block \notin f.linked,
           \A i \in DOMAIN fs : EndsLoop(fs[i]) => EndOf(fs[i]) = break.block,
           \E i \in DOMAIN fs : EndsLoop(fs[i]),
           \/ continue.block \in g.emitted
           \/ \E i \in DOMAIN fs : /\ fs[i].op = "forInc" /\ fs[i].inc = continue.block
                                   /\ i + 3 \in DOMAIN fs /\ fs[i + 3].end = break.block
    PROVE  DestsFit(fs \o Tail(t), g, Append(bd, break), Append(cd, continue))
<1> DEFINE u == fs \o Tail(t)
           bdn == Append(bd, break)
           cdn == Append(cd, continue)
<1>0. Replaces(t, fs, u)
  BY PushReplaces DEF StackFits
<1>1. Replaces(t, fs, u) /\ u \in Seq(Frames) /\ DOMAIN fs = 1 .. Len(fs)
      /\ \A i \in DOMAIN fs : i \in DOMAIN u /\ u[i] = fs[i]
  <2> HIDE DEF u, bdn, cdn
  <2>1. u \in Seq(Frames) /\ DOMAIN fs = 1 .. Len(fs)
    BY <1>0 DEF Replaces
  <2> QED BY <1>0, <2>1, ReplacedAt
<1> HIDE DEF u
<1>2. /\ bdn \in Seq(Dests) /\ cdn \in Seq(Dests) /\ Len(bdn) = Len(cdn) /\ Len(bdn) = Len(bd) + 1
      /\ \A j \in DOMAIN bdn : \/ j \in DOMAIN bd /\ bdn[j] = bd[j] /\ cdn[j] = cd[j]
                               \/ bdn[j] = break /\ cdn[j] = continue
  BY DEF DestsFit
<1>3. DestsMatch(u, bdn)
  BY <1>1, DestsPushed DEF DestsFit, StackFits
<1> HIDE DEF bdn, cdn
<1>4. ASSUME NEW j \in DOMAIN bdn PROVE ContinueFits(u, g, bdn[j].block, cdn[j].block)
  <2>1. CASE j \in DOMAIN bd /\ bdn[j] = bd[j] /\ cdn[j] = cd[j]
    <3>1. ContinueFits(t, f, bd[j].block, cd[j].block)
      BY <2>1 DEF DestsFit, ContinuesFit
    <3>2. t[1].op \notin {"forInc", "endLoop"} /\ LoopsFit(t)
      BY DEF EndsLoop, StackFits
    <3>3. ContinueFits(u, g, bd[j].block, cd[j].block)
      BY <1>1, <3>1, <3>2, ContinueReplaced
    <3> QED BY <2>1, <3>3
  <2>2. CASE bdn[j] = break /\ cdn[j] = continue
    <3>1. CASE continue.block \in g.emitted
      BY <2>2, <3>1 DEF ContinueFits
    <3>2. CASE \E i \in DOMAIN fs : /\ fs[i].op = "forInc" /\ fs[i].inc = continue.block
                                    /\ i + 3 \in DOMAIN fs /\ fs[i + 3].end = break.block
      BY <1>1, <2>2, <3>2 DEF ContinueFits
    <3> QED BY <3>1, <3>2
  <2> QED BY <1>2, <2>1, <2>2
<1>5. DestsFit(u, g, bdn, cdn)
  BY <1>2, <1>3, <1>4 DEF DestsFit, ContinuesFit
<1> QED BY <1>5 DEF u, bdn, cdn

\* Only a jump puts a branch on top of the stack.
LEMMA NoBranchFits ==
    ASSUME NEW t, NEW f, StackFits(t, f), t # << >>, NEW fs \in Seq(Frames),
           fs # << >> => fs[1].op # "branch", NEW g, NEW c
    PROVE  BranchFits(fs \o Tail(t), g, c)
<1> DEFINE u == fs \o Tail(t)
<1>1. Replaces(t, fs, u)
  BY PushReplaces DEF StackFits
<1> HIDE DEF u
<1>2. ASSUME u # << >>, u[1].op = "branch" PROVE FALSE
  <2>1. 1 \in DOMAIN u /\ Len(fs) \in Nat
    BY <1>1, <1>2 DEF Replaces
  <2>2. CASE fs # << >>
    <3>1. 1 \in DOMAIN fs
      BY <2>2
    <3> QED BY <1>1, <1>2, <2>2, <3>1, ReplacedAt
  <2>3. CASE fs = << >>
    <3>1. u[1] = t[2] /\ 2 \in 2 .. Len(t)
      <4>1. Len(fs) = 0
        BY <2>3
      <4>2. 1 - Len(fs) + 1 \in 2 .. Len(t) /\ u[1] = t[1 - Len(fs) + 1]
        BY <1>1, <2>1, <4>1 DEF Replaces
      <4> QED BY <4>1, <4>2
    <3> QED BY <1>2, <3>1 DEF StackFits, Reachable, NeedsIP
  <2> QED BY <2>2, <2>3
<1>3. BranchFits(u, g, c)
  BY <1>2 DEF BranchFits
<1> QED BY <1>3 DEF u

\* Any other step: blocks are created, handed on or resolved.
LEMMA StackStep ==
    ASSUME NEW t, NEW f, StackFits(t, f), t # << >>, NEW fs \in Seq(Frames), NEW g,
           f.emitted \subseteq g.emitted, t[1].op # "bind",
           \A c \in Pending(f) \ Owned(t[1]) : Keeps(f, g, c), Hands(t[1], fs, f, g),
           fs # << >> /\ NeedsIP(fs[1]) => HasValidIP(g),
           \A i \in 2 .. Len(fs) : NeedsIP(fs[i]) => fs[i].op # "branch" /\ fs[i - 1].op = "bind",
           \A i \in DOMAIN fs :
              /\ FrameFits(fs[i], g)
              /\ MayJump(fs[i]) => \/ MayJump(t[1])
                                   \/ \E e \in DOMAIN fs : e > i /\ EndsLoop(fs[e])
              /\ fs[i].op = "loopBack" => /\ i + 2 <= Len(fs) /\ fs[i + 1].op = "complete"
                                          /\ fs[i + 2].op = "endLoop"
              /\ fs[i].op = "forInc" => i + 3 <= Len(fs) /\ fs[i + 1].op = "loopBack"
    PROVE  StackFits(fs \o Tail(t), g)
<1> DEFINE u == fs \o Tail(t)
<1>0. Replaces(t, fs, u)
  BY PushReplaces DEF StackFits
<1>1. u \in Seq(Frames) /\ DOMAIN fs = 1 .. Len(fs)
  BY <1>0 DEF Replaces
<1> HIDE DEF u
<1>4. FramesFit(u, g)
  <2>1. 1 \in DOMAIN t
    BY DEF StackFits
  <2>2. \A i \in DOMAIN t : i # 1 => \A c : Joins(t[i], c) => Keeps(f, g, c)
    BY <2>1, OthersKept DEF StackFits
  <2>3. FramesFit(t, f) /\ \A i \in 1 .. Len(fs) : FrameFits(fs[i], g)
    BY DEF StackFits
  <2> QED BY <1>0, <2>2, <2>3, FramesReplaced
<1>5. Ownership(u, g)
  BY <1>0, OwnershipReplaced DEF StackFits
<1>6. Reachable(u, g)
  BY <1>0, ReachableReplaced DEF StackFits
<1>7. LoopsFit(u)
  BY <1>0, LoopsReplaced, SMTT(30) DEF StackFits
<1> QED BY <1>1, <1>4, <1>5, <1>6, <1>7 DEF StackFits, u

\* A step that opens and closes no loop keeps the destinations in order.
LEMMA DestsKept ==
    ASSUME NEW t, NEW f, StackFits(t, f), t # << >>, NEW fs \in Seq(Frames), NEW g,
           f.emitted \subseteq g.emitted, NEW bd, NEW cd, DestsFit(t, f, bd, cd),
           t[1].op \notin {"forInc", "endLoop"}, Quiet(t[1]) => \A i \in DOMAIN fs : Quiet(fs[i]),
           \A i \in DOMAIN fs : EndsLoop(fs[i]) => EndsLoop(t[1]) /\ EndOf(fs[i]) = EndOf(t[1]),
           EndsLoop(t[1]) => \E i \in DOMAIN fs : EndsLoop(fs[i])
    PROVE  DestsFit(fs \o Tail(t), g, bd, cd)
<1> DEFINE u == fs \o Tail(t)
<1>0. Replaces(t, fs, u) /\ LoopsFit(t)
  BY PushReplaces DEF StackFits
<1> HIDE DEF u
<1>1. DestsMatch(u, bd)
  BY <1>0, DestsReplaced DEF DestsFit
<1>2. ASSUME NEW j \in DOMAIN bd PROVE ContinueFits(u, g, bd[j].block, cd[j].block)
  <2>1. ContinueFits(t, f, bd[j].block, cd[j].block)
    BY DEF DestsFit, ContinuesFit
  <2> QED BY <1>0, <2>1, ContinueReplaced
<1> QED BY <1>1, <1>2 DEF DestsFit, ContinuesFit, u

-----------------------------------------------------------------------------
\* The cleanups of the parameters are at the bottom of the stack of cleanups.
Holds(c, p) == Len(p.params) <= Len(c) /\ \A i \in DOMAIN p.params : c[i] = p.params[i]

\* The body of the function is being lowered: its scope is at the bottom of the
\* stack, and no scope inside reaches below the cleanups of the parameters.
InBody(t, c, p) ==
    /\ t # << >> /\ t[Len(t)].op = "endScope" /\ t[Len(t)].depth = Len(p.params)
    /\ \A i \in DOMAIN t : t[i].op = "endScope" => Len(p.params) <= t[i].depth
    /\ Holds(c, p)

\* The parameters are being bound, or the body is about to be visited, or is being
\* visited, or is over and its scopes have popped every cleanup of theirs.
ScopesFit(t, c, p) ==
    \/ \E vs \in Seq(Name) : t = <<Bind(vs), Visit(p.body)>> /\ c \o vs = p.params
    \/ t = <<Visit(p.body)>> /\ c = p.params
    \/ InBody(t, c, p)
    \/ t = << >> /\ c = p.params

\* The inductive invariant of the lowering.
GenInv ==
    /\ prog \in Program /\ Sound(fn) /\ cleanups \in Seq(Name)
    /\ StackFits(todo, fn) /\ DestsFit(todo, fn, breakDests, continueDests)
    /\ BranchFits(todo, fn, cleanups) /\ ScopesFit(todo, cleanups, prog)

\* A step inside the body stays in it.
LEMMA BodyReplaced ==
    ASSUME NEW t \in Seq(Frames), NEW c, NEW p, InBody(t, c, p), Len(p.params) \in Nat,
           NEW fs \in Seq(Frames), NEW d, Holds(d, p),
           t[1].op = "endScope" => 1 < Len(t),
           \A i \in DOMAIN fs : fs[i].op = "endScope" => Len(p.params) <= fs[i].depth
    PROVE  InBody(fs \o Tail(t), d, p)
<1> DEFINE u == fs \o Tail(t)
<1>1. Replaces(t, fs, u) /\ t # << >>
  BY PushReplaces DEF InBody
<1> HIDE DEF u
<1>2. /\ Len(fs) \in Nat /\ Len(t) \in Nat \ {0} /\ Len(u) = Len(fs) + Len(t) - 1
      /\ DOMAIN t = 1 .. Len(t) /\ DOMAIN u = 1 .. Len(u) /\ DOMAIN fs = 1 .. Len(fs)
      /\ \A i \in 1 .. Len(fs) : i \in DOMAIN u /\ u[i] = fs[i]
      /\ \A i \in DOMAIN t : i # 1 => i + Len(fs) - 1 \in DOMAIN u /\ u[i + Len(fs) - 1] = t[i]
      /\ \A i \in DOMAIN u : i > Len(fs) => /\ i - Len(fs) + 1 \in DOMAIN t /\ i - Len(fs) + 1 # 1
                                            /\ u[i] = t[i - Len(fs) + 1]
  BY <1>1, ReplacedAt
<1>3. Len(t) \in DOMAIN t /\ Len(t) # 1
  BY <1>2 DEF InBody
<1>4. Len(t) + Len(fs) - 1 \in DOMAIN u /\ u[Len(t) + Len(fs) - 1] = t[Len(t)]
  BY <1>2, <1>3
<1>5. Len(u) = Len(t) + Len(fs) - 1 /\ u # << >>
  BY <1>2, <1>4
<1>6. ASSUME NEW i \in DOMAIN u, u[i].op = "endScope" PROVE Len(p.params) <= u[i].depth
  <2>1. CASE i > Len(fs)
    BY <1>2, <1>6, <2>1, SMTT(30) DEF InBody
  <2>2. CASE ~(i > Len(fs))
    <3>1. i \in 1 .. Len(fs)
      BY <1>2, <2>2
    <3>2. i \in DOMAIN fs /\ u[i] = fs[i]
      BY <1>2, <3>1
    <3> QED BY <1>6, <3>2
  <2> QED BY <2>1, <2>2
<1> QED BY <1>4, <1>5, <1>6 DEF InBody, u

\* Anything but a binding or a brace is visited inside the body.
LEMMA InsideBody ==
    ASSUME NEW t, NEW c, NEW p \in Program, ScopesFit(t, c, p), t # << >>,
           t[1].op # "bind", ~(t[1].op = "visit" /\ t[1].stmt.kind = "brace")
    PROVE  InBody(t, c, p)
<1>1. ASSUME NEW vs, t = <<Bind(vs), Visit(p.body)>> PROVE FALSE
  <2>1. t[1] = Bind(vs)
    BY <1>1
  <2> QED BY <2>1 DEF Bind
<1>2. ASSUME t = <<Visit(p.body)>> PROVE FALSE
  <2>1. t[1] = Visit(p.body)
    BY <1>2
  <2> QED BY <2>1, ProgramAssumption DEF Visit
<1> QED BY <1>1, <1>2 DEF ScopesFit

\* A step that opens scopes at the current depth only keeps them in order.
LEMMA ScopesKept ==
    ASSUME GenInv, todo # << >>, todo[1].op \notin {"bind", "endScope"},
           ~(todo[1].op = "visit" /\ todo[1].stmt.kind = "brace"), NEW fs \in Seq(Frames),
           \A i \in DOMAIN fs : fs[i].op = "endScope" => fs[i].depth = Len(cleanups)
    PROVE  ScopesFit(fs \o Tail(todo), cleanups, prog)
<1>1. InBody(todo, cleanups, prog)
  BY InsideBody DEF GenInv
<1>2. Len(prog.params) \in Nat
  BY ProgramAssumption DEF GenInv
<1>3. Holds(cleanups, prog)
  BY <1>1 DEF InBody
<1>4. \A i \in DOMAIN fs : fs[i].op = "endScope" => Len(prog.params) <= fs[i].depth
  BY <1>3 DEF Holds
<1>5. InBody(fs \o Tail(todo), cleanups, prog)
  BY <1>1, <1>2, <1>3, <1>4, BodyReplaced DEF GenInv, StackFits
<1> QED BY <1>5 DEF ScopesFit

-----------------------------------------------------------------------------
\* The common part of the steps that leave blocks and loops alone.
LEMMA LinearKeeps ==
    ASSUME GenInv, todo # << >>, NEW fs \in Seq(Frames), todo' = fs \o Tail(todo),
           UNCHANGED <<prog, breakDests, continueDests>>,
           Sound(fn'), LinearMove(todo[1], fs, fn, fn'),
           cleanups' \in Seq(Name), ScopesFit(todo', cleanups', prog),
           fs # << >> /\ fs[1].op = "branch" => BranchFits(todo', fn', cleanups')
    PROVE  GenInv'
<1> DEFINE u == fs \o Tail(todo)
<1>1. /\ StackFits(u, fn')
      /\ \A bd, cd : DestsFit(todo, fn, bd, cd) => DestsFit(u, fn', bd, cd)
  BY LinearStep DEF GenInv
<1>2. StackFits(todo', fn') /\ DestsFit(todo', fn', breakDests', continueDests')
  BY <1>1 DEF GenInv
<1>3. BranchFits(todo', fn', cleanups')
  BY NoBranchFits DEF GenInv
<1> QED BY <1>2, <1>3 DEF GenInv

\* What the invariant says of the frame about to run.
LEMMA GenInvParts ==
    ASSUME GenInv
    PROVE  /\ prog \in Program /\ Sound(fn) /\ cleanups \in Seq(Name) /\ todo \in Seq(Frames)
           /\ Pending(fn) \subseteq Block /\ Depth \in Nat
           /\ todo # << >> => /\ todo[1] = Head(todo) /\ todo[1] \in Frames
                              /\ NeedsIP(todo[1]) => HasValidIP(fn)
                              /\ FrameFits(todo[1], fn) /\ Owned(todo[1]) \subseteq Pending(fn)
<1>1. todo # << >> => 1 \in DOMAIN todo /\ todo[1] = Head(todo) /\ todo[1] \in Frames
  BY DEF GenInv, StackFits
<1>2. cleanups \in Seq(Name) /\ Depth \in Nat
  BY DEF GenInv, Depth
<1> QED BY <1>1, <1>2, SoundFields DEF GenInv, StackFits, Reachable, FramesFit, Ownership, Pending

\* An expression statement.
LEMMA VisitExprKeeps ==
    ASSUME GenInv, VisitExpr
    PROVE  GenInv'
<1> DEFINE fs == << >>
<1>1. /\ todo # << >> /\ todo[1] = Head(todo) /\ todo[1] \in Frames
      /\ todo[1].op = "visit" /\ todo[1].stmt.kind = "call"
  BY GenInvParts DEF VisitExpr, Visiting, Running
<1>2. Stmt.id \in Name
  BY <1>1, FrameFields, StatementParts DEF Stmt
<1>3. fn' = Emit(fn, "apply", Stmt.id) /\ todo' = fs \o Tail(todo)
      /\ UNCHANGED <<prog, cleanups, breakDests, continueDests>>
  BY DEF VisitExpr, Then, SameCleanups, SameDests, Fine
<1>4. /\ Sound(fn') /\ fn'.linked = fn.linked /\ fn'.emitted = fn.emitted
      /\ \A c \in Pending(fn) : Keeps(fn, fn', c)
  BY <1>2, <1>3, PlainSound, GenInvParts DEF PlainOps
<1>5. fs \in Seq(Frames) /\ DOMAIN fs = {} /\ Len(fs) = 0
  OBVIOUS
<1>6. ScopesFit(todo', cleanups', prog)
  BY <1>1, <1>3, <1>5, ScopesKept
<1>7. LinearMove(todo[1], fs, fn, fn')
  BY <1>1, <1>4, <1>5 DEF LinearMove, Linear
<1>8. cleanups' \in Seq(Name) /\ fs = << >>
  BY <1>3, GenInvParts
<1> HIDE DEF fs
<1> QED BY <1>1, <1>3, <1>4, <1>5, <1>6, <1>7, <1>8, LinearKeeps

\* What one frame in place of the first has to satisfy in a linear step.
LEMMA OneFrame ==
    ASSUME NEW fr, NEW to \in Frames, NEW f, NEW g,
           g.linked = f.linked, g.emitted = f.emitted,
           \A c \in Pending(f) : Keeps(f, g, c),
           fr.op \in Linear \cup {"loopBack"},
           to.op \in Linear, FrameFits(to, g), MayJump(to) => MayJump(fr), Quiet(fr) => Quiet(to),
           NeedsIP(to) => HasValidIP(g), fr.op = "bind" => to.op = "bind"
    PROVE  <<to>> \in Seq(Frames) /\ LinearMove(fr, <<to>>, f, g)
<1> DEFINE fs == <<to>>
<1>1. /\ fs \in Seq(Frames) /\ Len(fs) = 1 /\ fs[1] = to /\ fs[Len(fs)] = to
      /\ \A i \in DOMAIN fs : fs[i] = to
      /\ fs # << >> /\ \A i \in 2 .. Len(fs) : FALSE
  OBVIOUS
<1> HIDE DEF fs
<1> QED BY <1>1 DEF LinearMove, fs

\* A linear move to two frames.
LEMMA TwoFrames ==
    ASSUME NEW fr, NEW to \in Frames, NEW next \in Frames, NEW f, NEW g,
           g.linked = f.linked, g.emitted = f.emitted,
           \A c \in Pending(f) : Keeps(f, g, c),
           fr.op \in Linear \cup {"loopBack"}, fr.op # "bind",
           \A x \in {to, next} : /\ x.op \in Linear /\ FrameFits(x, g)
                                 /\ MayJump(x) => MayJump(fr)
                                 /\ Quiet(fr) => Quiet(x),
           NeedsIP(to) => HasValidIP(g), NeedsIP(next) => next.op # "branch" /\ to.op = "bind"
    PROVE  <<to, next>> \in Seq(Frames) /\ LinearMove(fr, <<to, next>>, f, g)
<1> DEFINE fs == <<to, next>>
<1>1. /\ fs \in Seq(Frames) /\ Len(fs) = 2 /\ fs[1] = to /\ fs[2] = next
      /\ \A i \in DOMAIN fs : fs[i] \in {to, next}
      /\ fs # << >> /\ \A i \in 2 .. Len(fs) : i = 2 /\ i - 1 = 1
  OBVIOUS
<1> HIDE DEF fs
<1> QED BY <1>1 DEF LinearMove, fs

\* A linear move to no frame.
LEMMA NoFrames ==
    ASSUME NEW fr, NEW f, NEW g, g.linked = f.linked, g.emitted = f.emitted,
           \A c \in Pending(f) : Keeps(f, g, c),
           fr.op \in Linear \cup {"loopBack"}, fr.op = "bind" => HasValidIP(g)
    PROVE  << >> \in Seq(Frames) /\ LinearMove(fr, << >>, f, g)
<1> DEFINE fs == << >>
<1>1. fs \in Seq(Frames) /\ Len(fs) = 0 /\ DOMAIN fs = {} /\ fs = << >>
  OBVIOUS
<1> HIDE DEF fs
<1> QED BY <1>1 DEF LinearMove, fs

\* A step that leaves the function as it is.
LEMMA Unchanged ==
    ASSUME NEW f
    PROVE  \A c \in Pending(f) : Keeps(f, f, c)
BY DEF Keeps

\* A pattern binding pushes its variables, one action each.
LEMMA VisitPatternBindingKeeps ==
    ASSUME GenInv, VisitPatternBinding
    PROVE  GenInv'
<1> DEFINE to == Bind(Stmt.vars)
<1>1. /\ todo # << >> /\ todo[1] = Head(todo) /\ todo[1] \in Frames /\ HasValidIP(fn)
      /\ todo[1].op = "visit" /\ todo[1].stmt.kind = "var" /\ Sound(fn) /\ cleanups \in Seq(Name)
  BY GenInvParts DEF VisitPatternBinding, Visiting, Running, NeedsIP
<1>2. Stmt.vars \in Seq(Name)
  BY <1>1, FrameFields, StatementParts DEF Stmt
<1>3. to \in Frames /\ to.op = "bind"
  BY <1>2, FrameForms DEF Bind
<1>4. todo' = <<to>> \o Tail(todo) /\ UNCHANGED <<fn, prog, cleanups, breakDests, continueDests>>
  BY DEF VisitPatternBinding, Then, SameCleanups, SameDests, Fine
<1> HIDE DEF to
<1>5. <<to>> \in Seq(Frames) /\ LinearMove(todo[1], <<to>>, fn, fn')
  BY <1>1, <1>3, <1>4, Unchanged, OneFrame DEF Linear, FrameFits, MayJump, Quiet
<1>6. ScopesFit(todo', cleanups', prog)
  <2>1. \A i \in DOMAIN <<to>> : <<to>>[i] = to
    OBVIOUS
  <2> QED BY <1>1, <1>3, <1>4, <1>5, <2>1, ScopesKept
<1>7. <<to>>[1].op # "branch" /\ Sound(fn') /\ cleanups' \in Seq(Name)
  BY <1>1, <1>3, <1>4
<1> QED BY <1>1, <1>4, <1>5, <1>6, <1>7, LinearKeeps

\* Two instructions on the memory of a variable.
LEMMA PairSound ==
    ASSUME NEW f, Sound(f), NEW one \in PlainOps, NEW two \in PlainOps, NEW v \in Name
    PROVE  LET g == Emit(Emit(f, one, v), two, v)
           IN  /\ Sound(g) /\ g.linked = f.linked /\ g.emitted = f.emitted /\ g.ip = f.ip
               /\ \A c \in Block : Keeps(f, g, c)
<1> DEFINE h == Emit(f, one, v)
           g == Emit(h, two, v)
<1>1. /\ Sound(h) /\ h.linked = f.linked /\ h.emitted = f.emitted /\ h.ip = f.ip
      /\ \A c \in Block : Keeps(f, h, c)
  BY PlainSound
<1> HIDE DEF h
<1>2. /\ Sound(g) /\ g.linked = h.linked /\ g.emitted = h.emitted /\ g.ip = h.ip
      /\ \A c \in Block : Keeps(h, g, c)
  BY <1>1, PlainSound
<1> HIDE DEF g
<1>3. \A c \in Block : Keeps(f, g, c)
  BY <1>1, <1>2 DEF Keeps
<1> QED BY <1>1, <1>2, <1>3 DEF g, h

\* Two frames pushed one after the other.
LEMMA PairOf ==
    ASSUME NEW a, NEW b
    PROVE  <<a>> \o <<b>> = <<a, b>>
<1> DEFINE S == {a, b}
           s == <<a>>
           t == <<b>>
<1>1. s \in Seq(S) /\ t \in Seq(S) /\ Len(s) = 1 /\ Len(t) = 1 /\ s[1] = a /\ t[1] = b
  OBVIOUS
<1> HIDE DEF s, t, S
<1>2. s \o t \in Seq(S) /\ Len(s \o t) = 2 /\ (s \o t)[1] = s[1] /\ (s \o t)[2] = t[1]
  BY <1>1, ConcatProperties
<1>3. s \o t = <<a, b>>
  <2> DEFINE u == s \o t
  <2>1. u \in Seq(S) /\ Len(u) = 2 /\ u[1] = a /\ u[2] = b
    BY <1>1, <1>2
  <2> HIDE DEF u
  <2>2. u = <<u[1], u[2]>>
    BY <2>1
  <2> QED BY <2>1, <2>2 DEF u
<1> QED BY <1>3 DEF s, t

\* What a concatenation is made of.
LEMMA Concatenated ==
    ASSUME NEW S, NEW p \in Seq(S), NEW q \in Seq(S)
    PROVE  LET r == p \o q
           IN  /\ r \in Seq(S) /\ Len(r) = Len(p) + Len(q) /\ DOMAIN r = 1 .. Len(r)
               /\ \A i \in 1 .. Len(p) : r[i] = p[i]
               /\ \A i \in 1 .. Len(q) : r[Len(p) + i] = q[i]
<1> DEFINE r == p \o q
<1>1. /\ r \in Seq(S) /\ Len(r) = Len(p) + Len(q) /\ Len(p) \in Nat /\ Len(q) \in Nat
      /\ \A i \in 1 .. Len(p) + Len(q) : r[i] = IF i <= Len(p) THEN p[i] ELSE q[i - Len(p)]
  BY ConcatProperties
<1> HIDE DEF r
<1>2. \A i \in 1 .. Len(p) : r[i] = p[i]
  BY <1>1
<1>3. ASSUME NEW i \in 1 .. Len(q) PROVE r[Len(p) + i] = q[i]
  <2>1. /\ Len(p) + i \in 1 .. Len(p) + Len(q) /\ ~(Len(p) + i <= Len(p))
        /\ (Len(p) + i) - Len(p) = i
    BY <1>1
  <2> QED BY <1>1, <2>1
<1> QED BY <1>1, <1>2, <1>3 DEF r

\* Binding the next variable brings it from the pattern to the cleanups.
LEMMA BindLast ==
    ASSUME NEW c \in Seq(Name), NEW vs \in Seq(Name), vs # << >>
    PROVE  Append(c, Head(vs)) \o Tail(vs) = c \o vs
OBVIOUS

\* A frame that stays is put back.
LEMMA FirstAndRest ==
    ASSUME NEW t \in Seq(Frames), t # << >>
    PROVE  <<t[1]>> \o Tail(t) = t
OBVIOUS

\* The variables of a pattern, one after the other.
LEMMA BindVarKeeps ==
    ASSUME GenInv, BindVar
    PROVE  GenInv'
<1>1. /\ todo # << >> /\ todo[1] = Head(todo) /\ todo[1] \in Frames /\ HasValidIP(fn)
      /\ todo[1].op = "bind" /\ Sound(fn) /\ cleanups \in Seq(Name) /\ todo \in Seq(Frames)
      /\ prog \in Program /\ ScopesFit(todo, cleanups, prog) /\ Pending(fn) \subseteq Block
  BY GenInvParts DEF BindVar, Running, NeedsIP, GenInv
<1>2. Frame.vars \in Seq(Name) /\ todo[1] = Bind(Frame.vars)
  BY <1>1, FrameFields DEF Frame
<1>3. UNCHANGED <<prog, breakDests, continueDests>>
  BY DEF BindVar, SameDests, Fine
<1>4. Len(prog.params) \in Nat
  BY <1>1, ProgramAssumption
<1>5. CASE Frame.vars = << >> /\ Then(<< >>) /\ UNCHANGED fn /\ SameCleanups
  <2>1. todo' = << >> \o Tail(todo) /\ fn' = fn /\ cleanups' = cleanups
    BY <1>5 DEF Then, SameCleanups
  <2>2. << >> \in Seq(Frames) /\ LinearMove(todo[1], << >>, fn, fn')
    BY <1>1, <2>1, Unchanged, NoFrames DEF Linear
  <2>3. ScopesFit(todo', cleanups', prog)
    <3>1. ASSUME NEW vs \in Seq(Name), todo = <<Bind(vs), Visit(prog.body)>>, cleanups \o vs = prog.params
          PROVE  todo' = <<Visit(prog.body)>> /\ cleanups = prog.params
      <4>1. todo[1] = Bind(vs) /\ Tail(todo) = <<Visit(prog.body)>>
        BY <3>1
      <4>2. vs = << >>
        BY <4>1, <1>2, <1>5 DEF Bind
      <4>3. cleanups \o << >> = cleanups /\ << >> \o Tail(todo) = Tail(todo)
        BY <1>1
      <4> QED BY <2>1, <3>1, <4>1, <4>2, <4>3
    <3>2. ~(todo = <<Visit(prog.body)>>)
      BY <1>1 DEF Visit
    <3>3. InBody(todo, cleanups, prog) => InBody(todo', cleanups, prog)
      <4>1. InBody(todo, cleanups, prog) => Holds(cleanups, prog)
        BY DEF InBody
      <4>2. DOMAIN << >> = {}
        OBVIOUS
      <4> QED BY <1>1, <1>4, <2>1, <2>2, <4>1, <4>2, BodyReplaced
    <3> QED BY <1>1, <2>1, <3>1, <3>2, <3>3 DEF ScopesFit
  <2>4. ~(<< >> # << >>) /\ Sound(fn') /\ cleanups' \in Seq(Name)
    BY <1>1, <2>1
  <2> QED BY <1>1, <1>3, <2>1, <2>2, <2>3, <2>4, LinearKeeps
<1>6. CASE /\ Frame.vars # << >>
           /\ LET v == Head(Frame.vars) IN
                /\ fn' = Emit(Emit(fn, "alloc", v), "init", v)
                /\ cleanups' = Append(cleanups, v)
           /\ Then(<<Bind(Tail(Frame.vars))>>)
  <2> DEFINE v == Head(Frame.vars)
             to == Bind(Tail(Frame.vars))
  <2>1. /\ todo' = <<to>> \o Tail(todo) /\ fn' = Emit(Emit(fn, "alloc", v), "init", v)
        /\ cleanups' = Append(cleanups, v)
    BY <1>6 DEF Then
  <2>2. v \in Name /\ Tail(Frame.vars) \in Seq(Name) /\ cleanups' \in Seq(Name)
    BY <1>1, <1>2, <1>6, <2>1
  <2>3. to \in Frames /\ to.op = "bind"
    BY <2>2, FrameForms DEF Bind
  <2>4. /\ Sound(fn') /\ fn'.linked = fn.linked /\ fn'.emitted = fn.emitted /\ fn'.ip = fn.ip
        /\ \A c \in Pending(fn) : Keeps(fn, fn', c)
    BY <1>1, <2>1, <2>2, PairSound, ZenonT(60) DEF PlainOps
  <2> HIDE DEF to, v
  <2>5. <<to>> \in Seq(Frames) /\ LinearMove(todo[1], <<to>>, fn, fn')
    BY <1>1, <2>3, <2>4, OneFrame DEF Linear, FrameFits, MayJump, Quiet, HasValidIP
  <2>6. ScopesFit(todo', cleanups', prog)
    <3>1. ASSUME NEW vs \in Seq(Name), todo = <<Bind(vs), Visit(prog.body)>>, cleanups \o vs = prog.params
          PROVE  todo' = <<to, Visit(prog.body)>> /\ cleanups' \o Tail(Frame.vars) = prog.params
      <4>1. todo[1] = Bind(vs) /\ Tail(todo) = <<Visit(prog.body)>>
        BY <3>1
      <4>2. vs = Frame.vars
        BY <4>1, <1>2 DEF Bind
      <4>3. cleanups' \o Tail(vs) = cleanups \o vs
        BY <1>1, <1>6, <2>1, <4>2, BindLast DEF v
      <4>4. <<to>> \o <<Visit(prog.body)>> = <<to, Visit(prog.body)>>
        BY PairOf
      <4> QED BY <2>1, <3>1, <4>1, <4>2, <4>3, <4>4
    <3>2. ~(todo = <<Visit(prog.body)>>)
      BY <1>1 DEF Visit
    <3>3. InBody(todo, cleanups, prog) => InBody(todo', cleanups', prog)
      <4>1. InBody(todo, cleanups, prog) => Holds(cleanups', prog)
        <5>1. ASSUME Holds(cleanups, prog) PROVE Holds(cleanups', prog)
          <6>1. /\ Len(cleanups') = Len(cleanups) + 1 /\ Len(cleanups) \in Nat
                /\ \A i \in 1 .. Len(cleanups) : cleanups'[i] = cleanups[i]
            BY <1>1, <2>1, <2>2
          <6>2. DOMAIN prog.params = 1 .. Len(prog.params)
            BY <1>1, ProgramAssumption
          <6> QED BY <1>4, <5>1, <6>1, <6>2 DEF Holds
        <5> QED BY <5>1 DEF InBody
      <4>2. \A i \in DOMAIN <<to>> : <<to>>[i] = to
        OBVIOUS
      <4> QED BY <1>1, <1>4, <2>1, <2>3, <2>5, <4>1, <4>2, BodyReplaced
    <3> QED BY <1>1, <2>2, <3>1, <3>2, <3>3 DEF ScopesFit, to
  <2>7. <<to>>[1].op # "branch"
    BY <2>3
  <2> QED BY <1>1, <1>3, <2>1, <2>2, <2>4, <2>5, <2>6, <2>7, LinearKeeps
<1> QED BY <1>5, <1>6 DEF BindVar

\* A brace opens a scope; the brace of the function body is the outermost one.
LEMMA VisitBraceKeeps ==
    ASSUME GenInv, VisitBrace
    PROVE  GenInv'
<1> DEFINE to == [op |-> "brace", rest |-> Stmt.body, first |-> TRUE]
           end == [op |-> "endScope", depth |-> Depth]
<1>1. /\ todo # << >> /\ todo[1] = Head(todo) /\ todo[1] \in Frames /\ HasValidIP(fn)
      /\ todo[1].op = "visit" /\ todo[1].stmt.kind = "brace" /\ Sound(fn)
      /\ cleanups \in Seq(Name) /\ todo \in Seq(Frames) /\ Depth \in Nat
      /\ prog \in Program /\ ScopesFit(todo, cleanups, prog)
  BY GenInvParts DEF VisitBrace, Visiting, Running, NeedsIP, GenInv
<1>2. Stmt = todo[1].stmt /\ Stmt \in LoopStmt /\ Stmt.body \in Seq(LoopStmt)
  BY <1>1, FrameFields, StatementParts DEF Stmt
<1>3. to \in Frames /\ to.op = "brace" /\ end \in Frames /\ end.op = "endScope" /\ end.depth = Depth
  BY <1>1, <1>2, FrameForms
<1>4. to.rest = Stmt.body
  OBVIOUS
<1>5. todo' = <<to, end>> \o Tail(todo) /\ UNCHANGED <<fn, prog, cleanups, breakDests, continueDests>>
  <2>1. <<to>> \o <<end>> = <<to, end>>
    BY PairOf
  <2> QED BY <2>1 DEF VisitBrace, Then, Scoped, SameCleanups, SameDests, Fine
<1> HIDE DEF to, end
<1>6. <<to, end>> \in Seq(Frames) /\ LinearMove(todo[1], <<to, end>>, fn, fn')
  <2>1. MayJump(to) => MayJump(todo[1])
    BY <1>1, <1>2, <1>3, <1>4, FreeParts DEF MayJump
  <2>2. /\ ~Quiet(todo[1]) /\ ~MayJump(end) /\ ~NeedsIP(end) /\ FrameFits(to, fn') /\ FrameFits(end, fn')
        /\ {to.op, end.op} \subseteq Linear /\ todo[1].op \in Linear /\ todo[1].op # "bind"
    BY <1>1, <1>3 DEF Quiet, MayJump, NeedsIP, FrameFits, Linear
  <2>3. /\ \A x \in {to, end} : /\ x.op \in Linear /\ FrameFits(x, fn')
                                /\ MayJump(x) => MayJump(todo[1])
                                /\ Quiet(todo[1]) => Quiet(x)
        /\ fn' = fn
    BY <2>1, <2>2, <1>5
  <2> QED BY <1>1, <1>3, <2>2, <2>3, Unchanged, TwoFrames
<1>7. ScopesFit(todo', cleanups', prog)
  <2>1. /\ Len(prog.params) \in Nat /\ DOMAIN prog.params = 1 .. Len(prog.params)
    BY <1>1, ProgramAssumption
  <2>2. CASE todo = <<Visit(prog.body)>> /\ cleanups = prog.params
    <3>1. Tail(todo) = << >>
      BY <2>2
    <3>2. <<to, end>> \o << >> = <<to, end>>
      OBVIOUS
    <3>3. todo' = <<to, end>>
      BY <1>5, <3>1, <3>2
    <3>4. /\ todo' # << >> /\ todo'[Len(todo')] = end /\ \A i \in DOMAIN todo' : todo'[i] \in {to, end}
      BY <3>3
    <3>5. Holds(cleanups, prog) /\ Depth = Len(prog.params)
      BY <2>1, <2>2 DEF Holds, Depth
    <3>6. InBody(todo', cleanups, prog)
      BY <1>3, <2>1, <3>4, <3>5 DEF InBody
    <3> QED BY <1>5, <3>6 DEF ScopesFit
  <2>3. CASE InBody(todo, cleanups, prog)
    <3>1. Holds(cleanups, prog) /\ Len(prog.params) <= Depth
      BY <2>3 DEF InBody, Holds, Depth
    <3>2. \A i \in DOMAIN <<to, end>> : <<to, end>>[i] \in {to, end}
      OBVIOUS
    <3>3. \A i \in DOMAIN <<to, end>> : <<to, end>>[i].op = "endScope" => Len(prog.params) <= <<to, end>>[i].depth
      BY <3>1, <3>2, <1>3
    <3>4. InBody(todo', cleanups, prog)
      BY <1>1, <1>5, <1>6, <2>1, <2>3, <3>1, <3>3, BodyReplaced
    <3> QED BY <1>5, <3>4 DEF ScopesFit
  <2>4. \A vs : todo # <<Bind(vs), Visit(prog.body)>>
    BY <1>1 DEF Bind
  <2> QED BY <1>1, <2>2, <2>3, <2>4 DEF ScopesFit
<1>8. <<to, end>>[1].op # "branch" /\ Sound(fn') /\ cleanups' \in Seq(Name)
  BY <1>1, <1>3, <1>5
<1> QED BY <1>1, <1>5, <1>6, <1>7, <1>8, LinearKeeps

\* An assertion that trips leaves everything as it was.
LEMMA AbortKeeps ==
    ASSUME GenInv, NEW what, Abort(what)
    PROVE  GenInv'
<1>1. UNCHANGED <<fn, prog, todo, cleanups, breakDests, continueDests>>
  BY DEF Abort
<1> QED BY <1>1 DEF GenInv

\* The elements of a brace are visited only where code can be reached.
LEMMA BraceElementReachable ==
    ASSUME GenInv, Running("brace"), ~BraceEnds
    PROVE  HasValidIP(fn)
<1>1. todo # << >> /\ todo[1] = Head(todo) /\ todo[1].op = "brace" /\ todo[1] \in Frames
      /\ (NeedsIP(todo[1]) => HasValidIP(fn))
  BY GenInvParts DEF Running
<1> QED BY <1>1, FrameFields DEF BraceEnds, NeedsIP, Frame

\* The elements of a brace, until one leaves no insertion point.
LEMMA BraceElementKeeps ==
    ASSUME GenInv, BraceElement
    PROVE  GenInv'
<1> DEFINE to == Visit(Head(Frame.rest))
           next == [op |-> "brace", rest |-> Tail(Frame.rest), first |-> FALSE]
<1>1. /\ todo # << >> /\ todo[1] = Head(todo) /\ todo[1] \in Frames /\ todo[1].op = "brace"
      /\ Sound(fn) /\ cleanups \in Seq(Name)
  BY GenInvParts DEF BraceElement, Running
<1>2. Frame = todo[1] /\ Frame.rest \in Seq(LoopStmt)
  BY <1>1, FrameFields DEF Frame
<1>3. CASE BraceEnds /\ Then(<< >>) /\ Fine /\ UNCHANGED <<fn, cleanups>> /\ SameDests
  <2>1. todo' = << >> \o Tail(todo) /\ UNCHANGED <<fn, prog, cleanups, breakDests, continueDests>>
    BY <1>3 DEF Then, Fine, SameDests
  <2>2. << >> \in Seq(Frames) /\ LinearMove(todo[1], << >>, fn, fn')
    BY <1>1, <2>1, Unchanged, NoFrames DEF Linear
  <2>3. ~(<< >> # << >>) /\ Sound(fn') /\ cleanups' \in Seq(Name) /\ DOMAIN << >> = {}
    BY <1>1, <2>1
  <2>4. ScopesFit(todo', cleanups', prog)
    BY <1>1, <2>1, <2>2, <2>3, ScopesKept
  <2> QED BY <1>1, <2>1, <2>2, <2>3, <2>4, LinearKeeps
<1>4. CASE /\ ~BraceEnds /\ HasValidIP(fn) /\ Then(<<to, next>>)
           /\ UNCHANGED fn /\ SameCleanups /\ SameDests /\ Fine
  <2>1. todo' = <<to, next>> \o Tail(todo) /\ UNCHANGED <<fn, prog, cleanups, breakDests, continueDests>>
    BY <1>4 DEF Then, Fine, SameDests, SameCleanups
  <2>2. Frame.rest # << >> /\ Head(Frame.rest) \in LoopStmt /\ Tail(Frame.rest) \in Seq(LoopStmt)
    BY <1>2, <1>4 DEF BraceEnds
  <2>3. to \in Frames /\ next \in Frames
    BY <2>2, FrameForms
  <2>4. /\ to.op = "visit" /\ to.stmt = Head(Frame.rest) /\ next.op = "brace"
        /\ next.rest = Tail(Frame.rest) /\ next.first = FALSE
    BY DEF Visit
  <2> HIDE DEF to, next
  <2>5. <<to, next>> \in Seq(Frames) /\ LinearMove(todo[1], <<to, next>>, fn, fn')
    <3>1. (MayJump(to) => MayJump(todo[1])) /\ (MayJump(next) => MayJump(todo[1]))
      <4>1. ASSUME Frame.rest \in Seq(FreeStmt)
            PROVE  Head(Frame.rest) \in FreeStmt /\ Tail(Frame.rest) \in Seq(FreeStmt)
        BY <4>1, <2>2
      <4> QED BY <4>1, <1>1, <1>2, <2>4 DEF MayJump
    <3>2. ~Quiet(todo[1]) /\ ~NeedsIP(next) /\ FrameFits(to, fn') /\ FrameFits(next, fn')
          /\ {to.op, next.op} \subseteq Linear /\ todo[1].op \in Linear /\ todo[1].op # "bind"
      BY <1>1, <2>4 DEF Quiet, NeedsIP, FrameFits, Linear
    <3>3. /\ \A x \in {to, next} : /\ x.op \in Linear /\ FrameFits(x, fn')
                                   /\ MayJump(x) => MayJump(todo[1])
                                   /\ Quiet(todo[1]) => Quiet(x)
          /\ fn' = fn
      BY <3>1, <3>2, <2>1
    <3> QED BY <1>4, <2>3, <3>2, <3>3, Unchanged, TwoFrames
  <2>6. ScopesFit(todo', cleanups', prog)
    <3>1. \A i \in DOMAIN <<to, next>> : <<to, next>>[i] \in {to, next}
      OBVIOUS
    <3>2. \A i \in DOMAIN <<to, next>> : <<to, next>>[i].op # "endScope"
      BY <3>1, <2>4
    <3> QED BY <1>1, <2>1, <2>5, <3>2, ScopesKept
  <2>7. <<to, next>>[1].op # "branch" /\ Sound(fn') /\ cleanups' \in Seq(Name)
    BY <1>1, <2>1, <2>4
  <2> QED BY <1>1, <2>1, <2>5, <2>6, <2>7, LinearKeeps
<1>5. CASE Abort("brace element without insertion point")
  BY <1>5, AbortKeeps
<1> QED BY <1>3, <1>4, <1>5, BraceElementReachable DEF BraceElement, Require

\* The end of a scope pops and emits its cleanups, down to those of the parameters.
LEMMA EndScopeKeeps ==
    ASSUME GenInv, EndScope
    PROVE  GenInv'
<1>1. /\ todo # << >> /\ todo[1] = Head(todo) /\ todo[1] \in Frames /\ todo[1].op = "endScope"
      /\ Sound(fn) /\ cleanups \in Seq(Name) /\ todo \in Seq(Frames)
      /\ prog \in Program /\ ScopesFit(todo, cleanups, prog) /\ Pending(fn) \subseteq Block
  BY GenInvParts DEF EndScope, Running, GenInv
<1>2. Frame = todo[1] /\ Frame.depth \in Nat /\ Depth = Len(cleanups)
  BY <1>1, FrameFields DEF Frame, Depth
<1>3. UNCHANGED <<prog, breakDests, continueDests>>
  BY DEF EndScope, SameDests, Fine
<1>4. /\ Len(prog.params) \in Nat /\ prog.params \in Seq(Name)
      /\ DOMAIN prog.params = 1 .. Len(prog.params)
  BY <1>1, ProgramAssumption
<1>5. InBody(todo, cleanups, prog)
  BY <1>1, InsideBody
<1>6. Holds(cleanups, prog) /\ Len(prog.params) <= Frame.depth
  <2>1. 1 \in DOMAIN todo
    BY <1>1
  <2> QED BY <1>1, <1>2, <1>5, <2>1 DEF InBody
<1>7. CASE Depth = Frame.depth /\ Then(<< >>) /\ UNCHANGED fn /\ SameCleanups
  <2>1. todo' = << >> \o Tail(todo) /\ UNCHANGED <<fn, cleanups>>
    BY <1>7 DEF Then, SameCleanups
  <2>2. << >> \in Seq(Frames) /\ LinearMove(todo[1], << >>, fn, fn')
    BY <1>1, <2>1, Unchanged, NoFrames DEF Linear
  <2>3. ~(<< >> # << >>) /\ Sound(fn') /\ cleanups' \in Seq(Name) /\ DOMAIN << >> = {}
    BY <1>1, <2>1
  <2>4. ScopesFit(todo', cleanups', prog)
    <3>1. CASE Len(todo) = 1
      <4>1. todo' = << >>
        BY <1>1, <2>1, <3>1
      <4>2. Len(cleanups) = Len(prog.params)
        BY <1>2, <1>5, <1>7, <3>1 DEF InBody
      <4>3. cleanups = prog.params
        BY <1>1, <1>4, <1>6, <4>2, SeqEqual DEF Holds
      <4> QED BY <2>1, <4>1, <4>3 DEF ScopesFit
    <3>2. CASE Len(todo) # 1
      <4>0. Len(todo) \in Nat /\ Len(todo) # 0
        <5>1. todo \in Seq(Frames) /\ todo # << >>
          BY <1>1
        <5> QED BY <5>1
      <4>1. 1 < Len(todo)
        <5> DEFINE n == Len(todo)
        <5>1. n \in Nat /\ n # 0 /\ n # 1
          BY <4>0, <3>2
        <5> HIDE DEF n
        <5>2. 1 < n
          BY <5>1
        <5> QED BY <5>2 DEF n
      <4>2. InBody(todo', cleanups', prog)
        BY <1>1, <1>4, <1>5, <1>6, <2>1, <2>2, <2>3, <4>1, BodyReplaced
      <4> QED BY <4>2 DEF ScopesFit
    <3> QED BY <3>1, <3>2
  <2> QED BY <1>1, <1>3, <2>1, <2>2, <2>3, <2>4, LinearKeeps
<1>8. CASE /\ Depth > Frame.depth
           /\ fn' = EmitCleanup(fn, cleanups[Depth])
           /\ cleanups' = SubSeq(cleanups, 1, Depth - 1)
           /\ UNCHANGED todo
  <2>1. cleanups[Depth] \in Name
    BY <1>1, <1>2, <1>8
  <2>2. /\ Sound(fn') /\ fn'.linked = fn.linked /\ fn'.emitted = fn.emitted /\ fn'.ip = fn.ip
        /\ \A c \in Pending(fn) : Keeps(fn, fn', c)
    BY <1>1, <1>8, <2>1, PairSound, ZenonT(60) DEF EmitCleanup, PlainOps
  <2>3. todo' = <<todo[1]>> \o Tail(todo)
    BY <1>1, <1>8, FirstAndRest
  <2>4. <<todo[1]>> \in Seq(Frames) /\ LinearMove(todo[1], <<todo[1]>>, fn, fn')
    BY <1>1, <2>2, OneFrame DEF Linear, FrameFits, NeedsIP
  <2>5. /\ cleanups' \in Seq(Name) /\ Len(cleanups') = Depth - 1
        /\ \A i \in 1 .. Depth - 1 : cleanups'[i] = cleanups[i]
    BY <1>1, <1>2, <1>8
  <2>6. Holds(cleanups', prog)
    BY <1>2, <1>4, <1>6, <1>8, <2>5 DEF Holds
  <2>7. ScopesFit(todo', cleanups', prog)
    BY <1>5, <1>8, <2>6 DEF ScopesFit, InBody
  <2>8. <<todo[1]>>[1].op # "branch"
    BY <1>1
  <2> QED BY <1>1, <1>3, <2>2, <2>3, <2>4, <2>5, <2>7, <2>8, LinearKeeps
<1> QED BY <1>7, <1>8 DEF EndScope

\* A return, or its abort without a value.
LEMMA VisitReturnKeeps ==
    ASSUME GenInv, VisitReturn
    PROVE  GenInv'
<1>1. /\ todo # << >> /\ todo[1] = Head(todo) /\ todo[1] \in Frames /\ HasValidIP(fn)
      /\ todo[1].op = "visit" /\ todo[1].stmt.kind = "return"
      /\ Sound(fn) /\ cleanups \in Seq(Name) /\ Pending(fn) \subseteq Block
  BY GenInvParts DEF VisitReturn, Visiting, Running, NeedsIP
<1>2. Stmt.id \in Name
  BY <1>1, FrameFields, StatementParts DEF Stmt
<1>3. CASE /\ fn' = CreateExit(fn, "return", Stmt.id)
           /\ Then(<< >>) /\ SameCleanups /\ SameDests /\ Fine
  <2>1. todo' = << >> \o Tail(todo) /\ UNCHANGED <<prog, cleanups, breakDests, continueDests>>
    BY <1>3 DEF Then, SameCleanups, SameDests, Fine
  <2>2. /\ Sound(fn') /\ fn'.linked = fn.linked /\ fn'.emitted = fn.emitted
        /\ \A c \in Pending(fn) : Keeps(fn, fn', c)
    BY <1>1, <1>2, <1>3, ExitSound
  <2>3. << >> \in Seq(Frames) /\ LinearMove(todo[1], << >>, fn, fn')
    BY <1>1, <2>2, NoFrames DEF Linear
  <2>4. ~(<< >> # << >>) /\ cleanups' \in Seq(Name) /\ DOMAIN << >> = {}
    BY <1>1, <2>1
  <2>5. ScopesFit(todo', cleanups', prog)
    BY <1>1, <2>1, <2>3, <2>4, ScopesKept
  <2> QED BY <1>1, <2>1, <2>2, <2>3, <2>4, <2>5, LinearKeeps
<1>4. CASE Abort("null return value")
  BY <1>4, AbortKeeps
<1> QED BY <1>3, <1>4 DEF VisitReturn

\* The destination of a break or a continue is a block of the function.
LEMMA JumpTarget ==
    ASSUME GenInv, todo # << >>, todo[1].op = "visit", todo[1].stmt.kind \in {"break", "continue"},
           NEW dests \in {breakDests, continueDests}
    PROVE  /\ dests[Len(dests)] \in Dests /\ dests[Len(dests)].block \in fn.linked
           /\ \A i \in DOMAIN todo : ~Joins(todo[i], dests[Len(dests)].block)
<1>0. ASSUME NEW x \in DOMAIN todo, NEW b \in Owned(todo[x]),
             todo[x].op \in {"endLoop", "doCondition", "forInc"}, NEW i \in DOMAIN todo, Joins(todo[i], b)
      PROVE  FALSE
  <2>1. b \in Owned(todo[i]) /\ i # x
    BY <1>0, JoinOwned DEF GenInv, StackFits, Joins
  <2> QED BY <2>1 DEF GenInv, StackFits, Ownership
<1>1. /\ todo \in Seq(Frames) /\ 1 \in DOMAIN todo /\ DOMAIN todo = 1 .. Len(todo)
      /\ breakDests \in Seq(Dests) /\ continueDests \in Seq(Dests)
      /\ Len(breakDests) = Len(continueDests)
      /\ DestsMatch(todo, breakDests) /\ ContinuesFit(todo, fn, breakDests, continueDests)
      /\ LoopsFit(todo) /\ Ownership(todo, fn) /\ Sound(fn)
  BY DEF GenInv, StackFits, DestsFit
<1>2. MayJump(todo[1])
  BY FreeParts DEF MayJump
<1>3. PICK e \in DOMAIN todo : EndsLoop(todo[e])
  BY <1>1, <1>2 DEF LoopsFit
<1>4. PICK j \in DOMAIN breakDests : breakDests[j].block = EndOf(todo[e])
  BY <1>1, <1>3 DEF DestsMatch
<1> DEFINE top == Len(breakDests)
<1>5. top \in DOMAIN breakDests /\ top \in DOMAIN continueDests
  BY <1>1, <1>4
<1>6. breakDests[top] \in Dests /\ continueDests[top] \in Dests
  BY <1>1, <1>5
<1>7. /\ breakDests[top].block \in fn.linked
      /\ \A i \in DOMAIN todo : ~Joins(todo[i], breakDests[top].block)
  <2>1. PICK x \in DOMAIN todo : EndsAt(todo, x, breakDests[top].block)
    BY <1>1, <1>5 DEF DestsMatch
  <2>2. todo[x].op \in {"endLoop", "doCondition"} /\ breakDests[top].block \in Owned(todo[x])
        /\ breakDests[top].block \in Pending(fn)
    BY <1>1, <2>1, EndOwned DEF EndsAt, EndsLoop
  <2> QED BY <1>0, <2>2 DEF Pending
<1>8. /\ continueDests[top].block \in fn.linked
      /\ \A i \in DOMAIN todo : ~Joins(todo[i], continueDests[top].block)
  <2> DEFINE b == continueDests[top].block
  <2>1. ContinueFits(todo, fn, breakDests[top].block, b)
    BY <1>1, <1>5 DEF ContinuesFit
  <2>2. CASE b \in fn.emitted
    <3>1. ASSUME NEW i \in DOMAIN todo, Joins(todo[i], b) PROVE FALSE
      BY <2>2, <3>1, JoinOwned DEF GenInv, StackFits, Pending
    <3> QED BY <1>1, <2>2, <3>1 DEF Sound
  <2>3. ASSUME NEW i \in DOMAIN todo, todo[i].op = "forInc", todo[i].inc = b
        PROVE  b \in fn.linked /\ \A x \in DOMAIN todo : ~Joins(todo[x], b)
    <3>1. b \in Owned(todo[i])
      BY <2>3 DEF Owned
    <3>2. b \in fn.linked
      BY <1>1, <3>1 DEF Ownership, Pending
    <3> QED BY <1>0, <2>3, <3>1, <3>2
  <2>4. ASSUME NEW x \in DOMAIN todo, todo[x].op = "endLoop", \A i \in 1 .. x - 1 : Quiet(todo[i])
        PROVE  FALSE
    <3>1. x # 1
      BY <2>4
    <3>2. 1 \in 1 .. x - 1
      BY <1>1, <3>1
    <3> QED BY <2>4, <3>2 DEF Quiet
  <2> QED BY <2>1, <2>2, <2>3, <2>4 DEF ContinueFits
<1> QED BY <1>1, <1>6, <1>7, <1>8

\* A branch frame on top of the stack fits if its destination did before.
LEMMA BranchOnTop ==
    ASSUME NEW t, t \in Seq(Frames), t # << >>, NEW to \in Frames, to.op = "branch",
           NEW f, NEW c, to.dest.block \in f.linked, to.top <= Len(c),
           \A i \in DOMAIN t : ~Joins(t[i], to.dest.block)
    PROVE  BranchFits(<<to>> \o Tail(t), f, c)
<1> DEFINE fs == <<to>>
           u == fs \o Tail(t)
<1>1. fs \in Seq(Frames) /\ Len(fs) = 1 /\ fs[1] = to
  OBVIOUS
<1> HIDE DEF fs
<1>2. Replaces(t, fs, u)
  BY <1>1, PushReplaces
<1> HIDE DEF u
<1>3. u[1] = to /\ \A i \in DOMAIN u : i = 1 \/ \E j \in DOMAIN t : u[i] = t[j]
  <2>1. /\ \A i \in DOMAIN u : i > Len(fs) => /\ i - Len(fs) + 1 \in DOMAIN t
                                                /\ u[i] = t[i - Len(fs) + 1]
        /\ \A i \in 1 .. Len(fs) : u[i] = fs[i]
        /\ DOMAIN u = 1 .. Len(u) /\ Len(u) \in Nat
    <3>1. Len(u) = Len(fs) + Len(t) - 1 /\ Len(t) \in Nat \ {0} /\ Len(fs) \in Nat
      BY <1>2, ReplacedAt
    <3> QED BY <1>2, <3>1, ReplacedAt
  <2>2. u[1] = to
    BY <1>1, <2>1
  <2>3. ASSUME NEW i \in DOMAIN u, i # 1 PROVE \E j \in DOMAIN t : u[i] = t[j]
    BY <1>1, <2>1, <2>3
  <2> QED BY <2>2, <2>3
<1>4. ~Joins(to, to.dest.block)
  BY DEF Joins
<1>5. BranchFits(u, f, c)
  BY <1>3, <1>4 DEF BranchFits
<1> QED BY <1>5 DEF u, fs

\* A break or a continue finds its destination.
LEMMA VisitJumpKeeps ==
    ASSUME GenInv, VisitJump
    PROVE  GenInv'
<1> DEFINE dests == IF Stmt.kind = "break" THEN breakDests ELSE continueDests
           dest == dests[Len(dests)]
           to == [op |-> "branch", dest |-> dest, top |-> Depth]
<1>1. /\ todo # << >> /\ todo[1] = Head(todo) /\ todo[1] \in Frames /\ HasValidIP(fn)
      /\ todo[1].op = "visit" /\ todo[1].stmt.kind \in {"break", "continue"}
      /\ Sound(fn) /\ cleanups \in Seq(Name) /\ Depth = Len(cleanups) /\ Depth \in Nat
  BY GenInvParts DEF VisitJump, Visiting, Running, NeedsIP, Depth
<1>2. dest \in Dests /\ dest.block \in fn.linked /\ \A i \in DOMAIN todo : ~Joins(todo[i], dest.block)
  <2>1. dests \in {breakDests, continueDests}
    OBVIOUS
  <2> HIDE DEF dests
  <2> QED BY <1>1, <2>1, JumpTarget
<1>3. CASE /\ Then(<<to>>) /\ UNCHANGED fn /\ SameCleanups /\ SameDests /\ Fine
  <2>1. todo' = <<to>> \o Tail(todo) /\ UNCHANGED <<fn, prog, cleanups, breakDests, continueDests>>
    BY <1>3 DEF Then, SameCleanups, SameDests, Fine
  <2>2. to \in Frames /\ to.op = "branch" /\ to.dest = dest /\ to.top = Depth
    <3> HIDE DEF dest
    <3> QED BY <1>1, <1>2, FrameForms
  <2> HIDE DEF to, dest
  <2>3. <<to>> \in Seq(Frames) /\ LinearMove(todo[1], <<to>>, fn, fn')
    <3>1. ~Quiet(todo[1]) /\ ~MayJump(to) /\ FrameFits(to, fn')
      BY <1>1, <2>2 DEF Quiet, MayJump, FrameFits
    <3> QED BY <1>1, <2>1, <2>2, <3>1, Unchanged, OneFrame DEF Linear
  <2>4. ScopesFit(todo', cleanups', prog)
    <3>1. \A i \in DOMAIN <<to>> : <<to>>[i] = to
      OBVIOUS
    <3> QED BY <1>1, <2>1, <2>2, <2>3, <3>1, ScopesKept
  <2>5. BranchFits(todo', fn', cleanups')
    <3>1. todo \in Seq(Frames) /\ to.top <= Len(cleanups)
      BY <1>1, <2>2, GenInvParts
    <3> QED BY <1>1, <1>2, <2>1, <2>2, <3>1, BranchOnTop
  <2>6. Sound(fn') /\ cleanups' \in Seq(Name)
    BY <1>1, <2>1
  <2> QED BY <1>1, <2>1, <2>3, <2>4, <2>5, <2>6, LinearKeeps
<1>4. CASE Abort("branch without insertion point")
  BY <1>4, AbortKeeps
<1> QED BY <1>3, <1>4 DEF VisitJump, Require

\* Emitting the cleanups a jump passes, then the jump itself.
LEMMA ThreadCleanupKeeps ==
    ASSUME GenInv, ThreadCleanup
    PROVE  GenInv'
<1>1. /\ todo # << >> /\ todo[1] = Head(todo) /\ todo[1] \in Frames /\ HasValidIP(fn)
      /\ todo[1].op = "branch" /\ Sound(fn) /\ cleanups \in Seq(Name)
      /\ BranchFits(todo, fn, cleanups) /\ Pending(fn) \subseteq Block
  BY GenInvParts DEF ThreadCleanup, Running, NeedsIP, GenInv
<1>2. /\ Frame = todo[1] /\ Frame.dest \in Dests /\ Frame.top \in Nat
      /\ Frame.dest.depth \in Nat /\ Frame.dest.block \in fn.linked /\ Frame.top <= Len(cleanups)
      /\ \A i \in DOMAIN todo : ~Joins(todo[i], Frame.dest.block)
      /\ Frame = [op |-> "branch", dest |-> Frame.dest, top |-> Frame.top]
  BY <1>1, FrameFields DEF Frame, BranchFits, Dests
<1>3. UNCHANGED <<prog, cleanups, breakDests, continueDests>>
  BY DEF ThreadCleanup, SameDests, SameCleanups, Fine
<1>4. CASE /\ Frame.top > Frame.dest.depth
           /\ fn' = EmitCleanup(fn, cleanups[Frame.top])
           /\ Then(<<[Frame EXCEPT !.top = @ - 1]>>)
  <2> DEFINE to == [op |-> "branch", dest |-> Frame.dest, top |-> Frame.top - 1]
  <2>1. todo' = <<to>> \o Tail(todo)
    <3>1. [Frame EXCEPT !.top = @ - 1] = to
      BY <1>2
    <3> QED BY <1>4, <3>1 DEF Then
  <2>2. cleanups[Frame.top] \in Name /\ Frame.top - 1 \in Nat
    BY <1>1, <1>2, <1>4
  <2>3. to \in Frames /\ to.op = "branch" /\ to.dest = Frame.dest /\ to.top = Frame.top - 1
    BY <1>2, <2>2, FrameForms
  <2>4. /\ Sound(fn') /\ fn'.linked = fn.linked /\ fn'.emitted = fn.emitted /\ fn'.ip = fn.ip
        /\ \A c \in Pending(fn) : Keeps(fn, fn', c)
    BY <1>1, <1>4, <2>2, PairSound, ZenonT(60) DEF EmitCleanup, PlainOps
  <2> HIDE DEF to
  <2>5. <<to>> \in Seq(Frames) /\ LinearMove(todo[1], <<to>>, fn, fn')
    <3>1. ~Quiet(todo[1]) /\ ~MayJump(to) /\ FrameFits(to, fn') /\ HasValidIP(fn')
      BY <1>1, <2>3, <2>4 DEF Quiet, MayJump, FrameFits, HasValidIP
    <3> QED BY <1>1, <2>3, <2>4, <3>1, OneFrame DEF Linear
  <2>6. ScopesFit(todo', cleanups', prog)
    <3>1. \A i \in DOMAIN <<to>> : <<to>>[i] = to
      OBVIOUS
    <3> QED BY <1>1, <1>3, <2>1, <2>3, <2>5, <3>1, ScopesKept
  <2>7. BranchFits(todo', fn', cleanups')
    <3>1. todo \in Seq(Frames) /\ to.top <= Len(cleanups')
      BY <1>1, <1>2, <1>3, <2>3, GenInvParts
    <3> QED BY <1>1, <1>2, <2>1, <2>3, <2>4, <3>1, BranchOnTop
  <2>8. cleanups' \in Seq(Name)
    BY <1>1, <1>3
  <2> QED BY <1>1, <1>3, <2>1, <2>4, <2>5, <2>6, <2>7, <2>8, LinearKeeps
<1>5. CASE fn' = Jump(fn, Frame.dest.block) /\ Then(<< >>)
  <2> DEFINE b == Frame.dest.block
             fs == << >>
             u == fs \o Tail(todo)
  <2>1. todo' = u
    BY <1>5 DEF Then
  <2>2. /\ Sound(fn') /\ fn'.linked = fn.linked /\ fn'.emitted = fn.emitted
        /\ \A c \in Block \ {b} : Keeps(fn, fn', c)
    BY <1>1, <1>2, <1>5, JumpSound
  <2>3. fs \in Seq(Frames) /\ Len(fs) = 0 /\ DOMAIN fs = {} /\ fs = << >>
    OBVIOUS
  <2>4. StackFits(todo, fn) /\ DestsFit(todo, fn, breakDests, continueDests)
    BY DEF GenInv
  <2> HIDE DEF fs, u
  <2>5. Replaces(todo, fs, u)
    BY <1>1, <2>3, <2>4, PushReplaces DEF StackFits, u
  <2>6. \A i \in DOMAIN todo : i # 1 => \A c : Joins(todo[i], c) => Keeps(fn, fn', c)
    <3>1. \A i \in DOMAIN todo : \A c : Joins(todo[i], c) => c \in Block /\ c # b
      BY <1>1, <1>2, <2>4, JoinOwned DEF StackFits
    <3> QED BY <2>2, <3>1
  <2>7. FramesFit(u, fn')
    BY <2>2, <2>3, <2>4, <2>5, <2>6, FramesReplaced DEF StackFits
  <2>8. Ownership(u, fn')
    <3>1. Owned(todo[1]) = {} /\ Pending(fn') = Pending(fn)
      BY <1>1, <2>2 DEF Owned, Pending
    <3>2. Hands(todo[1], fs, fn, fn')
      BY <2>3, <3>1 DEF Hands
    <3> QED BY <2>4, <2>5, <3>2, OwnershipReplaced DEF StackFits
  <2>9. Reachable(u, fn')
    BY <1>1, <2>3, <2>4, <2>5, ReachableReplaced DEF StackFits
  <2>10. LoopsFit(u) /\ u \in Seq(Frames)
    BY <2>3, <2>4, <2>5, LoopsReplaced DEF StackFits, Replaces
  <2>11. DestsFit(u, fn', breakDests, continueDests)
    BY <1>1, <2>2, <2>3, <2>4, DestsKept DEF EndsLoop, Quiet, u
  <2>12. BranchFits(u, fn', cleanups')
    BY <1>1, <2>3, <2>4, NoBranchFits DEF u
  <2>13. ScopesFit(u, cleanups', prog)
    BY <1>1, <1>3, <2>3, ScopesKept DEF u
  <2> QED BY <1>1, <1>3, <2>1, <2>2, <2>7, <2>8, <2>9, <2>10, <2>11, <2>12, <2>13, GenInvParts
          DEF GenInv, StackFits
<1> QED BY <1>4, <1>5 DEF ThreadCleanup

\* Nothing but the first frame goes, and code and destinations stay.
LEMMA DropKeeps ==
    ASSUME GenInv, todo # << >>, todo[1].op \in (Linear \ {"bind", "endScope"}) \cup {"loopBack"},
           ~(todo[1].op = "visit" /\ todo[1].stmt.kind = "brace"), Then(<< >>),
           UNCHANGED <<prog, cleanups, breakDests, continueDests>>,
           Sound(fn'), fn'.linked = fn.linked, fn'.emitted = fn.emitted,
           \A c \in Pending(fn) : Keeps(fn, fn', c)
    PROVE  GenInv'
<1>1. todo' = << >> \o Tail(todo)
  BY DEF Then
<1>2. << >> \in Seq(Frames) /\ LinearMove(todo[1], << >>, fn, fn')
  BY NoFrames DEF Linear
<1>3. ~(<< >> # << >>) /\ cleanups' \in Seq(Name) /\ DOMAIN << >> = {}
  BY GenInvParts
<1>4. ScopesFit(todo', cleanups', prog)
  BY <1>1, <1>2, <1>3, ScopesKept DEF Linear
<1> QED BY <1>1, <1>2, <1>3, <1>4, LinearKeeps

\* The jump back leaves nothing for exitTrue to do.
LEMMA LoopBackKeeps ==
    ASSUME GenInv, LoopBack
    PROVE  GenInv'
<1>1. /\ todo # << >> /\ todo[1] = Head(todo) /\ todo[1] \in Frames
      /\ todo[1].op = "loopBack" /\ Sound(fn) /\ Pending(fn) \subseteq Block
      /\ FrameFits(todo[1], fn) /\ Frame = todo[1]
  BY GenInvParts DEF LoopBack, Running, Frame
<1>2. Then(<< >>) /\ UNCHANGED <<prog, cleanups, breakDests, continueDests>>
  BY DEF LoopBack, SameDests, SameCleanups, Fine
<1>3. Frame.loop \in fn.emitted /\ Frame.loop \in fn.linked
  BY <1>1 DEF FrameFits, Sound
<1> DEFINE g == IF HasValidIP(fn) THEN Jump(fn, Frame.loop) ELSE fn
<1>4. /\ Sound(g) /\ g.linked = fn.linked /\ g.emitted = fn.emitted /\ g.ip = NoBlock
      /\ \A c \in Block \ {Frame.loop} : Keeps(fn, g, c)
  <2>1. CASE HasValidIP(fn)
    BY <1>1, <1>3, <2>1, JumpSound
  <2>2. CASE ~HasValidIP(fn)
    BY <1>1, <2>2 DEF HasValidIP, Keeps
  <2> QED BY <2>1, <2>2
<1>5. fn' = ExitTrue(g, Frame.cond)
  BY DEF LoopBack
<1> HIDE DEF g
<1>6. fn' = g
  BY <1>4, <1>5 DEF ExitTrue, HasValidIP
<1>7. \A c \in Pending(fn) : c \in Block \ {Frame.loop}
  BY <1>1, <1>3 DEF Pending
<1>8. /\ todo[1].op \in (Linear \ {"bind", "endScope"}) \cup {"loopBack"}
      /\ ~(todo[1].op = "visit" /\ todo[1].stmt.kind = "brace")
  BY <1>1 DEF Linear
<1>9. /\ Sound(fn') /\ fn'.linked = fn.linked /\ fn'.emitted = fn.emitted
      /\ \A c \in Pending(fn) : Keeps(fn, fn', c)
  BY <1>4, <1>6, <1>7
<1> QED BY <1>1, <1>2, <1>8, <1>9, DropKeeps

\* The scope of a for statement: its variables, its initializer, its loop.
LEMMA VisitForKeeps ==
    ASSUME GenInv, VisitFor
    PROVE  GenInv'
<1> DEFINE a == Bind(Stmt.vars)
           m == Maybe(Stmt.init)
           h == [op |-> "forHead", stmt |-> Stmt]
           e == [op |-> "endScope", depth |-> Depth]
           fs == (<<a>> \o m \o <<h>>) \o <<e>>
<1>1. /\ todo # << >> /\ todo[1] = Head(todo) /\ todo[1] \in Frames /\ HasValidIP(fn)
      /\ todo[1].op = "visit" /\ todo[1].stmt.kind = "for"
      /\ Sound(fn) /\ cleanups \in Seq(Name) /\ Depth = Len(cleanups) /\ Depth \in Nat
  BY GenInvParts DEF VisitFor, Visiting, Running, NeedsIP, Depth
<1>2. Stmt = todo[1].stmt /\ Stmt \in LoopStmt /\ Stmt.vars \in Seq(Name) /\ Stmt.init \in Callable
  BY <1>1, FrameFields, StatementParts, ForParts DEF Stmt
<1>3. todo' = fs \o Tail(todo) /\ UNCHANGED <<fn, prog, cleanups, breakDests, continueDests>>
  BY DEF VisitFor, Then, Scoped, SameCleanups, SameDests, Fine
<1>4. /\ a \in Frames /\ a.op = "bind" /\ h \in Frames /\ h.op = "forHead" /\ h.stmt = Stmt
      /\ e \in Frames /\ e.op = "endScope" /\ e.depth = Depth
  BY <1>1, <1>2, FrameForms DEF Bind
<1>5. /\ m \in Seq(Frames) /\ Len(m) \in {0, 1}
      /\ \A i \in DOMAIN m : i = 1 /\ m[i].op = "visit" /\ m[i].stmt \in FreeStmt
  BY <1>2, MaybeFrames
<1> HIDE DEF a, m, h, e
<1>6. /\ fs \in Seq(Frames) /\ Len(fs) = Len(m) + 3 /\ fs[1] = a
      /\ fs[Len(m) + 2] = h /\ fs[Len(m) + 3] = e /\ (Len(m) = 1 => fs[2] = m[1])
  <2>1. /\ <<a>> \in Seq(Frames) /\ Len(<<a>>) = 1 /\ <<a>>[1] = a
        /\ <<h>> \in Seq(Frames) /\ Len(<<h>>) = 1 /\ <<h>>[1] = h
        /\ <<e>> \in Seq(Frames) /\ Len(<<e>>) = 1 /\ <<e>>[1] = e
    BY <1>4
  <2> DEFINE p == <<a>> \o m
             q == p \o <<h>>
  <2>2. p \in Seq(Frames) /\ Len(p) = Len(m) + 1 /\ p[1] = a /\ (Len(m) = 1 => p[2] = m[1])
    BY <1>5, <2>1, ConcatProperties
  <2> HIDE DEF p
  <2>3. /\ q \in Seq(Frames) /\ Len(q) = Len(m) + 2 /\ q[1] = a /\ (Len(m) = 1 => q[2] = m[1])
        /\ q[Len(m) + 2] = h
    BY <1>5, <2>1, <2>2, ConcatProperties
  <2> HIDE DEF q
  <2>4. LET r == q \o <<e>>
        IN  /\ r \in Seq(Frames) /\ Len(r) = Len(m) + 3 /\ r[1] = a /\ (Len(m) = 1 => r[2] = m[1])
            /\ r[Len(m) + 2] = h /\ r[Len(m) + 3] = e
    BY <1>5, <2>1, <2>3, ConcatProperties
  <2> QED BY <2>4 DEF p, q
<1> HIDE DEF fs
<1>7. \A i \in DOMAIN fs : \/ i = 1 /\ fs[i] = a
                           \/ i = 2 /\ fs[1] = a /\ fs[i].op = "visit" /\ fs[i].stmt \in FreeStmt
                           \/ fs[i] \in {h, e}
  <2>1. CASE Len(m) = 0
    <3>1. DOMAIN fs = {1, 2, 3}
      BY <1>6, <2>1
    <3> QED BY <1>6, <2>1, <3>1
  <2>2. CASE Len(m) = 1
    <3>1. DOMAIN fs = {1, 2, 3, 4} /\ 1 \in DOMAIN m
      BY <1>5, <1>6, <2>2
    <3> QED BY <1>5, <1>6, <2>2, <3>1
  <2> QED BY <1>5, <2>1, <2>2
<1>8. LinearMove(todo[1], fs, fn, fn')
  <2>1. /\ ~Quiet(todo[1]) /\ todo[1].op \in Linear /\ todo[1].op # "bind" /\ fn' = fn
        /\ \A c \in Pending(fn) : Keeps(fn, fn', c)
    BY <1>1, <1>3, Unchanged DEF Quiet, Linear
  <2>2. ASSUME NEW i \in DOMAIN fs
        PROVE  fs[i].op \in Linear /\ FrameFits(fs[i], fn') /\ ~MayJump(fs[i])
    BY <1>1, <1>2, <1>4, <1>7 DEF Linear, FrameFits, MayJump
  <2>3. ASSUME NEW i \in 2 .. Len(fs), NeedsIP(fs[i])
        PROVE  fs[i].op # "branch" /\ fs[i - 1].op = "bind"
    <3>1. i \in DOMAIN fs /\ i # 1
      BY <1>6
    <3>2. i = 2 /\ fs[1] = a /\ fs[i].op = "visit"
      BY <1>4, <1>7, <2>3, <3>1 DEF NeedsIP
    <3> QED BY <1>4, <3>2
  <2> QED BY <1>1, <2>1, <2>2, <2>3 DEF LinearMove
<1>9. ScopesFit(todo', cleanups', prog)
  <2>1. \A i \in DOMAIN fs : fs[i].op = "endScope" => fs[i].depth = Len(cleanups)
    BY <1>1, <1>4, <1>7
  <2> QED BY <1>1, <1>3, <1>6, <2>1, ScopesKept
<1>10. fs[1].op # "branch" /\ Sound(fn') /\ cleanups' \in Seq(Name)
  BY <1>1, <1>3, <1>4, <1>6
<1> QED BY <1>1, <1>3, <1>6, <1>8, <1>9, <1>10, LinearKeeps

\* The range of a for-each.
LEMMA VisitForEachKeeps ==
    ASSUME GenInv, VisitForEach
    PROVE  GenInv'
<1> DEFINE a == Bind(Stmt.range)
           h == [op |-> "forEachHead", stmt |-> Stmt]
           e == [op |-> "endScope", depth |-> Depth]
           fs == <<a, h>> \o <<e>>
<1>1. /\ todo # << >> /\ todo[1] = Head(todo) /\ todo[1] \in Frames /\ HasValidIP(fn)
      /\ todo[1].op = "visit" /\ todo[1].stmt.kind = "foreach"
      /\ Sound(fn) /\ cleanups \in Seq(Name) /\ Depth = Len(cleanups) /\ Depth \in Nat
  BY GenInvParts DEF VisitForEach, Visiting, Running, NeedsIP, Depth
<1>2. Stmt = todo[1].stmt /\ Stmt \in LoopStmt /\ Stmt.range \in Seq(Name)
  BY <1>1, FrameFields, StatementParts DEF Stmt
<1>3. todo' = fs \o Tail(todo) /\ UNCHANGED <<fn, prog, cleanups, breakDests, continueDests>>
  BY DEF VisitForEach, Then, Scoped, SameCleanups, SameDests, Fine
<1>4. /\ a \in Frames /\ a.op = "bind" /\ h \in Frames /\ h.op = "forEachHead" /\ h.stmt = Stmt
      /\ e \in Frames /\ e.op = "endScope" /\ e.depth = Depth
  BY <1>1, <1>2, FrameForms DEF Bind
<1> HIDE DEF a, h, e
<1>5. fs \in Seq(Frames) /\ Len(fs) = 3 /\ fs[1] = a /\ fs[2] = h /\ fs[3] = e
  <2>1. /\ <<a, h>> \in Seq(Frames) /\ Len(<<a, h>>) = 2 /\ <<a, h>>[1] = a /\ <<a, h>>[2] = h
        /\ <<e>> \in Seq(Frames) /\ Len(<<e>>) = 1 /\ <<e>>[1] = e
    BY <1>4
  <2> DEFINE p == <<a, h>>
             q == <<e>>
  <2>2. /\ p \in Seq(Frames) /\ Len(p) = 2 /\ p[1] = a /\ p[2] = h
        /\ q \in Seq(Frames) /\ Len(q) = 1 /\ q[1] = e
    BY <2>1
  <2> HIDE DEF p, q
  <2>3. LET r == p \o q IN r \in Seq(Frames) /\ Len(r) = 3 /\ r[1] = a /\ r[2] = h /\ r[3] = e
    BY <2>2, ConcatProperties, SMTT(60)
  <2> QED BY <2>3 DEF p, q
<1> HIDE DEF fs
<1>6. \A i \in DOMAIN fs : (i = 1 /\ fs[i] = a) \/ (i # 1 /\ fs[i] \in {h, e})
  <2> SUFFICES ASSUME NEW i \in DOMAIN fs
               PROVE  (i = 1 /\ fs[i] = a) \/ (i # 1 /\ fs[i] \in {h, e})
    OBVIOUS
  <2>1. i = 1 \/ i = 2 \/ i = 3
    BY <1>5
  <2>2. CASE i = 1
    BY <2>2, <1>5
  <2>3. CASE i = 2
    BY <2>3, <1>5
  <2>4. CASE i = 3
    BY <2>4, <1>5
  <2> QED BY <2>1, <2>2, <2>3, <2>4
<1>7. LinearMove(todo[1], fs, fn, fn')
  <2>1. /\ ~Quiet(todo[1]) /\ todo[1].op \in Linear /\ todo[1].op # "bind" /\ fn' = fn
        /\ \A c \in Pending(fn) : Keeps(fn, fn', c)
    BY <1>1, <1>3, Unchanged DEF Quiet, Linear
  <2>2. ASSUME NEW i \in DOMAIN fs
        PROVE  /\ fs[i].op \in Linear /\ FrameFits(fs[i], fn') /\ ~MayJump(fs[i])
               /\ i # 1 => ~NeedsIP(fs[i])
    BY <1>1, <1>2, <1>4, <1>6 DEF Linear, FrameFits, MayJump, NeedsIP
  <2>3. \A i \in 2 .. Len(fs) : i \in DOMAIN fs /\ i # 1
    BY <1>5
  <2> QED BY <1>1, <2>1, <2>2, <2>3 DEF LinearMove
<1>8. ScopesFit(todo', cleanups', prog)
  <2>1. \A i \in DOMAIN fs : fs[i].op = "endScope" => fs[i].depth = Len(cleanups)
    BY <1>1, <1>4, <1>6
  <2> QED BY <1>1, <1>3, <1>5, <2>1, ScopesKept
<1>9. fs[1].op # "branch" /\ Sound(fn') /\ cleanups' \in Seq(Name)
  BY <1>1, <1>3, <1>4, <1>5
<1> QED BY <1>1, <1>3, <1>5, <1>7, <1>8, <1>9, LinearKeeps

-----------------------------------------------------------------------------
\* Frame fr is replaced by the frames fs in a step from f to g that may create,
\* hand on and resolve blocks.
BlockMove(fr, fs, f, g) ==
    /\ f.emitted \subseteq g.emitted
    /\ \A c \in Pending(f) \ Owned(fr) : Keeps(f, g, c)
    /\ Hands(fr, fs, f, g)
    /\ fs # << >> /\ NeedsIP(fs[1]) => HasValidIP(g)
    /\ \A i \in 2 .. Len(fs) : NeedsIP(fs[i]) => fs[i].op # "branch" /\ fs[i - 1].op = "bind"
    /\ \A i \in DOMAIN fs :
          /\ FrameFits(fs[i], g)
          /\ MayJump(fs[i]) => \/ MayJump(fr)
                               \/ \E e \in DOMAIN fs : e > i /\ EndsLoop(fs[e])
          /\ fs[i].op = "loopBack" => /\ i + 2 <= Len(fs) /\ fs[i + 1].op = "complete"
                                      /\ fs[i + 2].op = "endLoop"
          /\ fs[i].op = "forInc" => i + 3 <= Len(fs) /\ fs[i + 1].op = "loopBack"

\* The common part of the steps that branch, join and loop.
LEMMA BlockKeeps ==
    ASSUME GenInv, todo # << >>, todo[1].op \notin {"bind", "endScope"},
           ~(todo[1].op = "visit" /\ todo[1].stmt.kind = "brace"), NEW fs \in Seq(Frames),
           fs # << >> => fs[1].op # "branch",
           \A i \in DOMAIN fs : fs[i].op = "endScope" => fs[i].depth = Len(cleanups),
           todo' = fs \o Tail(todo), UNCHANGED <<prog, cleanups>>, Sound(fn'),
           BlockMove(todo[1], fs, fn, fn'),
           DestsFit(fs \o Tail(todo), fn', breakDests', continueDests')
    PROVE  GenInv'
<1>1. StackFits(todo, fn)
  BY DEF GenInv
<1>2. StackFits(fs \o Tail(todo), fn')
  BY <1>1, StackStep DEF BlockMove
<1>3. BranchFits(fs \o Tail(todo), fn', cleanups')
  BY <1>1, NoBranchFits
<1>4. ScopesFit(fs \o Tail(todo), cleanups', prog')
  BY ScopesKept
<1> QED BY <1>2, <1>3, <1>4 DEF GenInv

\* The common part of those that neither open nor close a loop.
LEMMA JoinKeeps ==
    ASSUME GenInv, todo # << >>, todo[1].op \notin {"bind", "endScope", "forInc", "endLoop"},
           ~(todo[1].op = "visit" /\ todo[1].stmt.kind = "brace"), NEW fs \in Seq(Frames),
           fs # << >> => fs[1].op # "branch",
           \A i \in DOMAIN fs : fs[i].op = "endScope" => fs[i].depth = Len(cleanups),
           todo' = fs \o Tail(todo), Sound(fn'),
           UNCHANGED <<prog, cleanups, breakDests, continueDests>>,
           BlockMove(todo[1], fs, fn, fn'),
           Quiet(todo[1]) => \A i \in DOMAIN fs : Quiet(fs[i]),
           \A i \in DOMAIN fs : EndsLoop(fs[i]) => EndsLoop(todo[1]) /\ EndOf(fs[i]) = EndOf(todo[1]),
           EndsLoop(todo[1]) => \E i \in DOMAIN fs : EndsLoop(fs[i])
    PROVE  GenInv'
<1>1. StackFits(todo, fn) /\ DestsFit(todo, fn, breakDests, continueDests) /\ fn.emitted \subseteq fn'.emitted
  BY DEF GenInv, BlockMove
<1>2. DestsFit(fs \o Tail(todo), fn', breakDests, continueDests)
  BY <1>1, DestsKept
<1>3. DestsFit(fs \o Tail(todo), fn', breakDests', continueDests')
  BY <1>2
<1> QED BY <1>3, BlockKeeps

\* What becomes of the blocks, where no, one or two frames own them.
LEMMA HandsNone ==
    ASSUME NEW fr, NEW f, NEW g, Pending(g) = Pending(f) \ Owned(fr)
    PROVE  Hands(fr, << >>, f, g)
BY DEF Hands

\* One frame takes over a block.
LEMMA HandsOne ==
    ASSUME NEW fr, NEW f, NEW g, NEW a, Owned(a) \cap Pending(f) \subseteq Owned(fr),
           Pending(g) = (Pending(f) \ Owned(fr)) \cup Owned(a)
    PROVE  Hands(fr, <<a>>, f, g)
<1> DEFINE fs == <<a>>
<1>1. Len(fs) = 1 /\ fs[1] = a
  OBVIOUS
<1> HIDE DEF fs
<1>2. \A i \in 1 .. Len(fs) : i = 1
  BY <1>1
<1>3. 1 \in 1 .. Len(fs)
  BY <1>1
<1> QED BY <1>1, <1>2, <1>3 DEF Hands, fs

\* The second of two frames takes over a block.
LEMMA HandsTwo ==
    ASSUME NEW fr, NEW f, NEW g, NEW a, NEW b, Owned(a) = {},
           Owned(b) \cap Pending(f) \subseteq Owned(fr),
           Pending(g) = (Pending(f) \ Owned(fr)) \cup Owned(b)
    PROVE  Hands(fr, <<a, b>>, f, g)
<1> DEFINE fs == <<a, b>>
<1>1. Len(fs) = 2 /\ fs[1] = a /\ fs[2] = b
  OBVIOUS
<1> HIDE DEF fs
<1>2. \A i \in 1 .. Len(fs) : i = 1 \/ i = 2
  BY <1>1
<1>3. 2 \in 1 .. Len(fs)
  BY <1>1
<1>4. \A i \in 1 .. Len(fs) : fs[i] \in {a, b} /\ Owned(fs[i]) \subseteq Owned(b)
  BY <1>1, <1>2
<1>5. \A i, j \in 1 .. Len(fs) : i # j => Owned(fs[i]) \cap Owned(fs[j]) = {}
  BY <1>1, <1>2
<1> QED BY <1>1, <1>3, <1>4, <1>5 DEF Hands, fs

\* A move to one frame.
LEMMA MoveOne ==
    ASSUME NEW fr, NEW f, NEW g, NEW a \in Frames, f.emitted \subseteq g.emitted,
           \A c \in Pending(f) \ Owned(fr) : Keeps(f, g, c),
           Owned(a) \cap Pending(f) \subseteq Owned(fr),
           Pending(g) = (Pending(f) \ Owned(fr)) \cup Owned(a),
           NeedsIP(a) => HasValidIP(g), FrameFits(a, g), MayJump(a) => MayJump(fr),
           a.op \notin {"loopBack", "forInc"}
    PROVE  <<a>> \in Seq(Frames) /\ BlockMove(fr, <<a>>, f, g)
<1> DEFINE fs == <<a>>
<1>1. fs \in Seq(Frames) /\ Len(fs) = 1 /\ \A i \in DOMAIN fs : fs[i] = a
  OBVIOUS
<1>2. fs[1] = a /\ Hands(fr, fs, f, g)
  BY HandsOne
<1> HIDE DEF fs
<1>3. \A i \in 2 .. Len(fs) : FALSE
  BY <1>1
<1> QED BY <1>1, <1>2, <1>3 DEF BlockMove, fs

\* A move to two frames, the second of which owns a block.
LEMMA MoveTwo ==
    ASSUME NEW fr, NEW f, NEW g, NEW a \in Frames, NEW b \in Frames, f.emitted \subseteq g.emitted,
           \A c \in Pending(f) \ Owned(fr) : Keeps(f, g, c),
           Owned(a) = {}, Owned(b) \cap Pending(f) \subseteq Owned(fr),
           Pending(g) = (Pending(f) \ Owned(fr)) \cup Owned(b),
           HasValidIP(g), ~NeedsIP(b), FrameFits(a, g), FrameFits(b, g),
           MayJump(a) => MayJump(fr), MayJump(b) => MayJump(fr),
           {a.op, b.op} \cap {"loopBack", "forInc"} = {}
    PROVE  <<a, b>> \in Seq(Frames) /\ BlockMove(fr, <<a, b>>, f, g)
<1> DEFINE fs == <<a, b>>
<1>1. fs \in Seq(Frames) /\ Len(fs) = 2 /\ fs[2] = b /\ \A i \in DOMAIN fs : fs[i] \in {a, b}
  OBVIOUS
<1>2. Hands(fr, fs, f, g)
  BY HandsTwo
<1> HIDE DEF fs
<1>3. \A i \in 2 .. Len(fs) : i = 2
  BY <1>1
<1>4. \A x \in {a, b} : /\ FrameFits(x, g) /\ (MayJump(x) => MayJump(fr))
                        /\ x.op # "loopBack" /\ x.op # "forInc"
  OBVIOUS
<1> QED BY <1>1, <1>2, <1>3, <1>4 DEF BlockMove, fs

-----------------------------------------------------------------------------
\* An if opens with its condition; the frame that joins it owns the other blocks.
LEMMA VisitIfKeeps ==
    ASSUME GenInv, VisitIf
    PROVE  GenInv'
<1> DEFINE hasFalse == Stmt.else # NoStmt
           c == CondBlocks(fn, hasFalse)
           a == Visit(Stmt.then)
           b == [op |-> "ifTrueExit", cond |-> c, else |-> Stmt.else]
<1>1. /\ todo # << >> /\ todo[1] = Head(todo) /\ todo[1] \in Frames /\ HasValidIP(fn)
      /\ todo[1].op = "visit" /\ todo[1].stmt.kind = "if" /\ Sound(fn) /\ Owned(todo[1]) = {}
  BY GenInvParts DEF VisitIf, Visiting, Running, NeedsIP, Owned
<1>2. /\ Stmt = todo[1].stmt /\ Stmt \in LoopStmt /\ Stmt.cond \in Name
      /\ Stmt.then \in LoopStmt /\ Stmt.else \in LoopStmt \cup {NoStmt} /\ hasFalse \in BOOLEAN
  BY <1>1, FrameFields, StatementParts DEF Stmt
<1>3. CASE /\ fn.n + (IF hasFalse THEN 3 ELSE 2) <= MaxBlock
           /\ fn' = EnterTrue(EmitCondition(fn, Stmt.cond, hasFalse, FALSE), c)
           /\ Then(<<a, b>>) /\ SameCleanups /\ SameDests /\ Fine
  <2>1. /\ todo' = <<a, b>> \o Tail(todo) /\ UNCHANGED <<prog, cleanups, breakDests, continueDests>>
    BY <1>3 DEF Then, SameCleanups, SameDests, Fine
  <2>2. /\ Sound(fn') /\ c \in CondRecs
        /\ c.true = fn.n + 2 /\ c.cont = fn.n + 1 /\ {c.true, c.cont} \subseteq Block \ fn.linked
        /\ c.false = (IF hasFalse THEN fn.n + 3 ELSE NoBlock)
        /\ c.false \notin fn.linked \cup {c.true, c.cont}
        /\ fn'.linked = fn.linked \cup ({c.true, c.cont, c.false} \ {NoBlock})
        /\ fn'.emitted = fn.emitted \cup {c.true} /\ fn'.ip = c.true
        /\ hasFalse => PredEmpty(fn', c.cont)
        /\ \A d \in fn.linked : Keeps(fn, fn', d)
    <3> HIDE DEF c
    <3>1. /\ hasFalse \in BOOLEAN /\ FALSE \in BOOLEAN
          /\ fn.n + (IF hasFalse THEN 3 ELSE 2) <= MaxBlock
      BY <1>3
    <3>2. Stmt.cond \in Name /\ HasValidIP(fn) /\ Sound(fn)
      BY <1>1, <1>2
    <3>3. fn' = EnterTrue(EmitCondition(fn, Stmt.cond, hasFalse, FALSE), c)
      BY <1>3
    <3> HIDE DEF hasFalse
    <3> DEFINE g == EnterTrue(EmitCondition(fn, Stmt.cond, hasFalse, FALSE), c)
    <3>4. /\ Sound(g) /\ c \in CondRecs
          /\ c.true = fn.n + 2 /\ c.cont = fn.n + 1 /\ {c.true, c.cont} \subseteq Block \ fn.linked
          /\ c.false = (IF hasFalse THEN fn.n + 3 ELSE NoBlock)
          /\ c.false \notin fn.linked \cup {c.true, c.cont}
          /\ g.linked = fn.linked \cup ({c.true, c.cont, c.false} \ {NoBlock})
          /\ g.emitted = fn.emitted \cup {c.true} /\ g.ip = c.true
          /\ hasFalse => PredEmpty(g, c.cont)
          /\ \A d \in fn.linked : Keeps(fn, g, d)
      BY <3>1, <3>2, ConditionSound, ZenonT(60) DEF c
    <3> HIDE DEF g
    <3>5. fn' = g
      BY <3>3 DEF g
    <3> QED BY <3>4, <3>5
  <2>3. /\ a \in Frames /\ a.op = "visit" /\ a.stmt = Stmt.then
        /\ b \in Frames /\ b.op = "ifTrueExit" /\ b.cond = c /\ b.else = Stmt.else
    <3> HIDE DEF c
    <3> QED BY <1>2, <2>2, FrameForms DEF Visit
  <2> HIDE DEF a, b, c
  <2>4. fn.emitted \subseteq fn.linked /\ NoBlock \notin Block
    BY <1>1, MaxBlockAssumption DEF Sound, Block, NoBlock
  <2>5. /\ Owned(a) = {} /\ Owned(b) = {c.cont, c.false} \ {NoBlock}
        /\ Pending(fn') = Pending(fn) \cup Owned(b) /\ Owned(b) \cap Pending(fn) = {}
    <3>1. Owned(a) = {} /\ Owned(b) = {c.cont, c.false} \ {NoBlock}
      BY <2>3 DEF Owned
    <3>2. Owned(b) \cap fn.linked = {} /\ c.true \notin Owned(b) /\ c.true \notin fn.linked
      <4>1. fn.n \in Nat /\ c.true # c.cont
        <5>1. fn.n \in Nat
          BY <1>1, SoundFields, MaxBlockAssumption
        <5> QED BY <2>2, <5>1
      <4> DEFINE x == c.true
                 y == c.cont
                 z == c.false
      <4> HIDE DEF x, y, z
      <4>2. {x, y} \cap fn.linked = {} /\ x # y /\ z \notin fn.linked \cup {x, y}
        BY <2>2, <4>1 DEF x, y, z
      <4>3. Owned(b) = {y, z} \ {NoBlock}
        BY <3>1 DEF y, z
      <4> QED BY <4>2, <4>3 DEF x
    <3>3. fn'.linked = fn.linked \cup Owned(b) \cup {c.true}
      BY <2>2, <2>4, <3>1
    <3>4. fn'.emitted = fn.emitted \cup {c.true} /\ fn.emitted \subseteq fn.linked
      BY <2>2, <2>4
    <3>5. Owned(b) \cap fn.emitted = {}
      BY <3>2, <3>4
    <3> DEFINE x == c.true
               o == Owned(b)
    <3> HIDE DEF x, o
    <3>6. o \cap Pending(fn) = {} /\ Pending(fn') = Pending(fn) \cup o
      BY <3>2, <3>3, <3>4, <3>5 DEF Pending, x, o
    <3> QED BY <3>1, <3>6 DEF o
  <2>6. /\ HasValidIP(fn') /\ ~NeedsIP(b) /\ FrameFits(a, fn') /\ FrameFits(b, fn')
        /\ {a.op, b.op} \cap {"loopBack", "forInc", "endScope", "branch"} = {}
    <3>1. HasValidIP(fn')
      BY <2>2, <2>4 DEF HasValidIP
    <3>2. FrameFits(b, fn')
      BY <1>2, <2>2, <2>3, <2>4 DEF FrameFits
    <3> QED BY <2>3, <3>1, <3>2 DEF FrameFits, NeedsIP
  <2>7. (MayJump(a) => MayJump(todo[1])) /\ (MayJump(b) => MayJump(todo[1]))
    BY <1>1, <1>2, <2>2, <2>3, FreeParts DEF MayJump
  <2>8. /\ fn.emitted \subseteq fn'.emitted /\ \A d \in Pending(fn) : Keeps(fn, fn', d)
        /\ Pending(fn') = (Pending(fn) \ Owned(todo[1])) \cup Owned(b)
    BY <1>1, <2>2, <2>5 DEF Pending
  <2>9. <<a, b>> \in Seq(Frames) /\ BlockMove(todo[1], <<a, b>>, fn, fn')
    BY <1>1, <2>3, <2>5, <2>6, <2>7, <2>8, MoveTwo
  <2>10. /\ ~Quiet(todo[1]) /\ ~EndsLoop(todo[1]) /\ <<a, b>>[1].op # "branch"
         /\ \A i \in DOMAIN <<a, b>> : ~EndsLoop(<<a, b>>[i]) /\ <<a, b>>[i].op # "endScope"
    <3>1. \A i \in DOMAIN <<a, b>> : <<a, b>>[i] \in {a, b}
      OBVIOUS
    <3> QED BY <1>1, <2>3, <3>1 DEF Quiet, EndsLoop
  <2> QED BY <1>1, <2>1, <2>2, <2>9, <2>10, JoinKeeps
<1>4. CASE Abort("condition without insertion point")
  BY <1>4, AbortKeeps
<1> QED BY <1>3, <1>4 DEF VisitIf, Require

\* Two steps that leave a block as it is used.
LEMMA KeepsOn ==
    ASSUME NEW f, NEW g, NEW h, NEW c, Keeps(f, g, c), Keeps(g, h, c)
    PROVE  Keeps(f, h, c)
BY DEF Keeps

\* The arms of a condition are lowered, and only joining them is left.
LEMMA ToComplete ==
    ASSUME GenInv, todo # << >>, todo[1].op \in {"ifTrueExit", "ifFalseExit"},
           NEW cond \in CondRecs, cond.cont # NoBlock, Owned(todo[1]) = {cond.cont},
           Then(<<[op |-> "complete", cond |-> cond]>>),
           UNCHANGED <<prog, cleanups, breakDests, continueDests>>,
           Sound(fn'), fn'.linked = fn.linked, fn'.emitted = fn.emitted,
           \A c \in Block \ {cond.cont} : Keeps(fn, fn', c)
    PROVE  GenInv'
<1> DEFINE a == [op |-> "complete", cond |-> cond]
<1>1. todo' = <<a>> \o Tail(todo)
  BY DEF Then
<1>2. a \in Frames /\ a.op = "complete" /\ a.cond = cond
  BY FrameForms
<1>3. Pending(fn) \subseteq Block /\ Owned(todo[1]) \subseteq Pending(fn)
  BY GenInvParts
<1> HIDE DEF a
<1>4. Owned(a) = Owned(todo[1]) /\ Pending(fn') = Pending(fn)
  BY <1>2 DEF Owned, Pending
<1>5. /\ ~NeedsIP(a) /\ FrameFits(a, fn') /\ ~MayJump(a) /\ a.op \notin {"loopBack", "forInc"}
      /\ a.op \notin {"endScope", "branch"} /\ ~EndsLoop(a)
  BY <1>2 DEF NeedsIP, FrameFits, MayJump, EndsLoop
<1>6. /\ fn.emitted \subseteq fn'.emitted
      /\ \A c \in Pending(fn) \ Owned(todo[1]) : Keeps(fn, fn', c)
      /\ Owned(a) \cap Pending(fn) \subseteq Owned(todo[1])
      /\ Pending(fn') = (Pending(fn) \ Owned(todo[1])) \cup Owned(a)
  BY <1>3, <1>4
<1>7. <<a>> \in Seq(Frames) /\ BlockMove(todo[1], <<a>>, fn, fn')
  BY <1>2, <1>5, <1>6, MoveOne
<1>8. /\ ~Quiet(todo[1]) /\ ~EndsLoop(todo[1])
      /\ todo[1].op \notin {"bind", "endScope", "forInc", "endLoop", "visit"}
  BY DEF Quiet, EndsLoop
<1>9. \A i \in DOMAIN <<a>> : <<a>>[i] = a /\ <<a>>[1] = a
  OBVIOUS
<1>10. /\ <<a>> # << >> => <<a>>[1].op # "branch"
       /\ \A i \in DOMAIN <<a>> : <<a>>[i].op # "endScope" /\ ~EndsLoop(<<a>>[i])
  BY <1>5, <1>9
<1> QED BY <1>1, <1>7, <1>8, <1>10, JoinKeeps

\* The true arm jumps to the join; without an else the join is next.
LEMMA IfTrueExitKeeps ==
    ASSUME GenInv, IfTrueExit
    PROVE  GenInv'
<1> DEFINE c == Frame.cond
           f == ExitTrue(fn, c)
           a == Visit(Frame.else)
           b == [op |-> "ifFalseExit", cond |-> c]
<1>1. /\ todo # << >> /\ todo[1] = Head(todo) /\ todo[1] \in Frames
      /\ todo[1].op = "ifTrueExit" /\ Sound(fn) /\ Pending(fn) \subseteq Block
      /\ FrameFits(todo[1], fn) /\ Owned(todo[1]) \subseteq Pending(fn) /\ Frame = todo[1]
  BY GenInvParts DEF IfTrueExit, Running, Frame
<1>2. /\ c \in CondRecs /\ c.cont # NoBlock /\ c.false # c.cont /\ c.cont \in Block
      /\ c.false # NoBlock => Frame.else \in LoopStmt /\ PredEmpty(fn, c.cont)
      /\ Owned(todo[1]) = {c.cont, c.false} \ {NoBlock}
  BY <1>1, FrameFields DEF FrameFits, Owned, CondRecs
<1>3. c.cont \in fn.linked
  BY <1>1, <1>2 DEF Pending
<1>4. /\ Sound(f) /\ f.linked = fn.linked /\ f.emitted = fn.emitted
      /\ \A d \in Block \ {c.cont} : Keeps(fn, f, d)
      /\ PredEmpty(fn, c.cont) => OneJump(f, c.cont)
  <2>1. CASE HasValidIP(fn)
    <3>1. f = Jump(fn, c.cont)
      BY <1>2, <2>1 DEF ExitTrue
    <3> QED BY <1>1, <1>3, <2>1, <3>1, JumpSound
  <2>2. CASE ~HasValidIP(fn)
    <3>1. f = fn
      BY <2>2 DEF ExitTrue
    <3> QED BY <1>1, <3>1 DEF Keeps, OneJump
  <2> QED BY <2>1, <2>2
<1> HIDE DEF f
<1>5. CASE /\ c.false # NoBlock /\ fn' = Start(f, c.false) /\ Then(<<a, b>>)
           /\ SameCleanups /\ SameDests /\ Fine
  <2>1. /\ todo' = <<a, b>> \o Tail(todo) /\ UNCHANGED <<prog, cleanups, breakDests, continueDests>>
    BY <1>5 DEF Then, SameCleanups, SameDests, Fine
  <2>2. c.false \in f.linked \ f.emitted /\ c.false \in Pending(fn)
    BY <1>1, <1>2, <1>4, <1>5 DEF Pending
  <2>3. /\ Sound(fn') /\ fn'.linked = fn.linked /\ fn'.emitted = fn.emitted \cup {c.false}
        /\ fn'.ip = c.false /\ \A d \in Block \ {c.false} : Keeps(f, fn', d)
    BY <1>4, <1>5, <2>2, StartSound
  <2>4. /\ a \in Frames /\ a.op = "visit" /\ a.stmt = Frame.else
        /\ b \in Frames /\ b.op = "ifFalseExit" /\ b.cond = c
    <3> HIDE DEF c
    <3> QED BY <1>2, <1>5, FrameForms DEF Visit
  <2>5. OneJump(fn', c.cont)
    BY <1>2, <1>4, <1>5, <2>3 DEF Keeps
  <2>6. \A d \in Block \ {c.cont, c.false} : Keeps(fn, fn', d)
    BY <1>4, <2>3, KeepsOn
  <2> HIDE DEF a, b, c
  <2>7. Owned(a) = {} /\ Owned(b) = {c.cont} /\ Owned(todo[1]) = {c.cont, c.false}
    BY <1>2, <1>5, <2>4 DEF Owned
  <2>8. /\ Pending(fn') = (Pending(fn) \ Owned(todo[1])) \cup Owned(b)
        /\ Owned(b) \cap Pending(fn) \subseteq Owned(todo[1])
        /\ \A d \in Pending(fn) \ Owned(todo[1]) : Keeps(fn, fn', d)
        /\ fn.emitted \subseteq fn'.emitted
    <3>1. Pending(fn') = Pending(fn) \ {c.false}
      BY <2>3 DEF Pending
    <3> QED BY <1>1, <1>2, <2>3, <2>6, <2>7, <3>1
  <2>9. /\ HasValidIP(fn') /\ ~NeedsIP(b) /\ FrameFits(a, fn') /\ FrameFits(b, fn')
        /\ {a.op, b.op} \cap {"loopBack", "forInc", "endScope", "branch"} = {}
        /\ (MayJump(a) => MayJump(todo[1])) /\ ~MayJump(b)
    <3>1. HasValidIP(fn')
      BY <1>5, <2>3 DEF HasValidIP
    <3>2. ~NeedsIP(b) /\ {a.op, b.op} \cap {"loopBack", "forInc", "endScope", "branch"} = {}
      BY <2>4 DEF NeedsIP
    <3>3. FrameFits(a, fn') /\ FrameFits(b, fn')
      BY <1>2, <2>4, <2>5 DEF FrameFits
    <3>4. (MayJump(a) => MayJump(todo[1])) /\ ~MayJump(b)
      <4>1. c = todo[1].cond
        BY <1>1 DEF c
      <4> QED BY <1>1, <1>5, <2>4, <4>1 DEF MayJump
    <3> QED BY <3>1, <3>2, <3>3, <3>4
  <2>10. <<a, b>> \in Seq(Frames) /\ BlockMove(todo[1], <<a, b>>, fn, fn')
    BY <2>4, <2>7, <2>8, <2>9, MoveTwo
  <2>11. /\ ~Quiet(todo[1]) /\ ~EndsLoop(todo[1]) /\ <<a, b>>[1].op # "branch"
         /\ \A i \in DOMAIN <<a, b>> : ~EndsLoop(<<a, b>>[i]) /\ <<a, b>>[i].op # "endScope"
    <3>1. \A i \in DOMAIN <<a, b>> : <<a, b>>[i] \in {a, b}
      OBVIOUS
    <3> QED BY <1>1, <2>4, <3>1 DEF Quiet, EndsLoop
  <2> QED BY <1>1, <2>1, <2>3, <2>10, <2>11, JoinKeeps
<1>6. CASE /\ c.false = NoBlock /\ fn' = f /\ Then(<<[op |-> "complete", cond |-> c]>>)
           /\ SameCleanups /\ SameDests /\ Fine
  <2>1. UNCHANGED <<prog, cleanups, breakDests, continueDests>>
    BY <1>6 DEF SameCleanups, SameDests, Fine
  <2>2. Owned(todo[1]) = {c.cont}
    BY <1>2, <1>6
  <2> HIDE DEF c
  <2> QED BY <1>1, <1>2, <1>4, <1>6, <2>1, <2>2, ToComplete
<1>7. CASE Abort("continuation block used")
  BY <1>7, AbortKeeps, ZenonT(60)
<1> QED BY <1>5, <1>6, <1>7 DEF IfTrueExit, Require, f

\* The false arm is joined too, by a jump or by taking back the one jump there is.
LEMMA IfFalseExitKeeps ==
    ASSUME GenInv, IfFalseExit
    PROVE  GenInv'
<1> DEFINE c == Frame.cond
           pred == Head(fn.preds[c.cont])
           zapped == [EraseTerminator(fn, pred) EXCEPT !.ip = pred]
           done == /\ Then(<<[op |-> "complete", cond |-> c]>>)
                   /\ SameCleanups /\ SameDests /\ Fine
<1>1. /\ todo # << >> /\ todo[1] = Head(todo) /\ todo[1] \in Frames
      /\ todo[1].op = "ifFalseExit" /\ Sound(fn) /\ Pending(fn) \subseteq Block
      /\ FrameFits(todo[1], fn) /\ Owned(todo[1]) \subseteq Pending(fn) /\ Frame = todo[1]
  BY GenInvParts, ZenonT(60) DEF IfFalseExit, Running, Frame
<1>2. /\ c \in CondRecs /\ c.cont # NoBlock /\ c.cont \in Block /\ OneJump(fn, c.cont)
      /\ Owned(todo[1]) = {c.cont}
  BY <1>1, FrameFields DEF FrameFits, Owned, CondRecs
<1>3. c.cont \in fn.linked
  BY <1>1, <1>2 DEF Pending
<1>4. ASSUME done, Sound(fn'), fn'.linked = fn.linked, fn'.emitted = fn.emitted,
             \A d \in Block \ {c.cont} : Keeps(fn, fn', d)
      PROVE  GenInv'
  <2>1. UNCHANGED <<prog, cleanups, breakDests, continueDests>>
    BY <1>4 DEF SameCleanups, SameDests, Fine
  <2> HIDE DEF c
  <2> QED BY <1>1, <1>2, <1>4, <2>1, ToComplete
<1>5. CASE PredEmpty(fn, c.cont) /\ UNCHANGED fn /\ done
  BY <1>1, <1>4, <1>5, SMTT(60) DEF Keeps
<1>6. CASE ~PredEmpty(fn, c.cont) /\ ~HasValidIP(fn) /\ fn' = zapped /\ done
  BY <1>1, <1>2, <1>4, <1>6, ZapSound, ZenonT(60)
<1>7. CASE HasValidIP(fn) /\ fn' = Jump(fn, c.cont) /\ done
  BY <1>1, <1>3, <1>4, <1>7, JumpSound
<1>8. CASE Abort("zapped branch keeps block alive")
  BY <1>8, AbortKeeps
<1> QED BY <1>5, <1>6, <1>7, <1>8, ZenonT(60) DEF IfFalseExit, Require

\* A frame that goes resolves the blocks it owns.
LEMMA MoveNone ==
    ASSUME NEW fr, NEW f, NEW g, f.emitted \subseteq g.emitted,
           \A c \in Pending(f) \ Owned(fr) : Keeps(f, g, c),
           Pending(g) = Pending(f) \ Owned(fr)
    PROVE  << >> \in Seq(Frames) /\ BlockMove(fr, << >>, f, g)
<1> DEFINE fs == << >>
<1>1. fs \in Seq(Frames) /\ fs = << >> /\ Len(fs) = 0 /\ DOMAIN fs = {} /\ Hands(fr, fs, f, g)
  BY HandsNone
<1> HIDE DEF fs
<1>2. \A i \in 2 .. Len(fs) : FALSE
  BY <1>1
<1> QED BY <1>1, <1>2 DEF BlockMove, fs

\* What a frame does with a block it owns, alone: the block goes or is emitted.
Resolves(f, g, b) ==
    /\ Sound(g) /\ f.emitted \subseteq g.emitted
    /\ \A c \in Block \ {b} : Keeps(f, g, c)
    /\ Pending(g) = Pending(f) \ {b}

\* emitOrDeleteBlock resolves its block either way.
LEMMA ErasedOrStarted ==
    ASSUME NEW f, Sound(f), NEW b \in Pending(f)
    PROVE  /\ PredEmpty(f, b) => Resolves(f, EraseBlock(f, b), b)
           /\ Resolves(f, Start(f, b), b)
           /\ Resolves(f, EmitOrDelete(f, b), b)
<1>1. b \in f.linked \ f.emitted /\ f.emitted \subseteq f.linked
  BY SoundFields DEF Pending
<1>2. ASSUME PredEmpty(f, b) PROVE Resolves(f, EraseBlock(f, b), b)
  BY <1>1, <1>2, EraseSound DEF Resolves, Pending
<1>3. Resolves(f, Start(f, b), b)
  BY <1>1, StartSound DEF Resolves, Pending
<1> QED BY <1>2, <1>3 DEF EmitOrDelete

\* The join block is emitted if anything jumps to it.
LEMMA CompleteKeeps ==
    ASSUME GenInv, Complete
    PROVE  GenInv'
<1> DEFINE cont == Frame.cond.cont
           done == Then(<< >>) /\ SameCleanups /\ SameDests /\ Fine
<1>1. /\ todo # << >> /\ todo[1] = Head(todo) /\ todo[1] \in Frames
      /\ todo[1].op = "complete" /\ Sound(fn) /\ Pending(fn) \subseteq Block
      /\ Owned(todo[1]) \subseteq Pending(fn) /\ Frame = todo[1]
  BY GenInvParts DEF Complete, Running, Frame
<1>2. Owned(todo[1]) = {cont} \ {NoBlock}
  BY <1>1 DEF Owned
<1>3. ASSUME done, Sound(fn'), fn.emitted \subseteq fn'.emitted,
             \A c \in Pending(fn) \ Owned(todo[1]) : Keeps(fn, fn', c),
             Pending(fn') = Pending(fn) \ Owned(todo[1])
      PROVE  GenInv'
  <2>1. todo' = << >> \o Tail(todo) /\ UNCHANGED <<prog, cleanups, breakDests, continueDests>>
    BY <1>3 DEF Then, SameCleanups, SameDests, Fine
  <2>2. << >> \in Seq(Frames) /\ BlockMove(todo[1], << >>, fn, fn')
    BY <1>3, MoveNone
  <2>3. /\ ~EndsLoop(todo[1]) /\ ~(<< >> # << >>) /\ DOMAIN << >> = {}
        /\ todo[1].op \notin {"bind", "endScope", "forInc", "endLoop", "visit"}
    BY <1>1 DEF EndsLoop
  <2> QED BY <1>1, <1>3, <2>1, <2>2, <2>3, JoinKeeps
<1>4. CASE cont = NoBlock /\ UNCHANGED fn /\ done
  BY <1>1, <1>2, <1>3, <1>4 DEF Keeps
<1>5. CASE cont # NoBlock /\ done /\ Resolves(fn, fn', cont)
  <2>1. Owned(todo[1]) = {cont}
    BY <1>2, <1>5
  <2> HIDE DEF cont
  <2> QED BY <1>1, <1>3, <1>5, <2>1 DEF Resolves
<1>6. ASSUME cont # NoBlock PROVE cont \in Pending(fn)
  BY <1>1, <1>2, <1>6
<1>7. CASE cont # NoBlock /\ PredEmpty(fn, cont) /\ fn' = EraseBlock(fn, cont) /\ done
  BY <1>1, <1>5, <1>6, <1>7, ErasedOrStarted
<1>8. CASE cont # NoBlock /\ fn' = Start(fn, cont) /\ done
  BY <1>1, <1>5, <1>6, <1>8, ErasedOrStarted
<1>9. ASSUME NEW what, Abort(what) PROVE GenInv'
  BY <1>9, AbortKeeps
<1> QED BY <1>4, <1>7, <1>8, <1>9 DEF Complete, Require

-----------------------------------------------------------------------------
\* Nothing but a continue of the loop that ends depends on its end.
LEMMA ContinuePopped ==
    ASSUME NEW t, NEW u, Replaces(t, << >>, u), LoopsFit(t), t[1].op = "endLoop",
           NEW f, NEW g, f.emitted \subseteq g.emitted,
           NEW end, end # t[1].end, NEW dest, ContinueFits(t, f, end, dest)
    PROVE  ContinueFits(u, g, end, dest)
<1> DEFINE fs == << >>
<1>1. Replaces(t, fs, u) /\ Len(fs) = 0
  OBVIOUS
<1> HIDE DEF fs
<1>2. /\ Len(t) \in Nat \ {0} /\ DOMAIN t = 1 .. Len(t) /\ DOMAIN u = 1 .. Len(u)
      /\ Len(u) = Len(t) - 1
      /\ \A i \in DOMAIN t : i # 1 => i - 1 \in DOMAIN u /\ u[i - 1] = t[i]
  <2>1. \A i \in DOMAIN t : i # 1 => i + 0 - 1 \in DOMAIN u /\ u[i + 0 - 1] = t[i]
    BY <1>1, ReplacedAt
  <2>2. /\ Len(t) \in Nat \ {0} /\ DOMAIN t = 1 .. Len(t) /\ DOMAIN u = 1 .. Len(u)
        /\ Len(u) = 0 + Len(t) - 1
    BY <1>1, ReplacedAt
  <2> QED BY <2>1, <2>2
<1>3. CASE dest \in f.emitted
  BY <1>3 DEF ContinueFits
<1>4. ASSUME NEW i \in DOMAIN t, t[i].op = "forInc", t[i].inc = dest, t[i + 3].end = end
      PROVE  ContinueFits(u, g, end, dest)
  <2>1. i # 1 /\ i + 3 \in DOMAIN t /\ i + 3 # 1
    BY <1>2, <1>4 DEF LoopsFit
  <2>2. i - 1 \in DOMAIN u /\ u[i - 1] = t[i] /\ u[(i + 3) - 1] = t[i + 3]
    BY <1>2, <2>1
  <2>3. (i + 3) - 1 = (i - 1) + 3
    BY <1>2
  <2> QED BY <1>4, <2>2, <2>3 DEF ContinueFits
<1>5. ASSUME NEW e \in DOMAIN t, t[e].op = "endLoop", t[e].end = end,
             \A i \in 1 .. e - 1 : Quiet(t[i])
      PROVE  FALSE
  <2>1. e # 1
    BY <1>5
  <2>2. 1 \in 1 .. e - 1
    BY <1>2, <2>1
  <2>3. ~Quiet(t[1])
    BY DEF Quiet
  <2> QED BY <1>5, <2>2, <2>3
<1> QED BY <1>3, <1>4, <1>5 DEF ContinueFits

\* The end of a loop pops its destinations.
LEMMA EndLoopKeeps ==
    ASSUME GenInv, EndLoop
    PROVE  GenInv'
<1> DEFINE end == Frame.end
           u == << >> \o Tail(todo)
           bd == breakDests
           cd == continueDests
           m == Len(bd) - 1
<1>1. /\ todo # << >> /\ todo[1] = Head(todo) /\ todo[1] \in Frames /\ todo \in Seq(Frames)
      /\ todo[1].op = "endLoop" /\ Sound(fn) /\ Pending(fn) \subseteq Block
      /\ Owned(todo[1]) \subseteq Pending(fn) /\ Frame = todo[1]
  BY GenInvParts DEF EndLoop, Running, Frame
<1>2. Owned(todo[1]) = {end} /\ end \in Pending(fn) /\ EndsLoop(todo[1]) /\ EndOf(todo[1]) = end
  BY <1>1 DEF Owned, EndsLoop, EndOf
<1>3. /\ todo' = u /\ UNCHANGED <<prog, cleanups>>
      /\ breakDests' = SubSeq(bd, 1, Len(bd) - 1) /\ continueDests' = SubSeq(cd, 1, Len(cd) - 1)
  BY DEF EndLoop, Then, SameCleanups, Fine
<1>4. Resolves(fn, fn', end)
  BY <1>1, <1>2, ErasedOrStarted DEF EndLoop
<1> HIDE DEF end
<1>5. << >> \in Seq(Frames) /\ BlockMove(todo[1], << >>, fn, fn')
  BY <1>1, <1>2, <1>4, MoveNone DEF Resolves
<1>6. Replaces(todo, << >>, u)
  BY <1>1, <1>5, PushReplaces
<1> HIDE DEF u
<1>7. /\ StackFits(todo, fn) /\ Ownership(todo, fn) /\ LoopsFit(todo)
      /\ bd \in Seq(Dests) /\ cd \in Seq(Dests) /\ Len(bd) = Len(cd) /\ DestsMatch(todo, bd)
      /\ ContinuesFit(todo, fn, bd, cd)
  BY DEF GenInv, StackFits, DestsFit
<1>8. /\ 1 \in DOMAIN todo /\ DOMAIN todo \subseteq Nat \ {0}
  BY <1>1
<1>9. bd # << >> /\ \A j \in 1 .. Len(bd) - 1 : bd[j].block # end
  BY <1>2, <1>7, <1>8, InnermostEnds
<1>10. /\ m \in Nat /\ SubSeq(bd, 1, m) \in Seq(Dests) /\ SubSeq(cd, 1, m) \in Seq(Dests)
       /\ Len(SubSeq(bd, 1, m)) = m /\ Len(SubSeq(cd, 1, m)) = m
       /\ \A j \in 1 .. m : /\ j \in DOMAIN bd /\ SubSeq(bd, 1, m)[j] = bd[j]
                            /\ SubSeq(cd, 1, m)[j] = cd[j]
  BY <1>7, <1>9
<1>11. DestsMatch(u, SubSeq(bd, 1, m))
  BY <1>1, <1>6, <1>7, DestsPopped
<1>12. ASSUME NEW j \in 1 .. m PROVE ContinueFits(u, fn', bd[j].block, cd[j].block)
  <2>1. ContinueFits(todo, fn, bd[j].block, cd[j].block)
    BY <1>7, <1>10 DEF ContinuesFit
  <2>2. bd[j].block # todo[1].end /\ fn.emitted \subseteq fn'.emitted
    BY <1>1, <1>4, <1>9 DEF end, Resolves
  <2> QED BY <1>1, <1>6, <1>7, <2>1, <2>2, ContinuePopped
<1> DEFINE bd2 == SubSeq(bd, 1, m)
           cd2 == SubSeq(cd, 1, m)
<1>13. bd2 = breakDests' /\ cd2 = continueDests'
  BY <1>3, <1>7
<1> HIDE DEF bd2, cd2
<1>14. DestsFit(u, fn', bd2, cd2)
  <2>1. /\ bd2 \in Seq(Dests) /\ cd2 \in Seq(Dests) /\ Len(bd2) = m /\ Len(cd2) = m
        /\ \A j \in 1 .. m : bd2[j] = bd[j] /\ cd2[j] = cd[j]
    BY <1>10 DEF bd2, cd2
  <2>2. DestsMatch(u, bd2)
    BY <1>11 DEF bd2
  <2> HIDE DEF m
  <2>3. DOMAIN bd2 = 1 .. m
    BY <2>1
  <2>4. ContinuesFit(u, fn', bd2, cd2)
    BY <1>12, <2>1, <2>3 DEF ContinuesFit
  <2> QED BY <2>1, <2>2, <2>4 DEF DestsFit
<1>15. DestsFit(u, fn', breakDests', continueDests')
  BY <1>13, <1>14
<1>16. Sound(fn') /\ ~(<< >> # << >>) /\ DOMAIN << >> = {} /\ todo[1].op \notin {"bind", "endScope", "visit"}
  BY <1>1, <1>4 DEF Resolves
<1> QED BY <1>1, <1>3, <1>5, <1>15, <1>16, BlockKeeps DEF u

\* After the increment, a continue of this loop is dead code: what is left of
\* its body jumps nowhere.
LEMMA ContinueResolved ==
    ASSUME NEW t, NEW fs, NEW u, Replaces(t, fs, u), LoopsFit(t), t[1].op = "forInc",
           \A i \in DOMAIN fs : Quiet(fs[i]),
           NEW f, NEW g, f.emitted \subseteq g.emitted,
           NEW end, NEW dest, ContinueFits(t, f, end, dest)
    PROVE  ContinueFits(u, g, end, dest)
<1> DEFINE m == Len(fs)
<1>1. /\ m \in Nat /\ Len(t) \in Nat \ {0} /\ DOMAIN t = 1 .. Len(t)
      /\ DOMAIN u = 1 .. Len(u) /\ DOMAIN fs = 1 .. m
      /\ \A i \in 1 .. m : i \in DOMAIN u /\ u[i] = fs[i]
      /\ \A i \in DOMAIN t : i # 1 => i + m - 1 \in DOMAIN u /\ u[i + m - 1] = t[i]
  BY ReplacedAt
<1> HIDE DEF m
<1>2. CASE dest \in f.emitted
  BY <1>2 DEF ContinueFits
<1>3. ASSUME NEW i \in DOMAIN t, i # 1, t[i].op = "forInc", t[i].inc = dest, t[i + 3].end = end
      PROVE  ContinueFits(u, g, end, dest)
  <2>1. i + 3 <= Len(t)
    BY <1>3 DEF LoopsFit
  <2>2. i + 3 \in DOMAIN t /\ i + 3 # 1 /\ (i + 3) + m - 1 = (i + m - 1) + 3
    BY <1>1, <1>3, <2>1
  <2>3. u[(i + 3) + m - 1] = t[i + 3] /\ i + m - 1 \in DOMAIN u /\ u[i + m - 1] = t[i]
    BY <1>1, <1>3, <2>2
  <2>4. u[(i + m - 1) + 3] = t[i + 3]
    BY <2>2, <2>3
  <2> QED BY <1>3, <2>3, <2>4 DEF ContinueFits
<1>4. CASE t[4].end = end
  <2>1. 1 \in DOMAIN t
    BY <1>1
  <2>2. 4 <= Len(t) /\ t[2].op = "loopBack"
    <3>1. 1 + 3 <= Len(t) /\ t[1 + 1].op = "loopBack"
      BY <2>1 DEF LoopsFit
    <3> QED BY <3>1
  <2>3. 2 \in DOMAIN t /\ 3 \in DOMAIN t /\ 4 \in DOMAIN t
    BY <1>1, <2>2
  <2>4. t[3].op = "complete" /\ t[4].op = "endLoop"
    <3>1. t[2 + 1].op = "complete" /\ t[2 + 2].op = "endLoop"
      BY <2>2, <2>3 DEF LoopsFit
    <3> QED BY <3>1
  <2>5. /\ 2 + m - 1 = m + 1 /\ 3 + m - 1 = m + 2 /\ 4 + m - 1 = m + 3
    BY <1>1
  <2>6. /\ m + 3 \in DOMAIN u /\ u[m + 3] = t[4] /\ u[m + 1] = t[2] /\ u[m + 2] = t[3]
    <3>1. 4 + m - 1 \in DOMAIN u /\ u[4 + m - 1] = t[4] /\ u[2 + m - 1] = t[2] /\ u[3 + m - 1] = t[3]
      BY <1>1, <2>3
    <3> QED BY <2>5, <3>1
  <2>7. ASSUME NEW i \in 1 .. (m + 3) - 1 PROVE Quiet(u[i])
    <3>1. i \in 1 .. m \/ i = m + 1 \/ i = m + 2
      BY <1>1
    <3>2. CASE i \in 1 .. m
      BY <1>1, <3>2
    <3>3. CASE i = m + 1
      BY <2>2, <2>6, <3>3 DEF Quiet
    <3>4. CASE i = m + 2
      BY <2>4, <2>6, <3>4 DEF Quiet
    <3> QED BY <3>1, <3>2, <3>3, <3>4
  <2> QED BY <1>4, <2>4, <2>6, <2>7 DEF ContinueFits
<1>5. ASSUME NEW e \in DOMAIN t, t[e].op = "endLoop", \A i \in 1 .. e - 1 : Quiet(t[i])
      PROVE  FALSE
  <2>1. e # 1
    BY <1>5
  <2>2. 1 \in 1 .. e - 1
    BY <1>1, <2>1
  <2>3. ~Quiet(t[1])
    BY DEF Quiet
  <2> QED BY <1>5, <2>2, <2>3
<1>6. 1 + 3 = 4
  OBVIOUS
<1>7. CASE \E i \in DOMAIN t : t[i].op = "forInc" /\ t[i].inc = dest /\ t[i + 3].end = end
  <2>1. PICK i \in DOMAIN t : t[i].op = "forInc" /\ t[i].inc = dest /\ t[i + 3].end = end
    BY <1>7
  <2>2. CASE i = 1
    BY <1>4, <1>6, <2>1, <2>2
  <2> QED BY <1>3, <2>1, <2>2
<1> QED BY <1>2, <1>5, <1>7 DEF ContinueFits

\* The increment of a for, if anything reaches it.
LEMMA ForIncKeeps ==
    ASSUME GenInv, ForInc
    PROVE  GenInv'
<1> DEFINE inc == Frame.inc
           fs == IF HasValidIP(fn') THEN Maybe(Frame.call) ELSE << >>
           u == fs \o Tail(todo)
<1>1. /\ todo # << >> /\ todo[1] = Head(todo) /\ todo[1] \in Frames /\ todo \in Seq(Frames)
      /\ todo[1].op = "forInc" /\ Sound(fn) /\ Pending(fn) \subseteq Block
      /\ Owned(todo[1]) \subseteq Pending(fn) /\ Frame = todo[1]
  BY GenInvParts DEF ForInc, Running, Frame
<1>2. /\ Owned(todo[1]) = {inc} /\ inc \in Pending(fn) /\ ~EndsLoop(todo[1])
      /\ Frame.call \in Callable
  BY <1>1, FrameFields DEF Owned, EndsLoop
<1>3. todo' = u /\ UNCHANGED <<prog, cleanups, breakDests, continueDests>>
  BY DEF ForInc, Then, SameCleanups, SameDests, Fine
<1>4. Resolves(fn, fn', inc)
  BY <1>1, <1>2, ErasedOrStarted DEF ForInc
<1> HIDE DEF inc
<1>5. /\ fs \in Seq(Frames) /\ Len(fs) \in {0, 1} /\ (fs # << >> => HasValidIP(fn'))
      /\ \A i \in DOMAIN fs : /\ i = 1 /\ fs[i].op = "visit" /\ fs[i].stmt \in FreeStmt
                              /\ Quiet(fs[i])
  <2>1. CASE HasValidIP(fn')
    <3>1. fs = Maybe(Frame.call)
      BY <2>1
    <3> HIDE DEF fs
    <3> QED BY <1>2, <2>1, <3>1, MaybeFrames
  <2>2. CASE ~HasValidIP(fn')
    <3>1. fs = << >> /\ fs \in Seq(Frames) /\ Len(fs) = 0 /\ DOMAIN fs = {}
      BY <2>2
    <3> HIDE DEF fs
    <3> QED BY <3>1
  <2> QED BY <2>1, <2>2
<1> HIDE DEF fs
<1>6. \A i \in DOMAIN fs : /\ FrameFits(fs[i], fn') /\ ~MayJump(fs[i]) /\ ~EndsLoop(fs[i])
                           /\ fs[i].op = "visit" /\ Owned(fs[i]) = {}
  BY <1>5 DEF FrameFits, MayJump, EndsLoop, Owned
<1>7. BlockMove(todo[1], fs, fn, fn')
  <2>1. 1 .. Len(fs) = DOMAIN fs /\ (\A i \in 2 .. Len(fs) : FALSE)
    BY <1>5
  <2>2. Hands(todo[1], fs, fn, fn')
    BY <1>2, <1>4, <1>6, <2>1 DEF Hands, Resolves
  <2>3. \A c \in Pending(fn) \ Owned(todo[1]) : Keeps(fn, fn', c)
    BY <1>1, <1>2, <1>4 DEF Resolves
  <2> QED BY <1>4, <1>5, <1>6, <2>1, <2>2, <2>3 DEF BlockMove, Resolves
<1>8. Replaces(todo, fs, u)
  BY <1>1, <1>5, PushReplaces
<1> HIDE DEF u
<1>9. /\ LoopsFit(todo) /\ breakDests \in Seq(Dests) /\ continueDests \in Seq(Dests)
      /\ Len(breakDests) = Len(continueDests) /\ DestsMatch(todo, breakDests)
      /\ ContinuesFit(todo, fn, breakDests, continueDests)
  BY DEF GenInv, StackFits, DestsFit
<1>10. DestsMatch(u, breakDests)
  BY <1>2, <1>6, <1>8, <1>9, DestsReplaced
<1>11. ContinuesFit(u, fn', breakDests, continueDests)
  BY <1>1, <1>4, <1>5, <1>8, <1>9, ContinueResolved DEF ContinuesFit, Resolves
<1>12. DestsFit(u, fn', breakDests', continueDests')
  BY <1>3, <1>9, <1>10, <1>11 DEF DestsFit
<1>13. /\ Sound(fn') /\ todo[1].op \notin {"bind", "endScope", "visit"}
       /\ fs # << >> => fs[1].op # "branch"
       /\ \A i \in DOMAIN fs : fs[i].op # "endScope"
  BY <1>1, <1>4, <1>5, <1>6 DEF Resolves
<1> QED BY <1>1, <1>3, <1>5, <1>7, <1>12, <1>13, BlockKeeps DEF u

-----------------------------------------------------------------------------
\* New blocks go to the frames that will emit them.
LEMMA HandsNew ==
    ASSUME NEW fr, NEW fs, NEW f, NEW g, NEW new, new \cap Pending(f) = {},
           Pending(g) = (Pending(f) \ Owned(fr)) \cup Owned(fr) \cup new,
           Owned(fr) \subseteq Pending(f),
           \A i \in 1 .. Len(fs) : Owned(fs[i]) \subseteq new \cup Owned(fr),
           \A i, j \in 1 .. Len(fs) : i # j => Owned(fs[i]) \cap Owned(fs[j]) = {},
           \A b \in new \cup Owned(fr) : \E i \in 1 .. Len(fs) : b \in Owned(fs[i])
    PROVE  Hands(fr, fs, f, g)
BY DEF Hands

\* The head of a loop and its condition, as while, for and for-each emit them.
LEMMA HeadCondition ==
    ASSUME Sound(fn), NEW n \in {1, 2}, NEW cond \in Name, NEW invert \in BOOLEAN,
           fn.n + n + 3 <= MaxBlock
    PROVE  LET head == LoopHead(n)
               loop == fn.n + 1
               c == CondBlocks(head, FALSE)
               g == EnterTrue(EmitCondition(head, cond, FALSE, invert), c)
           IN  /\ Sound(g) /\ HasValidIP(g) /\ c \in CondRecs /\ c.false = NoBlock
               /\ c.cont \in Block /\ c.cont # NoBlock
               /\ c.cont \notin fn.linked \cup loop .. loop + n
               /\ loop .. loop + n \subseteq Block \ fn.linked /\ loop \in g.emitted
               /\ fn.emitted \subseteq g.emitted
               /\ Pending(g) = Pending(fn) \cup loop + 1 .. loop + n \cup {c.cont}
               /\ \A d \in fn.linked : Keeps(fn, g, d)
<1> DEFINE head == LoopHead(n)
           loop == fn.n + 1
           c == CondBlocks(head, FALSE)
           g == EnterTrue(EmitCondition(head, cond, FALSE, invert), c)
<1>1. fn.n \in Nat /\ n \in Nat /\ fn.n + n + 1 <= MaxBlock /\ MaxBlock \in Nat
      /\ fn.linked \subseteq 1 .. fn.n
  BY SoundFields, MaxBlockAssumption DEF Sound
<1>2. /\ Sound(head) /\ head.n = fn.n + n + 1 /\ head.ip = loop
      /\ head.linked = fn.linked \cup loop .. loop + n
      /\ head.emitted = fn.emitted \cup {loop}
      /\ loop .. loop + n \subseteq Block \ fn.linked
      /\ \A d \in fn.linked : Keeps(fn, head, d)
  BY <1>1, LoopHeadSound
<1> HIDE DEF head
<1>3. HasValidIP(head)
  BY <1>1, <1>2 DEF HasValidIP, NoBlock
<1>4. head.n + 2 <= MaxBlock
  BY <1>1, <1>2
<1>5. /\ Sound(g) /\ c \in CondRecs /\ c.false = NoBlock
      /\ c.true \in Block \ head.linked /\ c.cont \in Block \ head.linked
      /\ c.true # c.cont /\ c.true # NoBlock /\ c.cont # NoBlock
      /\ g.linked = head.linked \cup {c.true, c.cont}
      /\ g.emitted = head.emitted \cup {c.true} /\ g.ip = c.true
      /\ \A d \in head.linked : Keeps(head, g, d)
  BY <1>2, <1>3, <1>4, LoopConditionSound, ZenonT(60)
<1> DEFINE x == c.true
           y == c.cont
<1>6. x # y /\ x # NoBlock /\ y # NoBlock
  BY <1>5
<1>7. g.linked = head.linked \cup {x, y} /\ {x, y} \subseteq Block \ head.linked /\ g.emitted = head.emitted \cup {x}
      /\ g.ip = x /\ \A d \in head.linked : Keeps(head, g, d)
  BY <1>5, <1>6
<1> HIDE DEF c, g, x
<1>8. \A d \in fn.linked : Keeps(fn, g, d)
  BY <1>2, <1>7, KeepsOn
<1>9. loop \in loop .. loop + n /\ loop + 1 .. loop + n = (loop .. loop + n) \ {loop}
  BY <1>1
<1> HIDE DEF loop, y
<1>10. fn.emitted \subseteq fn.linked
  BY DEF Sound
<1> DEFINE r == loop .. loop + n
           s == loop + 1 .. loop + n
<1>11. /\ head.linked = fn.linked \cup r /\ r \subseteq Block \ fn.linked /\ loop \in r /\ s = r \ {loop}
  BY <1>2, <1>9
<1> HIDE DEF r, s
<1>12. head.emitted = fn.emitted \cup {loop}
  BY <1>2
<1>13. Pending(g) = Pending(fn) \cup s \cup {y}
  BY <1>6, <1>7, <1>10, <1>11, <1>12 DEF Pending
<1>14. HasValidIP(g)
  BY <1>6, <1>7 DEF HasValidIP
<1>15. y \in Block /\ y \notin fn.linked \cup r /\ loop \in g.emitted /\ fn.emitted \subseteq g.emitted
  BY <1>7, <1>11, <1>12
<1> QED BY <1>5, <1>6, <1>8, <1>11, <1>13, <1>14, <1>15 DEF c, g, y, r, s, loop, head

\* The condition of a do-while, whose end the frame hands on.
LEMMA DoConditionKeeps ==
    ASSUME GenInv, DoCondition
    PROVE  GenInv'
<1> DEFINE c == CondBlocks(fn, FALSE)
           enter == EnterTrue(EmitCondition(fn, Frame.cond, FALSE, FALSE), c)
           end == Frame.loop + 1
           a == [op |-> "complete", cond |-> c]
           b == [op |-> "endLoop", end |-> end]
<1>1. /\ todo # << >> /\ todo[1] = Head(todo) /\ todo[1] \in Frames
      /\ todo[1].op = "doCondition" /\ Sound(fn) /\ Pending(fn) \subseteq Block
      /\ FrameFits(todo[1], fn) /\ Owned(todo[1]) \subseteq Pending(fn) /\ Frame = todo[1]
  BY GenInvParts DEF DoCondition, Running, Frame
<1>2. /\ Owned(todo[1]) = {end} /\ end \in Pending(fn) /\ end \in Block
      /\ Frame.cond \in Name /\ Frame.loop \in fn.emitted /\ Frame.loop \in fn.linked
      /\ EndsLoop(todo[1]) /\ EndOf(todo[1]) = end /\ ~Quiet(todo[1])
  BY <1>1, FrameFields DEF Owned, FrameFits, EndsLoop, EndOf, Sound, Quiet
<1>3. UNCHANGED <<prog, cleanups, breakDests, continueDests>>
  BY DEF DoCondition, SameCleanups, SameDests, Fine
<1>4. b \in Frames /\ b.op = "endLoop" /\ b.end = end
  <2> HIDE DEF end
  <2> QED BY <1>2, FrameForms
<1>5. /\ Owned(b) = {end} /\ EndsLoop(b) /\ EndOf(b) = end /\ ~NeedsIP(b) /\ ~MayJump(b)
      /\ \A g : FrameFits(b, g)
  BY <1>4 DEF Owned, EndsLoop, EndOf, NeedsIP, MayJump, FrameFits
<1>6. CASE ~HasValidIP(fn) /\ UNCHANGED fn /\ Then(<<b>>)
  <2>1. todo' = <<b>> \o Tail(todo) /\ Sound(fn')
    BY <1>1, <1>6 DEF Then
  <2> HIDE DEF b, end
  <2>2. /\ fn.emitted \subseteq fn'.emitted
        /\ \A d \in Pending(fn) \ Owned(todo[1]) : Keeps(fn, fn', d)
        /\ Owned(b) \cap Pending(fn) \subseteq Owned(todo[1])
        /\ Pending(fn') = (Pending(fn) \ Owned(todo[1])) \cup Owned(b)
    BY <1>2, <1>5, <1>6 DEF Keeps
  <2>3. b.op \notin {"loopBack", "forInc"}
    BY <1>4
  <2>4. <<b>> \in Seq(Frames) /\ BlockMove(todo[1], <<b>>, fn, fn')
    BY <1>4, <1>5, <2>2, <2>3, MoveOne
  <2>5. /\ \A i \in DOMAIN <<b>> : <<b>>[i] = b
        /\ <<b>>[1] = b /\ 1 \in DOMAIN <<b>>
    OBVIOUS
  <2>6. /\ <<b>> # << >> => <<b>>[1].op # "branch"
        /\ \A i \in DOMAIN <<b>> : /\ <<b>>[i].op # "endScope"
                                   /\ EndsLoop(<<b>>[i]) => EndsLoop(todo[1])
                                                            /\ EndOf(<<b>>[i]) = EndOf(todo[1])
        /\ \E i \in DOMAIN <<b>> : EndsLoop(<<b>>[i])
        /\ todo[1].op \notin {"bind", "endScope", "forInc", "endLoop", "visit"}
    BY <1>1, <1>2, <1>4, <1>5, <2>5
  <2> QED BY <1>1, <1>2, <1>3, <2>1, <2>4, <2>6, JoinKeeps
<1>7. CASE /\ HasValidIP(fn) /\ fn.n + 2 <= MaxBlock
           /\ fn' = ExitTrue(Jump(enter, Frame.loop), c) /\ Then(<<a, b>>)
  <2> DEFINE fs == <<a, b>>
  <2>1. todo' = fs \o Tail(todo)
    BY <1>7 DEF Then
  <2>2. /\ Sound(enter) /\ c \in CondRecs
        /\ c.true \in Block \ fn.linked /\ c.cont \in Block \ fn.linked
        /\ c.true # c.cont /\ c.true # NoBlock /\ c.cont # NoBlock
        /\ enter.linked = fn.linked \cup {c.true, c.cont}
        /\ enter.emitted = fn.emitted \cup {c.true} /\ enter.ip = c.true
        /\ \A d \in fn.linked : Keeps(fn, enter, d)
    <3>1. FALSE \in BOOLEAN
      OBVIOUS
    <3> QED BY <1>1, <1>2, <1>7, <3>1, LoopConditionSound
  <2> DEFINE x == c.true
             y == c.cont
             g == Jump(enter, Frame.loop)
  <2>3. x # y /\ x # NoBlock /\ y # NoBlock /\ NoBlock \notin Block
    <3>1. NoBlock \notin Block
      BY MaxBlockAssumption DEF NoBlock, Block
    <3> QED BY <2>2, <3>1
  <2>4. /\ enter.linked = fn.linked \cup {x, y} /\ {x, y} \subseteq Block \ fn.linked
        /\ enter.emitted = fn.emitted \cup {x} /\ HasValidIP(enter)
    BY <2>2, <2>3 DEF HasValidIP
  <2>5. a \in Frames /\ a.op = "complete" /\ a.cond = c
    <3> HIDE DEF c
    <3> QED BY <2>2, FrameForms
  <2> HIDE DEF c, enter, a, b, end
  <2>6. /\ Sound(g) /\ g.linked = enter.linked /\ g.emitted = enter.emitted /\ g.ip = NoBlock
        /\ \A d \in Block \ {Frame.loop} : Keeps(enter, g, d)
    BY <1>2, <2>2, <2>4, JumpSound
  <2> HIDE DEF g
  <2>7. fn' = g
    <3>1. fn' = ExitTrue(g, c)
      BY <1>7 DEF g
    <3> QED BY <2>6, <3>1 DEF ExitTrue, HasValidIP
  <2>8. Owned(a) = {y} /\ y \in Block /\ ~EndsLoop(a) /\ ~NeedsIP(a) /\ ~MayJump(a) /\ FrameFits(a, g)
    BY <2>3, <2>4, <2>5 DEF Owned, EndsLoop, NeedsIP, MayJump, FrameFits
  <2> HIDE DEF x, y
  <2>9. /\ Pending(g) = Pending(fn) \cup {y} /\ y \notin Pending(fn)
        /\ fn.emitted \subseteq fn.linked
    BY <1>1, <2>3, <2>4, <2>6 DEF Pending, Sound
  <2>10. \A d \in Pending(fn) : Keeps(fn, g, d)
    <3>1. \A d \in Pending(fn) : d \in fn.linked /\ d \in Block \ {Frame.loop}
      BY <1>1, <1>2 DEF Pending
    <3> QED BY <2>2, <2>6, <3>1, KeepsOn
  <2>11. fs \in Seq(Frames) /\ Len(fs) = 2 /\ fs[1] = a /\ fs[2] = b /\ fs # << >>
    BY <1>4, <2>5
  <2> HIDE DEF fs
  <2>12. \A i \in 1 .. Len(fs) : i = 1 \/ i = 2
    BY <2>11
  <2>13. DOMAIN fs = 1 .. Len(fs) /\ 1 \in 1 .. Len(fs) /\ 2 \in 1 .. Len(fs)
    BY <2>11
  <2>14. y # end /\ end \in Pending(fn)
    BY <1>2, <2>9
  <2>15. Hands(todo[1], fs, fn, g)
    <3>1. \A i, j \in 1 .. Len(fs) : i # j => Owned(fs[i]) \cap Owned(fs[j]) = {}
      BY <1>5, <2>8, <2>11, <2>12, <2>14
    <3>2. \A i \in 1 .. Len(fs) : Owned(fs[i]) \subseteq {y} \cup Owned(todo[1])
      BY <1>2, <1>5, <2>8, <2>11, <2>12
    <3>3. \A d \in {y} \cup Owned(todo[1]) : \E i \in 1 .. Len(fs) : d \in Owned(fs[i])
      BY <1>2, <1>5, <2>8, <2>11, <2>13
    <3>4. /\ {y} \cap Pending(fn) = {} /\ Owned(todo[1]) \subseteq Pending(fn)
          /\ Pending(g) = (Pending(fn) \ Owned(todo[1])) \cup Owned(todo[1]) \cup {y}
      BY <1>1, <2>9
    <3> DEFINE new == {y}
    <3> HIDE DEF new
    <3>5. /\ new \cap Pending(fn) = {} /\ Owned(todo[1]) \subseteq Pending(fn)
          /\ Pending(g) = (Pending(fn) \ Owned(todo[1])) \cup Owned(todo[1]) \cup new
          /\ \A i \in 1 .. Len(fs) : Owned(fs[i]) \subseteq new \cup Owned(todo[1])
          /\ \A d \in new \cup Owned(todo[1]) : \E i \in 1 .. Len(fs) : d \in Owned(fs[i])
      BY <3>2, <3>3, <3>4 DEF new
    <3> QED BY <3>1, <3>5, HandsNew
  <2>16. \A i \in DOMAIN fs :
            /\ fs[i] \in {a, b} /\ FrameFits(fs[i], g) /\ ~MayJump(fs[i]) /\ ~NeedsIP(fs[i])
            /\ fs[i].op \in {"complete", "endLoop"}
            /\ EndsLoop(fs[i]) => EndOf(fs[i]) = end
    BY <1>4, <1>5, <2>5, <2>8, <2>11, <2>12, <2>13
  <2>17. \A i \in 2 .. Len(fs) : i \in DOMAIN fs
    BY <2>11
  <2>18. fn.emitted \subseteq g.emitted
    BY <2>4, <2>6
  <2>19. BlockMove(todo[1], fs, fn, g)
    <3>1. \A i \in DOMAIN fs : fs[i].op # "loopBack" /\ fs[i].op # "forInc"
      BY <2>16
    <3>2. ~NeedsIP(fs[1])
      BY <2>13, <2>16
    <3> QED BY <2>10, <2>15, <2>16, <2>17, <2>18, <3>1, <3>2 DEF BlockMove
  <2>20. /\ fs[1].op # "branch" /\ \E i \in DOMAIN fs : EndsLoop(fs[i])
         /\ \A i \in DOMAIN fs : /\ fs[i].op # "endScope"
                                 /\ EndsLoop(fs[i]) => EndsLoop(todo[1]) /\ EndOf(fs[i]) = EndOf(todo[1])
    BY <1>2, <1>5, <2>11, <2>13, <2>16
  <2>21. todo[1].op \notin {"bind", "endScope", "forInc", "endLoop", "visit"} /\ Sound(fn')
    BY <1>1, <2>6, <2>7
  <2> QED BY <1>1, <1>2, <1>3, <2>1, <2>7, <2>11, <2>19, <2>20, <2>21, JoinKeeps
<1> QED BY <1>6, <1>7 DEF DoCondition, Finally

\* The common part of the steps that open a loop.
LEMMA OpenKeeps ==
    ASSUME GenInv, todo # << >>,
           \/ todo[1].op \in {"forHead", "forEachHead"}
           \/ todo[1].op = "visit" /\ todo[1].stmt.kind \in {"while", "dowhile"},
           NEW fs \in Seq(Frames), fs # << >> => fs[1].op # "branch",
           \A i \in DOMAIN fs : fs[i].op = "endScope" => fs[i].depth = Len(cleanups),
           todo' = fs \o Tail(todo), UNCHANGED <<prog, cleanups>>, Sound(fn'),
           BlockMove(todo[1], fs, fn, fn'),
           NEW end \in Block \ fn.linked, NEW dest \in Block, PushDests(end, dest),
           \A i \in DOMAIN fs : EndsLoop(fs[i]) => EndOf(fs[i]) = end,
           \E i \in DOMAIN fs : EndsLoop(fs[i]),
           \/ dest \in fn'.emitted
           \/ \E i \in DOMAIN fs : /\ fs[i].op = "forInc" /\ fs[i].inc = dest
                                   /\ i + 3 \in DOMAIN fs /\ fs[i + 3].end = end
    PROVE  GenInv'
<1> DEFINE b == [block |-> end, depth |-> Depth]
           c == [block |-> dest, depth |-> Depth]
<1>1. /\ b \in Dests /\ b.block = end /\ c \in Dests /\ c.block = dest
  BY GenInvParts DEF Dests
<1>2. breakDests' = Append(breakDests, b) /\ continueDests' = Append(continueDests, c)
  BY DEF PushDests
<1> HIDE DEF b, c
<1>3. /\ StackFits(todo, fn) /\ DestsFit(todo, fn, breakDests, continueDests)
      /\ fn.emitted \subseteq fn'.emitted
  BY DEF GenInv, BlockMove
<1>4. ~EndsLoop(todo[1]) /\ todo[1].op # "forInc" /\ ~Quiet(todo[1])
  BY DEF EndsLoop, Quiet
<1>5. DestsFit(fs \o Tail(todo), fn', Append(breakDests, b), Append(continueDests, c))
  BY <1>1, <1>3, <1>4, DestsOpened
<1>6. DestsFit(fs \o Tail(todo), fn', breakDests', continueDests')
  BY <1>2, <1>5
<1> QED BY <1>6, BlockKeeps

\* A while loop: the body, the jump back, the join and the end.
LEMMA VisitWhileKeeps ==
    ASSUME GenInv, VisitWhile
    PROVE  GenInv'
<1> DEFINE loop == fn.n + 1
           end == loop + 1
           c == CondBlocks(LoopHead(1), FALSE)
           b1 == Visit(Stmt.body)
           b2 == [op |-> "loopBack", loop |-> loop, cond |-> c]
           b3 == [op |-> "complete", cond |-> c]
           b4 == [op |-> "endLoop", end |-> end]
           fs == <<b1, b2>> \o <<b3, b4>>
           y == c.cont
<1>1. /\ todo # << >> /\ todo[1] = Head(todo) /\ todo[1] \in Frames
      /\ todo[1].op = "visit" /\ todo[1].stmt.kind = "while" /\ Sound(fn) /\ Owned(todo[1]) = {}
      /\ fn.n \in Nat
  BY GenInvParts, SoundFields, MaxBlockAssumption DEF VisitWhile, Visiting, Running, Owned
<1>2. Stmt \in LoopStmt /\ Stmt.body \in LoopStmt /\ Stmt.cond \in Name
  BY <1>1, FrameFields, StatementParts DEF Stmt
<1>3. /\ fn.n + 4 <= MaxBlock /\ UNCHANGED <<prog, cleanups>> /\ PushDests(end, loop)
      /\ fn' = EnterTrue(EmitCondition(LoopHead(1), Stmt.cond, FALSE, FALSE), c)
      /\ todo' = fs \o Tail(todo)
  BY DEF VisitWhile, NextBlock, Then, Finally, SameCleanups, Fine
<1>4. /\ Sound(fn') /\ HasValidIP(fn') /\ c \in CondRecs /\ c.false = NoBlock
      /\ y \in Block /\ y # NoBlock /\ y \notin fn.linked \cup loop .. loop + 1
      /\ loop .. loop + 1 \subseteq Block \ fn.linked /\ loop \in fn'.emitted
      /\ fn.emitted \subseteq fn'.emitted
      /\ Pending(fn') = Pending(fn) \cup loop + 1 .. loop + 1 \cup {y}
      /\ \A d \in fn.linked : Keeps(fn, fn', d)
  <2>1. FALSE \in BOOLEAN /\ 1 \in {1, 2} /\ fn.n + 1 + 3 <= MaxBlock
    BY <1>1, <1>3
  <2> HIDE DEF c
  <2> QED BY <1>1, <1>2, <1>3, <2>1, HeadCondition DEF c
<1>5. /\ loop \in Block /\ end \in Block \ fn.linked /\ loop + 1 .. loop + 1 = {end} /\ y # end
  <2>1. loop \in loop .. loop + 1 /\ end \in loop .. loop + 1 /\ loop + 1 .. loop + 1 = {end}
    BY <1>1
  <2> HIDE DEF loop, end, y
  <2> QED BY <1>4, <2>1
<1>6. /\ b1 \in Frames /\ b1.op = "visit" /\ b2 \in Frames /\ b2.op = "loopBack" /\ b2.loop = loop
      /\ b3 \in Frames /\ b3.op = "complete" /\ b3.cond = c
      /\ b4 \in Frames /\ b4.op = "endLoop" /\ b4.end = end
  <2> HIDE DEF c, loop, end
  <2> QED BY <1>2, <1>4, <1>5, FrameForms DEF Visit
<1> HIDE DEF b1, b2, b3, b4, loop, end, c
<1>7. /\ Owned(b1) = {} /\ Owned(b2) = {} /\ Owned(b3) = {y} /\ Owned(b4) = {end}
  BY <1>4, <1>6 DEF Owned
<1>8. /\ ~EndsLoop(b1) /\ ~EndsLoop(b2) /\ ~EndsLoop(b3) /\ EndsLoop(b4) /\ EndOf(b4) = end
      /\ ~MayJump(b2) /\ ~MayJump(b3) /\ ~MayJump(b4)
      /\ ~NeedsIP(b2) /\ ~NeedsIP(b3) /\ ~NeedsIP(b4)
  BY <1>6 DEF EndsLoop, EndOf, MayJump, NeedsIP
<1>9. /\ FrameFits(b1, fn') /\ FrameFits(b2, fn') /\ FrameFits(b3, fn') /\ FrameFits(b4, fn')
  BY <1>4, <1>6 DEF FrameFits
<1> HIDE DEF y
<1>10. /\ fs \in Seq(Frames) /\ Len(fs) = 4 /\ DOMAIN fs = 1 .. 4 /\ fs # << >>
       /\ fs[1] = b1 /\ fs[2] = b2 /\ fs[3] = b3 /\ fs[4] = b4
  <2> DEFINE p == <<b1, b2>>
             q == <<b3, b4>>
  <2>1. /\ p \in Seq(Frames) /\ Len(p) = 2 /\ p[1] = b1 /\ p[2] = b2
        /\ q \in Seq(Frames) /\ Len(q) = 2 /\ q[1] = b3 /\ q[2] = b4
    BY <1>6
  <2> HIDE DEF p, q
  <2>2. LET r == p \o q
        IN  /\ r \in Seq(Frames) /\ Len(r) = 4 /\ DOMAIN r = 1 .. 4 /\ r # << >>
            /\ r[1] = b1 /\ r[2] = b2 /\ r[3] = b3 /\ r[4] = b4
    <3> DEFINE r == p \o q
    <3>1. /\ r \in Seq(Frames) /\ Len(r) = Len(p) + Len(q) /\ DOMAIN r = 1 .. Len(r)
          /\ \A i \in 1 .. Len(p) : r[i] = p[i]
          /\ \A i \in 1 .. Len(q) : r[Len(p) + i] = q[i]
      BY <2>1, Concatenated, SMTT(30)
    <3> HIDE DEF r
    <3>2. r[1] = p[1] /\ r[2] = p[2] /\ r[3] = q[1] /\ r[4] = q[2]
      BY <2>1, <3>1
    <3> QED BY <2>1, <3>1, <3>2 DEF r
  <2> QED BY <2>2 DEF p, q
<1> HIDE DEF fs
<1>11. \A i \in DOMAIN fs : i = 1 \/ i = 2 \/ i = 3 \/ i = 4
  BY <1>10
<1>12. 4 \in DOMAIN fs /\ 3 \in DOMAIN fs
  BY <1>10
<1>13. Hands(todo[1], fs, fn, fn')
  <2> DEFINE new == {y, end}
  <2>1. Pending(fn') = Pending(fn) \cup new /\ new \cap Pending(fn) = {}
    BY <1>4, <1>5 DEF Pending
  <2>2. \A i \in DOMAIN fs : Owned(fs[i]) \subseteq new
    BY <1>7, <1>10, <1>11
  <2>3. \A i, j \in DOMAIN fs : i # j => Owned(fs[i]) \cap Owned(fs[j]) = {}
    BY <1>5, <1>7, <1>10, <1>11
  <2>4. \A d \in new : \E i \in DOMAIN fs : d \in Owned(fs[i])
    BY <1>7, <1>10, <1>12
  <2> HIDE DEF new
  <2>5. /\ Pending(fn') = (Pending(fn) \ Owned(todo[1])) \cup Owned(todo[1]) \cup new
        /\ Owned(todo[1]) \subseteq Pending(fn) /\ new \cup Owned(todo[1]) = new
        /\ 1 .. Len(fs) = DOMAIN fs
    BY <1>1, <1>10, <2>1
  <2>6. /\ \A i \in 1 .. Len(fs) : Owned(fs[i]) \subseteq new \cup Owned(todo[1])
        /\ \A i, j \in 1 .. Len(fs) : i # j => Owned(fs[i]) \cap Owned(fs[j]) = {}
        /\ \A d \in new \cup Owned(todo[1]) : \E i \in 1 .. Len(fs) : d \in Owned(fs[i])
    BY <2>2, <2>3, <2>4, <2>5
  <2> QED BY <2>1, <2>5, <2>6, HandsNew
<1>14. \A i \in DOMAIN fs :
          /\ FrameFits(fs[i], fn')
          /\ MayJump(fs[i]) => \E e \in DOMAIN fs : e > i /\ EndsLoop(fs[e])
          /\ fs[i].op = "loopBack" => /\ i + 2 <= Len(fs) /\ fs[i + 1].op = "complete"
                                      /\ fs[i + 2].op = "endLoop"
          /\ fs[i].op # "forInc" /\ fs[i].op # "endScope"
          /\ EndsLoop(fs[i]) => EndOf(fs[i]) = end
          /\ i # 1 => ~NeedsIP(fs[i])
  <2> SUFFICES ASSUME NEW i \in DOMAIN fs
               PROVE  /\ FrameFits(fs[i], fn')
                      /\ MayJump(fs[i]) => \E e \in DOMAIN fs : e > i /\ EndsLoop(fs[e])
                      /\ fs[i].op = "loopBack" => /\ i + 2 <= Len(fs) /\ fs[i + 1].op = "complete"
                                                  /\ fs[i + 2].op = "endLoop"
                      /\ fs[i].op # "forInc" /\ fs[i].op # "endScope"
                      /\ EndsLoop(fs[i]) => EndOf(fs[i]) = end
                      /\ i # 1 => ~NeedsIP(fs[i])
    OBVIOUS
  <2>1. CASE i = 1
    BY <2>1, <1>6, <1>8, <1>9, <1>10, <1>12
  <2>2. CASE i = 2
    BY <2>2, <1>6, <1>8, <1>9, <1>10, <1>12
  <2>3. CASE i = 3
    BY <2>3, <1>6, <1>8, <1>9, <1>10, <1>12
  <2>4. CASE i = 4
    BY <2>4, <1>6, <1>8, <1>9, <1>10, <1>12
  <2> QED BY <1>11, <2>1, <2>2, <2>3, <2>4
<1>15. BlockMove(todo[1], fs, fn, fn')
  <2>1. \A d \in Pending(fn) : Keeps(fn, fn', d)
    BY <1>4 DEF Pending
  <2>2. \A i \in 2 .. Len(fs) : i \in DOMAIN fs /\ i # 1
    BY <1>10
  <2> QED BY <1>4, <1>13, <1>14, <2>1, <2>2 DEF BlockMove
<1>16. fs[1].op # "branch" /\ \E i \in DOMAIN fs : EndsLoop(fs[i])
  BY <1>6, <1>8, <1>10, <1>12
<1> QED BY <1>1, <1>3, <1>4, <1>5, <1>10, <1>14, <1>15, <1>16, OpenKeeps

\* A do-while loop: the body and the condition, which will end the loop.
LEMMA VisitDoWhileKeeps ==
    ASSUME GenInv, VisitDoWhile
    PROVE  GenInv'
<1> DEFINE loop == fn.n + 1
           end == loop + 1
           b1 == Visit(Stmt.body)
           b2 == [op |-> "doCondition", loop |-> loop, cond |-> Stmt.cond]
           fs == <<b1, b2>>
<1>1. /\ todo # << >> /\ todo[1] = Head(todo) /\ todo[1] \in Frames
      /\ todo[1].op = "visit" /\ todo[1].stmt.kind = "dowhile" /\ Sound(fn) /\ Owned(todo[1]) = {}
      /\ fn.n \in Nat
  BY GenInvParts, SoundFields, MaxBlockAssumption DEF VisitDoWhile, Visiting, Running, Owned
<1>2. Stmt \in LoopStmt /\ Stmt.body \in LoopStmt /\ Stmt.cond \in Name
  BY <1>1, FrameFields, StatementParts DEF Stmt
<1>3. /\ fn.n + 2 <= MaxBlock /\ UNCHANGED <<prog, cleanups>> /\ PushDests(end, loop)
      /\ fn' = LoopHead(1) /\ todo' = fs \o Tail(todo)
  BY DEF VisitDoWhile, NextBlock, LoopHead, Then, SameCleanups, Fine
<1>4. /\ Sound(fn') /\ fn'.ip = loop /\ loop .. loop + 1 \subseteq Block \ fn.linked
      /\ fn'.linked = fn.linked \cup loop .. loop + 1
      /\ fn'.emitted = fn.emitted \cup {loop}
      /\ \A d \in fn.linked : Keeps(fn, fn', d)
  <2>1. 1 \in {1, 2} /\ fn.n + 1 + 1 <= MaxBlock
    BY <1>1, <1>3
  <2> QED BY <1>1, <1>3, <2>1, LoopHeadSound
<1>5. loop .. loop + 1 = {loop, end} /\ loop # end /\ loop # NoBlock
  BY <1>1, SMTT(30) DEF NoBlock
<1> HIDE DEF loop, end
<1>6. /\ loop \in Block \ fn.linked /\ end \in Block \ fn.linked /\ fn.emitted \subseteq fn.linked
      /\ fn'.linked = fn.linked \cup {loop, end} /\ HasValidIP(fn')
  BY <1>1, <1>4, <1>5 DEF HasValidIP, Sound
<1>7. /\ Pending(fn') = Pending(fn) \cup {end} /\ end \notin Pending(fn)
  BY <1>4, <1>5, <1>6 DEF Pending
<1>8. /\ b1 \in Frames /\ b1.op = "visit" /\ b2 \in Frames /\ b2.op = "doCondition" /\ b2.loop = loop
  BY <1>2, <1>6, FrameForms DEF Visit
<1> HIDE DEF b1, b2
<1>9. /\ Owned(b1) = {} /\ Owned(b2) = {end} /\ ~EndsLoop(b1) /\ EndsLoop(b2) /\ EndOf(b2) = end
      /\ ~MayJump(b2) /\ ~NeedsIP(b2) /\ FrameFits(b1, fn') /\ FrameFits(b2, fn')
  BY <1>4, <1>8 DEF Owned, EndsLoop, EndOf, MayJump, NeedsIP, FrameFits, end
<1>10. /\ fs \in Seq(Frames) /\ Len(fs) = 2 /\ DOMAIN fs = 1 .. 2 /\ fs # << >>
       /\ fs[1] = b1 /\ fs[2] = b2
  BY <1>8
<1>11. Hands(todo[1], fs, fn, fn')
  <2> HIDE DEF fs
  <2>1. Owned(b2) \cap Pending(fn) \subseteq Owned(todo[1])
    BY <1>7, <1>9
  <2>2. Pending(fn') = (Pending(fn) \ Owned(todo[1])) \cup Owned(b2)
    BY <1>1, <1>7, <1>9
  <2> QED BY <1>9, <2>1, <2>2, HandsTwo DEF fs
<1> HIDE DEF fs
<1>12. \A i \in DOMAIN fs : i = 1 \/ i = 2
  BY <1>10
<1>13. 2 \in DOMAIN fs
  BY <1>10
<1>14. \A i \in DOMAIN fs :
          /\ FrameFits(fs[i], fn')
          /\ MayJump(fs[i]) => \E e \in DOMAIN fs : e > i /\ EndsLoop(fs[e])
          /\ fs[i].op \notin {"loopBack", "forInc", "endScope"}
          /\ EndsLoop(fs[i]) => EndOf(fs[i]) = end
          /\ i # 1 => ~NeedsIP(fs[i])
  <2> SUFFICES ASSUME NEW i \in DOMAIN fs
               PROVE  /\ FrameFits(fs[i], fn')
                      /\ MayJump(fs[i]) => \E e \in DOMAIN fs : e > i /\ EndsLoop(fs[e])
                      /\ fs[i].op \notin {"loopBack", "forInc", "endScope"}
                      /\ EndsLoop(fs[i]) => EndOf(fs[i]) = end
                      /\ i # 1 => ~NeedsIP(fs[i])
    OBVIOUS
  <2>1. CASE i = 1
    BY <2>1, <1>8, <1>9, <1>10, <1>13
  <2>2. CASE i = 2
    BY <2>2, <1>8, <1>9, <1>10, <1>13
  <2> QED BY <1>12, <2>1, <2>2
<1>15. BlockMove(todo[1], fs, fn, fn')
  <2>1. \A d \in Pending(fn) : Keeps(fn, fn', d)
    BY <1>4 DEF Pending
  <2>2. \A i \in 2 .. Len(fs) : i \in DOMAIN fs /\ i # 1
    BY <1>10
  <2> QED BY <1>4, <1>6, <1>11, <1>14, <2>1, <2>2 DEF BlockMove
<1>16. fs[1].op # "branch" /\ \E i \in DOMAIN fs : EndsLoop(fs[i])
  BY <1>8, <1>9, <1>10, <1>13
<1>17. loop \in fn'.emitted
  BY <1>4
<1> QED BY <1>1, <1>3, <1>4, <1>6, <1>10, <1>14, <1>15, <1>16, <1>17, OpenKeeps, ZenonT(60)

\* A for loop: the body, the increment, the jump back, the join and the end.
LEMMA ForHeadKeeps ==
    ASSUME GenInv, ForHead
    PROVE  GenInv'
<1> DEFINE loop == fn.n + 1
           inc == loop + 1
           end == loop + 2
           c == IF Stmt.cond = NoName THEN Always(loop) ELSE CondBlocks(LoopHead(2), FALSE)
           b1 == Visit(Stmt.body)
           b2 == [op |-> "forInc", inc |-> inc, call |-> Stmt.inc]
           b3 == [op |-> "loopBack", loop |-> loop, cond |-> c]
           b4 == [op |-> "complete", cond |-> c]
           b5 == [op |-> "endLoop", end |-> end]
           fs == <<b1, b2, b3>> \o <<b4, b5>>
           owned == {c.cont} \ {NoBlock}
<1>1. /\ todo # << >> /\ todo[1] = Head(todo) /\ todo[1] \in Frames
      /\ todo[1].op = "forHead" /\ todo[1].stmt.kind = "for" /\ Sound(fn) /\ Owned(todo[1]) = {}
      /\ fn.n \in Nat /\ Pending(fn) \subseteq Block
  BY GenInvParts, SoundFields, MaxBlockAssumption DEF ForHead, Running, Owned, FrameFits
<1>2. Stmt \in LoopStmt /\ Stmt.body \in LoopStmt /\ Stmt.cond \in Name /\ Stmt.inc \in Callable
  BY <1>1, FrameFields, StatementParts, ForParts DEF Stmt
<1>3. CASE ~HasValidIP(fn) /\ Then(<< >>) /\ UNCHANGED fn /\ SameDests
  <2>1. UNCHANGED <<prog, cleanups, breakDests, continueDests>>
    BY <1>3 DEF ForHead, SameCleanups, SameDests, Fine
  <2>2. todo[1].op \in (Linear \ {"bind", "endScope"}) \cup {"loopBack"}
    BY <1>1 DEF Linear
  <2>3. Sound(fn') /\ fn'.linked = fn.linked /\ fn'.emitted = fn.emitted
        /\ \A d \in Pending(fn) : Keeps(fn, fn', d)
    BY <1>1, <1>3, Unchanged
  <2> QED BY <1>1, <1>3, <2>1, <2>2, <2>3, DropKeeps
<1>4. CASE HasValidIP(fn) /\ ~(~HasValidIP(fn) /\ Then(<< >>) /\ UNCHANGED fn /\ SameDests)
  <2>1. /\ loop + 4 <= MaxBlock /\ UNCHANGED <<prog, cleanups>> /\ PushDests(end, inc)
        /\ fn' = IF Stmt.cond = NoName THEN LoopHead(2)
                 ELSE EnterTrue(EmitCondition(LoopHead(2), Stmt.cond, FALSE, FALSE), c)
        /\ todo' = fs \o Tail(todo)
    BY <1>4 DEF ForHead, NextBlock, Then, Finally, SameCleanups, Fine
  <2>2. /\ loop .. loop + 2 = {loop, inc, end} /\ loop + 1 .. loop + 2 = {inc, end}
        /\ loop # inc /\ loop # end /\ inc # end /\ loop # NoBlock
        /\ 2 \in {1, 2} /\ fn.n + 2 + 3 <= MaxBlock /\ fn.n + 2 + 1 <= MaxBlock
        /\ fn.n + 1 = loop /\ FALSE \in BOOLEAN
    <3>1. /\ loop # inc /\ loop # end /\ inc # end /\ loop # NoBlock
          /\ 2 \in {1, 2} /\ fn.n + 1 = loop /\ FALSE \in BOOLEAN
      BY <1>1 DEF NoBlock
    <3>2. fn.n + 2 + 3 <= MaxBlock /\ fn.n + 2 + 1 <= MaxBlock
      BY <1>1, <2>1, MaxBlockAssumption
    <3>3. loop \in Nat
      BY <1>1
    <3> HIDE DEF loop
    <3>4. loop .. loop + 2 = {loop, inc, end}
      BY <3>3
    <3>5. loop + 1 .. loop + 2 = {inc, end}
      BY <3>3
    <3> QED BY <3>1, <3>2, <3>4, <3>5
  <2>3. /\ Sound(fn') /\ HasValidIP(fn') /\ c \in CondRecs
        /\ {loop, inc, end} \subseteq Block \ fn.linked /\ loop \in fn'.emitted
        /\ fn.emitted \subseteq fn'.emitted
        /\ owned \cap (fn.linked \cup {loop, inc, end}) = {}
        /\ Pending(fn') = Pending(fn) \cup {inc, end} \cup owned
        /\ \A d \in fn.linked : Keeps(fn, fn', d)
    <3>1. CASE Stmt.cond = NoName
      <4>1. fn' = LoopHead(2) /\ c = Always(loop)
        BY <2>1, <3>1
      <4>2. /\ Sound(fn') /\ fn'.ip = fn.n + 1
            /\ fn'.linked = fn.linked \cup (fn.n + 1) .. (fn.n + 1) + 2
            /\ fn'.emitted = fn.emitted \cup {fn.n + 1}
            /\ (fn.n + 1) .. (fn.n + 1) + 2 \subseteq Block \ fn.linked
            /\ \A d \in fn.linked : Keeps(fn, fn', d)
        BY <1>1, <2>2, <4>1, LoopHeadSound
      <4> HIDE DEF c
      <4>3. owned = {}
        BY <4>1 DEF Always
      <4> HIDE DEF owned
      <4>4. /\ fn'.linked = fn.linked \cup {loop, inc, end} /\ fn'.ip = loop
            /\ fn'.emitted = fn.emitted \cup {loop} /\ {loop, inc, end} \subseteq Block \ fn.linked
        BY <2>2, <4>2
      <4> HIDE DEF loop, inc, end
      <4>5. c \in CondRecs
        BY <4>1, <4>4 DEF Always, CondRecs
      <4>6. fn.emitted \subseteq fn.linked
        BY <1>1 DEF Sound
      <4>7. Pending(fn') = Pending(fn) \cup {inc, end}
        BY <2>2, <4>4, <4>6 DEF Pending
      <4> QED BY <2>2, <4>2, <4>3, <4>4, <4>5, <4>7 DEF HasValidIP
    <3>2. CASE Stmt.cond # NoName
      <4> DEFINE d0 == CondBlocks(LoopHead(2), FALSE)
      <4>1. fn' = EnterTrue(EmitCondition(LoopHead(2), Stmt.cond, FALSE, FALSE), d0) /\ c = d0
        BY <2>1, <3>2
      <4> HIDE DEF c, d0
      <4>2. /\ Sound(fn') /\ HasValidIP(fn') /\ d0 \in CondRecs /\ d0.false = NoBlock
            /\ d0.cont \in Block /\ d0.cont # NoBlock
            /\ d0.cont \notin fn.linked \cup (fn.n + 1) .. (fn.n + 1) + 2
            /\ (fn.n + 1) .. (fn.n + 1) + 2 \subseteq Block \ fn.linked /\ fn.n + 1 \in fn'.emitted
            /\ fn.emitted \subseteq fn'.emitted
            /\ Pending(fn') = Pending(fn) \cup (fn.n + 1) + 1 .. (fn.n + 1) + 2 \cup {d0.cont}
            /\ \A d \in fn.linked : Keeps(fn, fn', d)
        BY <1>1, <1>2, <2>2, <4>1, HeadCondition DEF d0
      <4>3. owned = {d0.cont}
        BY <4>1, <4>2
      <4> DEFINE y == d0.cont
      <4>4. /\ y \notin fn.linked \cup {loop, inc, end}
            /\ {loop, inc, end} \subseteq Block \ fn.linked /\ loop \in fn'.emitted
            /\ Pending(fn') = Pending(fn) \cup {inc, end} \cup {y}
        <5> HIDE DEF y, inc, end
        <5> QED BY <2>2, <4>2 DEF y
      <4> HIDE DEF owned, loop, inc, end
      <4> QED BY <4>1, <4>2, <4>3, <4>4
    <3> QED BY <3>1, <3>2
  <2>4. loop \in Block /\ inc \in Block /\ end \in Block \ fn.linked /\ owned \subseteq Block
    <3> HIDE DEF loop, inc, end
    <3> QED BY <2>3 DEF CondRecs
  <2>5. /\ b1 \in Frames /\ b1.op = "visit" /\ b2 \in Frames /\ b2.op = "forInc" /\ b2.inc = inc
        /\ b3 \in Frames /\ b3.op = "loopBack" /\ b3.loop = loop
        /\ b4 \in Frames /\ b4.op = "complete" /\ b4.cond = c
        /\ b5 \in Frames /\ b5.op = "endLoop" /\ b5.end = end
    <3> HIDE DEF c, loop, inc, end
    <3> QED BY <1>2, <2>3, <2>4, FrameForms DEF Visit
  <2> HIDE DEF b1, b2, b3, b4, b5, loop, inc, end, c
  <2>6. /\ Owned(b1) = {} /\ Owned(b2) = {inc} /\ Owned(b3) = {} /\ Owned(b4) = owned
        /\ Owned(b5) = {end}
    BY <2>5 DEF Owned
  <2>7. /\ ~EndsLoop(b1) /\ ~EndsLoop(b2) /\ ~EndsLoop(b3) /\ ~EndsLoop(b4)
        /\ EndsLoop(b5) /\ EndOf(b5) = end
        /\ ~MayJump(b2) /\ ~MayJump(b3) /\ ~MayJump(b4) /\ ~MayJump(b5)
        /\ ~NeedsIP(b2) /\ ~NeedsIP(b3) /\ ~NeedsIP(b4) /\ ~NeedsIP(b5)
    BY <2>5 DEF EndsLoop, EndOf, MayJump, NeedsIP
  <2>8. /\ FrameFits(b1, fn') /\ FrameFits(b2, fn') /\ FrameFits(b3, fn')
        /\ FrameFits(b4, fn') /\ FrameFits(b5, fn')
    BY <2>3, <2>5 DEF FrameFits
  <2> HIDE DEF owned
  <2>9. /\ fs \in Seq(Frames) /\ Len(fs) = 5 /\ DOMAIN fs = 1 .. 5 /\ fs # << >>
        /\ fs[1] = b1 /\ fs[2] = b2 /\ fs[3] = b3 /\ fs[4] = b4 /\ fs[5] = b5
    <3> DEFINE p == <<b1, b2, b3>>
               q == <<b4, b5>>
    <3>1. /\ p \in Seq(Frames) /\ Len(p) = 3 /\ p[1] = b1 /\ p[2] = b2 /\ p[3] = b3
          /\ q \in Seq(Frames) /\ Len(q) = 2 /\ q[1] = b4 /\ q[2] = b5
      BY <2>5
    <3> HIDE DEF p, q
    <3> DEFINE r == p \o q
    <3>2. /\ r \in Seq(Frames) /\ Len(r) = Len(p) + Len(q) /\ DOMAIN r = 1 .. Len(r)
          /\ \A i \in 1 .. Len(p) : r[i] = p[i]
          /\ \A i \in 1 .. Len(q) : r[Len(p) + i] = q[i]
      <4>1. p \in Seq(Frames) /\ q \in Seq(Frames)
        BY <3>1
      <4> QED BY <4>1, Concatenated
    <3> HIDE DEF r
    <3>3. r[1] = p[1] /\ r[2] = p[2] /\ r[3] = p[3] /\ r[4] = q[1] /\ r[5] = q[2]
      BY <3>1, <3>2
    <3>4. /\ r \in Seq(Frames) /\ Len(r) = 5 /\ DOMAIN r = 1 .. 5 /\ r # << >>
          /\ r[1] = b1 /\ r[2] = b2 /\ r[3] = b3 /\ r[4] = b4 /\ r[5] = b5
      BY <3>1, <3>2, <3>3
    <3> QED BY <3>4 DEF r, p, q
  <2> HIDE DEF fs
  <2>10. \A i \in DOMAIN fs : i = 1 \/ i = 2 \/ i = 3 \/ i = 4 \/ i = 5
    BY <2>9
  <2>11. 2 \in DOMAIN fs /\ 4 \in DOMAIN fs /\ 5 \in DOMAIN fs
    BY <2>9
  <2>12. Hands(todo[1], fs, fn, fn')
    <3> DEFINE new == {inc, end} \cup owned
    <3>1. Pending(fn') = Pending(fn) \cup new /\ new \cap Pending(fn) = {}
      BY <2>3 DEF Pending
    <3>2. \A i \in DOMAIN fs : Owned(fs[i]) \subseteq new
      BY <2>6, <2>9, <2>10
    <3>3. \A i, j \in DOMAIN fs : i # j => Owned(fs[i]) \cap Owned(fs[j]) = {}
      <4>1. inc # end /\ inc \notin owned /\ end \notin owned
        BY <2>2, <2>3
      <4> QED BY <2>6, <2>9, <2>10, <4>1
    <3>4. \A d \in new : \E i \in DOMAIN fs : d \in Owned(fs[i])
      BY <2>6, <2>9, <2>11
    <3> HIDE DEF new
    <3>5. /\ Pending(fn') = (Pending(fn) \ Owned(todo[1])) \cup Owned(todo[1]) \cup new
          /\ Owned(todo[1]) \subseteq Pending(fn) /\ new \cup Owned(todo[1]) = new
          /\ 1 .. Len(fs) = DOMAIN fs
      BY <1>1, <2>9, <3>1
    <3>6. /\ \A i \in 1 .. Len(fs) : Owned(fs[i]) \subseteq new \cup Owned(todo[1])
          /\ \A i, j \in 1 .. Len(fs) : i # j => Owned(fs[i]) \cap Owned(fs[j]) = {}
          /\ \A d \in new \cup Owned(todo[1]) : \E i \in 1 .. Len(fs) : d \in Owned(fs[i])
      BY <3>2, <3>3, <3>4, <3>5
    <3> QED BY <3>1, <3>5, <3>6, HandsNew
  <2>13. \A i \in DOMAIN fs :
            /\ FrameFits(fs[i], fn')
            /\ MayJump(fs[i]) => \E e \in DOMAIN fs : e > i /\ EndsLoop(fs[e])
            /\ fs[i].op = "loopBack" => /\ i + 2 <= Len(fs) /\ fs[i + 1].op = "complete"
                                        /\ fs[i + 2].op = "endLoop"
            /\ fs[i].op = "forInc" => i + 3 <= Len(fs) /\ fs[i + 1].op = "loopBack"
            /\ fs[i].op # "endScope"
            /\ EndsLoop(fs[i]) => EndOf(fs[i]) = end
            /\ i # 1 => ~NeedsIP(fs[i])
    <3> SUFFICES ASSUME NEW i \in DOMAIN fs
                 PROVE  /\ FrameFits(fs[i], fn')
                        /\ MayJump(fs[i]) => \E e \in DOMAIN fs : e > i /\ EndsLoop(fs[e])
                        /\ fs[i].op = "loopBack" => /\ i + 2 <= Len(fs) /\ fs[i + 1].op = "complete"
                                                    /\ fs[i + 2].op = "endLoop"
                        /\ fs[i].op = "forInc" => i + 3 <= Len(fs) /\ fs[i + 1].op = "loopBack"
                        /\ fs[i].op # "endScope"
                        /\ EndsLoop(fs[i]) => EndOf(fs[i]) = end
                        /\ i # 1 => ~NeedsIP(fs[i])
      OBVIOUS
    <3>1. CASE i = 1
      BY <3>1, <2>5, <2>7, <2>8, <2>9, <2>11
    <3>2. CASE i = 2
      BY <3>2, <2>5, <2>7, <2>8, <2>9, <2>11
    <3>3. CASE i = 3
      BY <3>3, <2>5, <2>7, <2>8, <2>9, <2>11
    <3>4. CASE i = 4
      BY <3>4, <2>5, <2>7, <2>8, <2>9, <2>11
    <3>5. CASE i = 5
      BY <3>5, <2>5, <2>7, <2>8, <2>9, <2>11
    <3> QED BY <2>10, <3>1, <3>2, <3>3, <3>4, <3>5
  <2>14. BlockMove(todo[1], fs, fn, fn')
    <3>1. \A d \in Pending(fn) : Keeps(fn, fn', d)
      BY <2>3 DEF Pending
    <3>2. \A i \in 2 .. Len(fs) : i \in DOMAIN fs /\ i # 1
      BY <2>9
    <3> QED BY <2>3, <2>12, <2>13, <3>1, <3>2 DEF BlockMove
  <2>15. fs[1].op # "branch" /\ \E i \in DOMAIN fs : EndsLoop(fs[i])
    BY <2>5, <2>7, <2>9, <2>11
  <2>16. \E i \in DOMAIN fs : /\ fs[i].op = "forInc" /\ fs[i].inc = inc
                              /\ i + 3 \in DOMAIN fs /\ fs[i + 3].end = end
    <3>1. 2 + 3 = 5
      OBVIOUS
    <3> QED BY <2>5, <2>9, <2>11, <3>1
  <2> QED BY <1>1, <2>1, <2>3, <2>4, <2>9, <2>13, <2>14, <2>15, <2>16, OpenKeeps
<1> QED BY <1>3, <1>4 DEF ForHead


\* The frames of the loop of a for-each, one by one.
LEMMA SixFrames ==
    ASSUME NEW b1 \in Frames, NEW b2 \in Frames, NEW b3 \in Frames, NEW b4 \in Frames, NEW b5 \in Frames,
           NEW b6 \in Frames
    PROVE  LET fs == ((<<b1, b2>> \o <<b3>>) \o <<b4>>) \o <<b5, b6>>
           IN  /\ fs \in Seq(Frames) /\ Len(fs) = 6 /\ DOMAIN fs = 1 .. 6 /\ fs # << >>
               /\ fs[1] = b1 /\ fs[2] = b2 /\ fs[3] = b3 /\ fs[4] = b4 /\ fs[5] = b5 /\ fs[6] = b6
<1> DEFINE fs == ((<<b1, b2>> \o <<b3>>) \o <<b4>>) \o <<b5, b6>>
           p == <<b1, b2, b3, b4>>
           q == <<b5, b6>>
           r == p \o q
<1>1. (<<b1, b2>> \o <<b3>>) \o <<b4>> = p
  <2> DEFINE s == <<b1, b2>>
             t == <<b3>>
             v == <<b4>>
             st == s \o t
             w == st \o v
  <2>1. /\ s \in Seq(Frames) /\ t \in Seq(Frames) /\ v \in Seq(Frames)
        /\ Len(s) = 2 /\ Len(t) = 1 /\ Len(v) = 1
        /\ s[1] = b1 /\ s[2] = b2 /\ t[1] = b3 /\ v[1] = b4
    OBVIOUS
  <2> HIDE DEF s, t, v
  <2>2. /\ st \in Seq(Frames) /\ Len(st) = Len(s) + Len(t)
        /\ \A i \in 1 .. Len(s) : st[i] = s[i]
        /\ \A i \in 1 .. Len(t) : st[Len(s) + i] = t[i]
    <3>1. s \in Seq(Frames) /\ t \in Seq(Frames)
      BY <2>1
    <3> QED BY <3>1, Concatenated
  <2> HIDE DEF st
  <2>3. Len(st) = 3 /\ st[1] = b1 /\ st[2] = b2 /\ st[3] = b3
    BY <2>1, <2>2
  <2>4. /\ w \in Seq(Frames) /\ Len(w) = Len(st) + Len(v)
        /\ \A i \in 1 .. Len(st) : w[i] = st[i]
        /\ \A i \in 1 .. Len(v) : w[Len(st) + i] = v[i]
    <3>1. st \in Seq(Frames) /\ v \in Seq(Frames)
      BY <2>1, <2>2
    <3> QED BY <3>1, Concatenated
  <2> HIDE DEF w
  <2>5. Len(w) = 4 /\ w[1] = b1 /\ w[2] = b2 /\ w[3] = b3 /\ w[4] = b4
    <3>1. /\ Len(w) = 4
          /\ 1 \in 1 .. Len(st) /\ 2 \in 1 .. Len(st) /\ 3 \in 1 .. Len(st)
      BY <2>1, <2>3, <2>4
    <3>2. 1 \in 1 .. Len(v) /\ Len(st) + 1 = 4
      BY <2>1, <2>3
    <3>3. w[Len(st) + 1] = v[1]
      BY <2>4, <3>2
    <3>4. w[1] = st[1] /\ w[2] = st[2] /\ w[3] = st[3]
      BY <2>4, <3>1
    <3> QED BY <2>1, <2>3, <3>1, <3>2, <3>3, <3>4
  <2>6. w = <<w[1], w[2], w[3], w[4]>>
    <3>1. w \in Seq(Frames) /\ Len(w) = 4
      BY <2>4, <2>5
    <3> QED BY <3>1
  <2> QED BY <2>5, <2>6 DEF w, st, s, t, v
<1>2. /\ p \in Seq(Frames) /\ Len(p) = 4 /\ p[1] = b1 /\ p[2] = b2 /\ p[3] = b3 /\ p[4] = b4
      /\ q \in Seq(Frames) /\ Len(q) = 2 /\ q[1] = b5 /\ q[2] = b6
  OBVIOUS
<1> HIDE DEF p, q
<1>3. /\ r \in Seq(Frames) /\ Len(r) = Len(p) + Len(q) /\ DOMAIN r = 1 .. Len(r)
      /\ \A i \in 1 .. Len(p) : r[i] = p[i]
      /\ \A i \in 1 .. Len(q) : r[Len(p) + i] = q[i]
  <2>1. p \in Seq(Frames) /\ q \in Seq(Frames)
    BY <1>2
  <2> QED BY <2>1, Concatenated
<1> HIDE DEF r
<1>4. /\ r[1] = p[1] /\ r[2] = p[2] /\ r[3] = p[3] /\ r[4] = p[4]
      /\ r[5] = q[1] /\ r[6] = q[2]
  <2>1. /\ 1 \in 1 .. Len(q) /\ 2 \in 1 .. Len(q) /\ Len(p) + 1 = 5 /\ Len(p) + 2 = 6
    BY <1>2
  <2>2. r[Len(p) + 1] = q[1] /\ r[Len(p) + 2] = q[2]
    BY <1>3, <2>1
  <2>3. /\ 1 \in 1 .. Len(p) /\ 2 \in 1 .. Len(p) /\ 3 \in 1 .. Len(p) /\ 4 \in 1 .. Len(p)
    BY <1>2
  <2>4. r[1] = p[1] /\ r[2] = p[2] /\ r[3] = p[3] /\ r[4] = p[4]
    BY <1>3, <2>3
  <2>5. r[5] = q[1] /\ r[6] = q[2]
    BY <2>1, <2>2
  <2> QED BY <2>4, <2>5
<1>5. /\ r \in Seq(Frames) /\ Len(r) = 6 /\ DOMAIN r = 1 .. 6 /\ r # << >>
      /\ r[1] = b1 /\ r[2] = b2 /\ r[3] = b3 /\ r[4] = b4 /\ r[5] = b5 /\ r[6] = b6
  <2>1. Len(p) = 4 /\ Len(q) = 2
    BY <1>2
  <2>2. r \in Seq(Frames) /\ Len(r) = Len(p) + Len(q) /\ DOMAIN r = 1 .. Len(r)
    BY <1>3
  <2>3. Len(r) = 6
    BY <2>1, <2>2
  <2>4. r \in Seq(Frames) /\ DOMAIN r = 1 .. 6 /\ r # << >>
    <3>1. r \in Seq(Frames) /\ DOMAIN r = 1 .. 6
      BY <2>2, <2>3
    <3>2. r # << >>
      BY <2>3, SMTT(30)
    <3> QED BY <3>1, <3>2
  <2>5. r[1] = b1 /\ r[2] = b2 /\ r[3] = b3 /\ r[4] = b4 /\ r[5] = b5 /\ r[6] = b6
    BY <1>2, <1>4
  <2> QED BY <2>3, <2>4, <2>5
<1>6. fs = r
  BY <1>1 DEF r, q
<1> HIDE DEF fs
<1>7. /\ fs \in Seq(Frames) /\ Len(fs) = 6 /\ DOMAIN fs = 1 .. 6 /\ fs # << >>
      /\ fs[1] = b1 /\ fs[2] = b2 /\ fs[3] = b3 /\ fs[4] = b4 /\ fs[5] = b5 /\ fs[6] = b6
  BY <1>5, <1>6
<1> QED BY <1>7 DEF fs

\* A for-each loop: the element variables in a scope of their own around the body.
LEMMA ForEachHeadKeeps ==
    ASSUME GenInv, ForEachHead
    PROVE  GenInv'
<1> DEFINE loop == fn.n + 1
           end == loop + 1
           c == CondBlocks(LoopHead(1), FALSE)
           b1 == Bind(Stmt.elem)
           b2 == Visit(Stmt.body)
           b3 == [op |-> "endScope", depth |-> Depth]
           b4 == [op |-> "loopBack", loop |-> loop, cond |-> c]
           b5 == [op |-> "complete", cond |-> c]
           b6 == [op |-> "endLoop", end |-> end]
           fs == ((<<b1, b2>> \o <<b3>>) \o <<b4>>) \o <<b5, b6>>
           y == c.cont
<1>1. /\ todo # << >> /\ todo[1] = Head(todo) /\ todo[1] \in Frames
      /\ todo[1].op = "forEachHead" /\ todo[1].stmt.kind = "foreach" /\ Sound(fn)
      /\ Owned(todo[1]) = {} /\ fn.n \in Nat /\ Pending(fn) \subseteq Block
      /\ Depth \in Nat /\ Depth = Len(cleanups)
  BY GenInvParts, SoundFields, MaxBlockAssumption DEF ForEachHead, Running, Owned, FrameFits, Depth
<1>2. Stmt \in LoopStmt /\ Stmt.body \in LoopStmt /\ Stmt.cond \in Name /\ Stmt.elem \in Seq(Name)
  BY <1>1, FrameFields, StatementParts DEF Stmt
<1>3. CASE ~HasValidIP(fn) /\ Then(<< >>) /\ UNCHANGED fn /\ SameDests
  <2>1. UNCHANGED <<prog, cleanups, breakDests, continueDests>>
    BY <1>3 DEF ForEachHead, SameCleanups, SameDests, Fine
  <2>2. todo[1].op \in (Linear \ {"bind", "endScope"}) \cup {"loopBack"}
    BY <1>1 DEF Linear
  <2>3. Sound(fn') /\ fn'.linked = fn.linked /\ fn'.emitted = fn.emitted
        /\ \A d \in Pending(fn) : Keeps(fn, fn', d)
    BY <1>1, <1>3, Unchanged
  <2> QED BY <1>1, <1>3, <2>1, <2>2, <2>3, DropKeeps
<1>4. CASE HasValidIP(fn) /\ ~(~HasValidIP(fn) /\ Then(<< >>) /\ UNCHANGED fn /\ SameDests)
  <2>1. /\ loop + 3 <= MaxBlock /\ UNCHANGED <<prog, cleanups>> /\ PushDests(end, loop)
        /\ fn' = EnterTrue(EmitCondition(LoopHead(1), Stmt.cond, FALSE, TRUE), c)
        /\ todo' = fs \o Tail(todo)
    BY <1>4 DEF ForEachHead, NextBlock, Then, Scoped, Finally, SameCleanups, Fine
  <2>2. /\ Sound(fn') /\ HasValidIP(fn') /\ c \in CondRecs /\ c.false = NoBlock
        /\ y \in Block /\ y # NoBlock /\ y \notin fn.linked \cup loop .. loop + 1
        /\ loop .. loop + 1 \subseteq Block \ fn.linked /\ loop \in fn'.emitted
        /\ fn.emitted \subseteq fn'.emitted
        /\ Pending(fn') = Pending(fn) \cup loop + 1 .. loop + 1 \cup {y}
        /\ \A d \in fn.linked : Keeps(fn, fn', d)
    <3>1. TRUE \in BOOLEAN /\ 1 \in {1, 2} /\ fn.n + 1 + 3 <= MaxBlock
      BY <1>1, <2>1, MaxBlockAssumption
    <3> HIDE DEF c
    <3> QED BY <1>1, <1>2, <2>1, <3>1, HeadCondition DEF c
  <2>3. /\ loop \in Block /\ end \in Block \ fn.linked /\ loop + 1 .. loop + 1 = {end} /\ y # end
    <3>1. loop \in loop .. loop + 1 /\ end \in loop .. loop + 1 /\ loop + 1 .. loop + 1 = {end}
      BY <1>1
    <3> HIDE DEF loop, end, y
    <3> QED BY <2>2, <3>1
  <2>4. /\ b1 \in Frames /\ b1.op = "bind" /\ b2 \in Frames /\ b2.op = "visit"
        /\ b3 \in Frames /\ b3.op = "endScope" /\ b3.depth = Depth
        /\ b4 \in Frames /\ b4.op = "loopBack" /\ b4.loop = loop
        /\ b5 \in Frames /\ b5.op = "complete" /\ b5.cond = c
        /\ b6 \in Frames /\ b6.op = "endLoop" /\ b6.end = end
    <3> HIDE DEF c, loop, end
    <3> QED BY <1>1, <1>2, <2>2, <2>3, FrameForms DEF Visit, Bind
  <2> HIDE DEF b1, b2, b3, b4, b5, b6, loop, end, c
  <2>5. /\ Owned(b1) = {} /\ Owned(b2) = {} /\ Owned(b3) = {} /\ Owned(b4) = {}
        /\ Owned(b5) = {y} /\ Owned(b6) = {end}
    BY <2>2, <2>4 DEF Owned
  <2>6. /\ ~EndsLoop(b1) /\ ~EndsLoop(b2) /\ ~EndsLoop(b3) /\ ~EndsLoop(b4) /\ ~EndsLoop(b5)
        /\ EndsLoop(b6) /\ EndOf(b6) = end
        /\ ~MayJump(b1) /\ ~MayJump(b3) /\ ~MayJump(b4) /\ ~MayJump(b5) /\ ~MayJump(b6)
        /\ ~NeedsIP(b3) /\ ~NeedsIP(b4) /\ ~NeedsIP(b5) /\ ~NeedsIP(b6)
    BY <2>4 DEF EndsLoop, EndOf, MayJump, NeedsIP
  <2>7. /\ FrameFits(b1, fn') /\ FrameFits(b2, fn') /\ FrameFits(b3, fn')
        /\ FrameFits(b4, fn') /\ FrameFits(b5, fn') /\ FrameFits(b6, fn')
    BY <2>2, <2>4 DEF FrameFits
  <2> HIDE DEF y
  <2>8. /\ fs \in Seq(Frames) /\ Len(fs) = 6 /\ DOMAIN fs = 1 .. 6 /\ fs # << >>
        /\ fs[1] = b1 /\ fs[2] = b2 /\ fs[3] = b3 /\ fs[4] = b4 /\ fs[5] = b5 /\ fs[6] = b6
    BY <2>4, SixFrames
  <2> HIDE DEF fs
  <2>9. \A i \in DOMAIN fs : i = 1 \/ i = 2 \/ i = 3 \/ i = 4 \/ i = 5 \/ i = 6
    BY <2>8
  <2>10. 5 \in DOMAIN fs /\ 6 \in DOMAIN fs
    BY <2>8
  <2>11. Hands(todo[1], fs, fn, fn')
    <3> DEFINE new == {y, end}
    <3>1. Pending(fn') = Pending(fn) \cup new /\ new \cap Pending(fn) = {}
      BY <2>2, <2>3 DEF Pending
    <3>2. \A i \in DOMAIN fs : Owned(fs[i]) \subseteq new
      BY <2>5, <2>8, <2>9
    <3>3. \A i, j \in DOMAIN fs : i # j => Owned(fs[i]) \cap Owned(fs[j]) = {}
      BY <2>3, <2>5, <2>8, <2>9
    <3>4. \A d \in new : \E i \in DOMAIN fs : d \in Owned(fs[i])
      BY <2>5, <2>8, <2>10
    <3> HIDE DEF new
    <3>5. /\ Pending(fn') = (Pending(fn) \ Owned(todo[1])) \cup Owned(todo[1]) \cup new
          /\ Owned(todo[1]) \subseteq Pending(fn) /\ new \cup Owned(todo[1]) = new
          /\ 1 .. Len(fs) = DOMAIN fs
      BY <1>1, <2>8, <3>1
    <3>6. /\ \A i \in 1 .. Len(fs) : Owned(fs[i]) \subseteq new \cup Owned(todo[1])
          /\ \A i, j \in 1 .. Len(fs) : i # j => Owned(fs[i]) \cap Owned(fs[j]) = {}
          /\ \A d \in new \cup Owned(todo[1]) : \E i \in 1 .. Len(fs) : d \in Owned(fs[i])
      BY <3>2, <3>3, <3>4, <3>5
    <3> QED BY <3>1, <3>5, <3>6, HandsNew
  <2>12. \A i \in DOMAIN fs :
            /\ FrameFits(fs[i], fn')
            /\ MayJump(fs[i]) => \E e \in DOMAIN fs : e > i /\ EndsLoop(fs[e])
            /\ fs[i].op = "loopBack" => /\ i + 2 <= Len(fs) /\ fs[i + 1].op = "complete"
                                        /\ fs[i + 2].op = "endLoop"
            /\ fs[i].op # "forInc"
            /\ fs[i].op = "endScope" => fs[i].depth = Len(cleanups)
            /\ EndsLoop(fs[i]) => EndOf(fs[i]) = end
            /\ i # 1 /\ NeedsIP(fs[i]) => fs[i].op # "branch" /\ i = 2
    <3> SUFFICES ASSUME NEW i \in DOMAIN fs
                 PROVE  /\ FrameFits(fs[i], fn')
                        /\ MayJump(fs[i]) => \E e \in DOMAIN fs : e > i /\ EndsLoop(fs[e])
                        /\ fs[i].op = "loopBack" => /\ i + 2 <= Len(fs) /\ fs[i + 1].op = "complete"
                                                    /\ fs[i + 2].op = "endLoop"
                        /\ fs[i].op # "forInc"
                        /\ fs[i].op = "endScope" => fs[i].depth = Len(cleanups)
                        /\ EndsLoop(fs[i]) => EndOf(fs[i]) = end
                        /\ i # 1 /\ NeedsIP(fs[i]) => fs[i].op # "branch" /\ i = 2
      OBVIOUS
    <3>1. CASE i = 1
      BY <3>1, <2>4, <2>6, <2>7, <2>8, <2>10
    <3>2. CASE i = 2
      BY <3>2, <2>4, <2>6, <2>7, <2>8, <2>10
    <3>3. CASE i = 3
      BY <3>3, <1>1, <2>4, <2>6, <2>7, <2>8, <2>10
    <3>4. CASE i = 4
      BY <3>4, <2>4, <2>6, <2>7, <2>8, <2>10
    <3>5. CASE i = 5
      BY <3>5, <2>4, <2>6, <2>7, <2>8, <2>10
    <3>6. CASE i = 6
      BY <3>6, <2>4, <2>6, <2>7, <2>8, <2>10
    <3> QED BY <2>9, <3>1, <3>2, <3>3, <3>4, <3>5, <3>6
  <2>13. BlockMove(todo[1], fs, fn, fn')
    <3>1. \A d \in Pending(fn) : Keeps(fn, fn', d)
      BY <2>2 DEF Pending
    <3>2. \A i \in 2 .. Len(fs) : i \in DOMAIN fs /\ i # 1 /\ (i = 2 => fs[i - 1] = b1)
      BY <2>8
    <3> QED BY <2>2, <2>4, <2>11, <2>12, <3>1, <3>2 DEF BlockMove
  <2>14. fs[1].op # "branch" /\ \E i \in DOMAIN fs : EndsLoop(fs[i])
    BY <2>4, <2>6, <2>8, <2>10
  <2> QED BY <1>1, <2>1, <2>2, <2>3, <2>8, <2>12, <2>13, <2>14, OpenKeeps
<1> QED BY <1>3, <1>4 DEF ForEachHead

\* The function ends when nothing is left to visit.
LEMMA FinishFunctionKeeps ==
    ASSUME GenInv, FinishFunction
    PROVE  GenInv'
<1> DEFINE op == IF prog.void THEN "return" ELSE "unreachable"
<1>1. /\ todo = << >> /\ HasValidIP(fn) /\ Sound(fn) /\ Pending(fn) \subseteq Block
      /\ UNCHANGED <<prog, todo, cleanups, breakDests, continueDests>>
      /\ fn' = CreateExit(fn, op, NoName)
  BY GenInvParts DEF FinishFunction, SameCleanups, SameDests, Fine
<1>2. op \in {"return", "unreachable"} /\ NoName \in Name
  BY StatementAssumption
<1> HIDE DEF op
<1>3. /\ Sound(fn') /\ fn'.linked = fn.linked /\ fn'.emitted = fn.emitted
  BY <1>1, <1>2, ExitSound
<1>4. DOMAIN todo = {}
  BY <1>1
<1>5. StackFits(todo, fn')
  BY <1>1, <1>3, <1>4 DEF GenInv, StackFits, FramesFit, Ownership, Pending, Reachable, LoopsFit
<1>6. DestsFit(todo, fn', breakDests, continueDests)
  BY <1>3, <1>4 DEF GenInv, DestsFit, ContinuesFit, ContinueFits
<1>7. BranchFits(todo, fn', cleanups)
  BY <1>1 DEF BranchFits
<1> QED BY <1>1, <1>3, <1>5, <1>6, <1>7 DEF GenInv

-----------------------------------------------------------------------------
\* emitProlog is about to bind the parameters in an empty function.
LEMMA GenStarts == SILGenInit => GenInv
<1> SUFFICES ASSUME SILGenInit PROVE GenInv
  OBVIOUS
<1> DEFINE b1 == Bind(prog.params)
           b2 == Visit(prog.body)
<1>1. /\ prog \in Program /\ fn = EmptyFunction /\ cleanups = << >>
      /\ breakDests = << >> /\ continueDests = << >> /\ todo = <<b1, b2>>
  BY DEF SILGenInit, Bind, Visit
<1>2. prog.params \in Seq(Name) /\ prog.body \in FreeStmt /\ prog.body \in LoopStmt
  BY <1>1, ProgramAssumption, FreeParts
<1>3. /\ b1 \in Frames /\ b1.op = "bind" /\ b2 \in Frames /\ b2.op = "visit" /\ ~MayJump(b2)
  BY <1>2, FrameForms DEF Bind, Visit, MayJump
<1>4. /\ fn.n = 1 /\ fn.linked = {Entry} /\ fn.emitted = {Entry} /\ fn.ip = Entry
      /\ fn.insts = [b \in Block |-> << >>] /\ fn.preds = [b \in Block |-> << >>]
      /\ Entry \in Block /\ HasValidIP(fn)
  BY <1>1, MaxBlockAssumption DEF EmptyFunction, HasValidIP, Entry, NoBlock, Block
<1>5. Sound(fn)
  <2>1. WellFormed(fn)
    BY <1>1, InitWellFormed
  <2>2. fn.linked \subseteq 1 .. fn.n
    BY <1>4 DEF Entry
  <2> QED BY <1>4, <2>1, <2>2 DEF Sound, PredEmpty
<1>6. Pending(fn) = {}
  BY <1>4 DEF Pending
<1> HIDE DEF b1, b2
<1>7. /\ todo \in Seq(Frames) /\ todo # << >> /\ Len(todo) = 2 /\ DOMAIN todo = 1 .. 2
      /\ todo[1] = b1 /\ todo[2] = b2
  BY <1>1, <1>3
<1>8. \A i \in DOMAIN todo : i = 1 \/ i = 2
  BY <1>7
<1>9. /\ ~EndsLoop(b1) /\ ~EndsLoop(b2) /\ ~MayJump(b1) /\ Owned(b1) = {} /\ Owned(b2) = {}
      /\ FrameFits(b1, fn) /\ FrameFits(b2, fn)
  BY <1>3 DEF EndsLoop, MayJump, Owned, FrameFits
<1>10. StackFits(todo, fn)
  <2>1. FramesFit(todo, fn) /\ Ownership(todo, fn)
    BY <1>6, <1>7, <1>8, <1>9 DEF FramesFit, Ownership
  <2>2. Reachable(todo, fn)
    <3>1. \A i \in 2 .. Len(todo) : i = 2 /\ i - 1 = 1
      BY <1>7
    <3> QED BY <1>3, <1>4, <1>7, <3>1 DEF Reachable
  <2>3. LoopsFit(todo)
    BY <1>3, <1>7, <1>8, <1>9 DEF LoopsFit
  <2> QED BY <1>7, <2>1, <2>2, <2>3 DEF StackFits
<1>11. DestsFit(todo, fn, breakDests, continueDests)
  <2>1. DOMAIN breakDests = {} /\ breakDests \in Seq(Dests) /\ continueDests \in Seq(Dests)
        /\ Len(breakDests) = Len(continueDests)
    BY <1>1
  <2>2. DestsMatch(todo, breakDests)
    BY <2>1, <1>7, <1>8, <1>9 DEF DestsMatch
  <2> QED BY <2>1, <2>2 DEF DestsFit, ContinuesFit
<1>12. BranchFits(todo, fn, cleanups)
  BY <1>3, <1>7 DEF BranchFits
<1>13. ScopesFit(todo, cleanups, prog)
  <2>1. << >> \o prog.params = prog.params
    BY <1>2
  <2> QED BY <1>1, <1>2, <2>1 DEF ScopesFit, b1, b2
<1>14. cleanups \in Seq(Name)
  BY <1>1
<1> QED BY <1>1, <1>5, <1>10, <1>11, <1>12, <1>13, <1>14 DEF GenInv

\* One case per visitor.
LEMMA GenStepKeeps ==
    ASSUME GenInv, SILGenStep
    PROVE  GenInv'
BY VisitExprKeeps, VisitPatternBindingKeeps, BindVarKeeps, VisitBraceKeeps, BraceElementKeeps,
   EndScopeKeeps, VisitReturnKeeps, VisitJumpKeeps, ThreadCleanupKeeps, VisitIfKeeps,
   IfTrueExitKeeps, IfFalseExitKeeps, CompleteKeeps, VisitWhileKeeps, LoopBackKeeps,
   EndLoopKeeps, VisitDoWhileKeeps, DoConditionKeeps, VisitForKeeps, ForHeadKeeps, ForIncKeeps,
   VisitForEachKeeps, ForEachHeadKeeps, FinishFunctionKeeps
   DEF SILGenStep

\* The generated function: every block that is left ends in a terminator.
LEMMA GeneratedWhole ==
    ASSUME GenInv, Generated
    PROVE  /\ fn.linked = fn.emitted /\ fn.linked \subseteq Block
           /\ \A b \in fn.linked : Ended(fn, b) /\ Len(fn.insts[b]) \in Nat \ {0}
           /\ breakDests = << >> /\ continueDests = << >> /\ cleanups = prog.params
<1>1. /\ todo = << >> /\ DOMAIN todo = {} /\ fn.ip = NoBlock /\ Sound(fn)
      /\ Ownership(todo, fn) /\ DestsFit(todo, fn, breakDests, continueDests)
      /\ ScopesFit(todo, cleanups, prog)
  BY DEF GenInv, Generated, HasValidIP, StackFits
<1>2. Pending(fn) = {}
  BY <1>1 DEF Ownership
<1>3. fn.linked = fn.emitted /\ fn.linked \subseteq Block /\ fn.insts \in [Block -> Seq(Inst)]
  BY <1>1, <1>2, SoundFields DEF Pending
<1>4. NoBlock \notin fn.linked
  BY <1>3, MaxBlockAssumption DEF Block, NoBlock
<1>5. \A b \in fn.linked : Ended(fn, b)
  BY <1>1, <1>3, <1>4 DEF Sound
<1>6. ASSUME NEW b \in fn.linked PROVE Len(fn.insts[b]) \in Nat \ {0}
  <2>1. fn.insts[b] \in Seq(Inst) /\ fn.insts[b] # << >>
    BY <1>3, <1>5 DEF Ended
  <2> QED BY <2>1
<1>7. breakDests = << >> /\ continueDests = << >>
  <2>1. \A j \in DOMAIN breakDests : FALSE
    BY <1>1 DEF DestsFit, DestsMatch
  <2>2. breakDests \in Seq(Dests) /\ continueDests \in Seq(Dests)
        /\ Len(breakDests) = Len(continueDests)
    BY <1>1 DEF DestsFit
  <2>3. ASSUME NEW q \in Seq(Dests), Len(q) = 0 PROVE q = << >>
    BY <2>3
  <2>4. Len(breakDests) \in Nat /\ DOMAIN breakDests = 1 .. Len(breakDests)
    BY <2>2
  <2>5. ~(1 \in 1 .. Len(breakDests))
    BY <2>1, <2>4
  <2>6. Len(breakDests) = 0
    BY <2>4, <2>5
  <2> QED BY <2>2, <2>3, <2>6
<1>8. cleanups = prog.params
  BY <1>1 DEF ScopesFit, InBody
<1> QED BY <1>3, <1>5, <1>6, <1>7, <1>8

-----------------------------------------------------------------------------
\* Four of the compiler's assertions: visitBraceStmt, emitBranchAndCleanups and
\* emitCondition need an insertion point, and the continuation of an if whose true
\* arm does not complete is unused (Condition::exitTrue).
AssertionsThatHold ==
    failed \notin {"brace element without insertion point", "branch without insertion point",
                   "condition without insertion point", "continuation block used"}

\* No step trips one of them.
LEMMA StepAsserts ==
    ASSUME GenInv, SILGenStep
    PROVE  AssertionsThatHold'
<1>1. ASSUME Running("visit") PROVE HasValidIP(fn)
  <2>1. todo # << >> /\ NeedsIP(todo[1])
    BY <1>1, GenInvParts DEF Running, NeedsIP
  <2> QED BY <2>1, GenInvParts
<1>2. ASSUME BraceElement PROVE AssertionsThatHold'
  BY <1>2, BraceElementReachable DEF BraceElement, Require, Fine, AssertionsThatHold
<1>3. ASSUME VisitJump PROVE AssertionsThatHold'
  BY <1>1, <1>3 DEF VisitJump, Visiting, Require, Fine, AssertionsThatHold
<1>4. ASSUME VisitIf PROVE AssertionsThatHold'
  BY <1>1, <1>4 DEF VisitIf, Visiting, Require, Fine, AssertionsThatHold
<1>5. ASSUME IfTrueExit PROVE AssertionsThatHold'
  <2>1. /\ todo # << >> /\ Frame = todo[1] /\ todo[1].op = "ifTrueExit"
        /\ FrameFits(todo[1], fn)
    BY <1>5, GenInvParts DEF IfTrueExit, Running, Frame
  <2>2. PredEmpty(fn, Frame.cond.cont) \/ Frame.cond.false = NoBlock
    BY <2>1 DEF FrameFits
  <2> QED BY <1>5, <2>2 DEF IfTrueExit, Require, Fine, AssertionsThatHold
<1>6. ASSUME VisitReturn PROVE AssertionsThatHold'
  BY <1>6, ZenonT(60) DEF VisitReturn, Abort, Fine, AssertionsThatHold
<1>7. ASSUME IfFalseExit PROVE AssertionsThatHold'
  BY <1>7 DEF IfFalseExit, Require, Abort, Fine, AssertionsThatHold
<1>8. ASSUME Complete PROVE AssertionsThatHold'
  BY <1>8 DEF Complete, Require, Abort, Fine, AssertionsThatHold
<1>9. ASSUME \/ VisitExpr \/ VisitPatternBinding \/ BindVar \/ VisitBrace \/ EndScope
             \/ ThreadCleanup \/ VisitWhile \/ LoopBack \/ EndLoop \/ VisitDoWhile \/ DoCondition
             \/ VisitFor \/ ForHead \/ ForInc \/ VisitForEach \/ ForEachHead \/ FinishFunction
      PROVE  AssertionsThatHold'
  <2>1. failed' = "no"
    BY <1>9 DEF VisitExpr, VisitPatternBinding, BindVar, VisitBrace, EndScope, ThreadCleanup,
                VisitWhile, LoopBack, EndLoop, VisitDoWhile, DoCondition, VisitFor, ForHead,
                ForInc, VisitForEach, ForEachHead, FinishFunction, Fine
  <2> QED BY <2>1 DEF AssertionsThatHold
<1> QED BY <1>2, <1>3, <1>4, <1>5, <1>6, <1>7, <1>8, <1>9 DEF SILGenStep

-----------------------------------------------------------------------------
\* Once the function is generated it does not change, and the machine that runs
\* it is always at one of its instructions.
RunInv ==
    /\ GenInv /\ AssertionsThatHold
    /\ phase = "generate" => pc = [block |-> Entry, index |-> 1]
    /\ phase # "generate" => Generated /\ AtInstruction

\* Before anything was generated.
LEMMA RunStarts == Init => RunInv
<1> SUFFICES ASSUME Init PROVE RunInv
  OBVIOUS
<1>1. GenInv
  BY GenStarts DEF Init
<1>2. phase = "generate" /\ pc = [block |-> Entry, index |-> 1] /\ failed = "no"
  BY DEF Init, SILGenInit
<1> QED BY <1>1, <1>2 DEF RunInv, AssertionsThatHold

\* A block of the generated function starts with an instruction.
LEMMA BlockStarts ==
    ASSUME GenInv, Generated, NEW b \in fn.linked, UNCHANGED fn,
           pc' = [block |-> b, index |-> 1]
    PROVE  AtInstruction'
<1>1. Len(fn.insts[b]) \in Nat \ {0}
  BY GeneratedWhole
<1>2. 1 \in 1 .. Len(fn.insts[b])
  BY <1>1
<1> QED BY <1>2 DEF AtInstruction

\* A block of the generated function does not end before its terminator.
LEMMA BlockGoesOn ==
    ASSUME GenInv, Generated, AtInstruction, ~IsTerm(Current), UNCHANGED fn, StepOver
    PROVE  AtInstruction'
<1> DEFINE insts == fn.insts[pc.block]
<1>1. /\ pc.block \in fn.linked /\ pc.index \in 1 .. Len(insts)
      /\ Len(insts) \in Nat \ {0} /\ Ended(fn, pc.block) /\ Current = insts[pc.index]
  BY GeneratedWhole DEF AtInstruction, Current
<1>2. pc.index # Len(insts)
  BY <1>1 DEF Ended
<1> HIDE DEF insts
<1>3. pc.index + 1 \in 1 .. Len(insts)
  BY <1>1, <1>2
<1>4. pc'.block = pc.block /\ pc'.index = pc.index + 1
  BY DEF StepOver
<1> QED BY <1>1, <1>3, <1>4 DEF AtInstruction, insts

\* A branch goes to a block that is still in the function.
LEMMA BranchLands ==
    ASSUME GenInv, Generated, AtInstruction, NEW i \in DOMAIN Current.succs,
           UNCHANGED fn, GoTo(Current.succs[i])
    PROVE  AtInstruction'
<1> DEFINE b == Current.succs[i]
<1>1. Sound(fn) /\ pc.block \in fn.linked /\ pc.index \in 1 .. Len(fn.insts[pc.block])
  BY DEF GenInv, AtInstruction
<1>2. pc.block \in Block /\ fn.insts \in [Block -> Seq(Inst)]
  BY <1>1, SoundFields
<1>3. pc.index \in DOMAIN fn.insts[pc.block] /\ Current \in Inst
  <2> QED BY <1>1, <1>2 DEF Current
<1>4. b \in Block /\ b \in SuccSet(Current)
  BY <1>3, SMTT(30) DEF Inst, SuccSet
<1>5. b \in fn.linked
  BY <1>1, <1>2, <1>3, <1>4 DEF Sound, WellFormed, EdgesLinked, Edge, Current
<1> HIDE DEF b
<1>6. pc' = [block |-> b, index |-> 1]
  BY DEF GoTo, b
<1> QED BY <1>5, <1>6, BlockStarts

\* A branch has one target and a conditional branch two.
LEMMA TargetsExist ==
    ASSUME GenInv, AtInstruction
    PROVE  /\ Current.op = "br" => 1 \in DOMAIN Current.succs
           /\ Current.op = "condbr" => 1 \in DOMAIN Current.succs /\ 2 \in DOMAIN Current.succs
<1>1. Sound(fn) /\ pc.block \in fn.linked /\ pc.index \in 1 .. Len(fn.insts[pc.block])
  BY DEF GenInv, AtInstruction
<1>2. pc.block \in Block /\ fn.insts \in [Block -> Seq(Inst)]
  BY <1>1, SoundFields
<1>3. pc.index \in DOMAIN fn.insts[pc.block] /\ Current \in Inst
  <2> QED BY <1>1, <1>2 DEF Current
<1>4. Arity(Current)
  BY <1>1, <1>2, <1>3 DEF Sound, Current
<1>5. Current.succs \in Seq(Block)
  BY <1>3 DEF Inst
<1> QED BY <1>4, <1>5 DEF Arity

\* One case per step of the compiler and of the two machines.
LEMMA RunStep ==
    ASSUME RunInv, [Next]_vars
    PROVE  RunInv'
<1>1. CASE UNCHANGED vars
  BY <1>1 DEF RunInv, vars, genVars, runVars, GenInv, AssertionsThatHold, Generated, AtInstruction
<1>2. CASE Generate
  <2>1. GenInv' /\ AssertionsThatHold' /\ phase' = "generate" /\ pc' = pc
    BY <1>2, GenStepKeeps, StepAsserts DEF RunInv, Generate, runVars
  <2> QED BY <1>2, <2>1 DEF RunInv, Generate
<1>3. CASE StartRun
  <2>1. GenInv /\ Generated /\ UNCHANGED genVars /\ pc' = [block |-> Entry, index |-> 1]
        /\ AssertionsThatHold /\ phase' = "run"
    BY <1>3 DEF RunInv, StartRun
  <2>2. Entry \in fn.linked
    BY <2>1 DEF GenInv, Sound
  <2>3. AtInstruction'
    BY <2>1, <2>2, BlockStarts DEF genVars
  <2>4. GenInv' /\ Generated' /\ AssertionsThatHold'
    BY <2>1 DEF genVars, GenInv, Generated, AssertionsThatHold
  <2> QED BY <2>1, <2>3, <2>4 DEF RunInv
<1>4. ASSUME UNCHANGED genVars, phase # "generate", phase' # "generate", AtInstruction'
      PROVE  RunInv'
  BY <1>4 DEF RunInv, genVars, GenInv, Generated, AssertionsThatHold
<1>5. CASE SourceStep \/ Finish
  <2>1. /\ UNCHANGED genVars /\ UNCHANGED pc /\ phase # "generate" /\ phase' # "generate"
        /\ AtInstruction
    BY <1>5 DEF RunInv, SourceStep, Finish, Leaving, Meeting
  <2> QED BY <2>1, <1>4 DEF AtInstruction, genVars
<1>6. CASE MachineStep
  <2>1. /\ UNCHANGED genVars /\ UNCHANGED fn /\ phase = "run" /\ phase' = "run"
        /\ GenInv /\ Generated /\ AtInstruction
    BY <1>6 DEF RunInv, MachineStep, genVars
  <2>2. CASE Current.op = "br" /\ GoTo(Current.succs[1])
    BY <2>1, <2>2, <1>4, TargetsExist, BranchLands
  <2>3. CASE Current.op \in DOMAIN Needs /\ StepOver
    <3>1. ~IsTerm(Current)
      BY <2>3 DEF Needs, IsTerm, TermOps
    <3> QED BY <2>1, <2>3, <3>1, <1>4, BlockGoesOn
  <2> QED BY <1>6, <2>2, <2>3 DEF MachineStep
<1>7. CASE Call
  <2>1. /\ UNCHANGED genVars /\ UNCHANGED fn /\ phase = "run" /\ phase' = "run"
        /\ GenInv /\ Generated /\ AtInstruction /\ StepOver /\ MachineEvent.op = "apply"
    BY <1>7 DEF RunInv, Call, Meeting, genVars
  <2>2. ~IsTerm(Current)
    BY <2>1 DEF MachineEvent, Event, Silent, IsTerm, TermOps
  <2> QED BY <2>1, <2>2, <1>4, BlockGoesOn
<1>8. ASSUME NEW b \in BOOLEAN, Test(b) PROVE RunInv'
  <2>1. /\ UNCHANGED genVars /\ UNCHANGED fn /\ phase = "run" /\ phase' = "run"
        /\ GenInv /\ Generated /\ AtInstruction /\ MachineEvent.op = "condbr"
        /\ GoTo(Current.succs[IF b THEN 1 ELSE 2])
    BY <1>8 DEF RunInv, Test, Meeting, genVars
  <2>2. Current.op = "condbr"
    BY <2>1 DEF MachineEvent, Event, Silent
  <2>3. (IF b THEN 1 ELSE 2) \in DOMAIN Current.succs
    BY <2>1, <2>2, TargetsExist
  <2> QED BY <2>1, <2>3, <1>4, BranchLands
<1> QED BY <1>1, <1>2, <1>3, <1>5, <1>6, <1>7, <1>8 DEF Next, Stopped

\* The invariant holds of every execution.
LEMMA RunAlways == Spec => []RunInv
BY RunStarts, RunStep, PTL DEF Spec

\* Whatever the program, the function handed to the verifier is whole: every block
\* in it ends in a terminator, no break or continue destination is left over, and
\* the only cleanups left are those of the parameters.
THEOREM SILGenCompletes == Spec => []FunctionComplete
<1>1. RunInv => FunctionComplete
  BY GeneratedWhole DEF RunInv, FunctionComplete
<1> QED BY <1>1, RunAlways, PTL

\* Whatever the program and the outcomes of its conditions, the code SILGen emits
\* never runs past the end of a block or into a block that was erased.
THEOREM SILGenNeverLost == Spec => []NeverLost
<1>1. RunInv => NeverLost
  BY DEF RunInv, NeverLost
<1> QED BY <1>1, RunAlways, PTL

\* The visitors keep the contract of the builder: at every step of the lowering
\* blocks end at their terminators, no predecessor list misses a branch, and no
\* branch goes to an erased block.
THEOREM SILGenKeepsBuilderContract ==
    Spec => [](BuilderTypeOK /\ WellTerminated /\ PredsComplete /\ NoDanglingBranch)
<1>1. RunInv => BuilderTypeOK /\ WellTerminated /\ PredsComplete /\ NoDanglingBranch
  BY DEF RunInv, GenInv, Sound, WellFormed, BuilderTypeOK, WellTerminated, PredsComplete,
         NoDanglingBranch
<1> QED BY <1>1, RunAlways, PTL

\* Four assertions of the visitors cannot trip, whatever the program.
THEOREM SILGenAssertionsHold == Spec => []AssertionsThatHold
<1>1. RunInv => AssertionsThatHold
  BY DEF RunInv
<1> QED BY <1>1, RunAlways, PTL


=============================================================================
