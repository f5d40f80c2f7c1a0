---------------------------- MODULE SILMemoryProofs ----------------------------
(***************************************************************************)
(* The code SILGen emits treats memory as it should, whatever the function *)
(* and the outcomes of its conditions: each variable is allocated, given a *)
(* value, destroyed and deallocated in turn (MemoryDiscipline).            *)
(*                                                                         *)
(* The argument is about the finished code, but it is made while the code  *)
(* is generated.  An account M of the code says what the memory is before  *)
(* each instruction and at the end of each block; the code is accounted    *)
(* for when each instruction finds what it needs and every branch takes to *)
(* its target the memory the target starts with.  A scope is the list of   *)
(* cleanups that will be there when a frame of the stack is run.  The      *)
(* blocks of a frame start with the variables of its scope, and so the     *)
(* branches to them, emitted at any time before, have to end with these.   *)
(*                                                                         *)
(* The lemmas come in this order: accounts; scopes; one lemma per visitor; *)
(* the run.                                                                *)
(***************************************************************************)
EXTENDS SILGenProofs

-----------------------------------------------------------------------------
(* Accounts *)

Mem == [Var -> MemState]

\* The variables of c, and no other, have a value.
Live(c) == [v \in Var |-> IF v \in ToSet(c) THEN "initialized" ELSE "none"]

\* The instruction takes memory m to n, and may.
Executes(inst, m, n) ==
    IF inst.op \in DOMAIN Needs
    THEN /\ inst.id \in Var /\ m[inst.id] = Needs[inst.op]
         /\ n = [m EXCEPT ![inst.id] = Leaves[inst.op]]
    ELSE n = m

\* M is an account of the code.
Accounts(ins, M) ==
    /\ M \in [Block -> Seq(Mem)]
    /\ \A b \in Block : Len(M[b]) = Len(ins[b]) + 1
    /\ \A b \in Block : \A i \in DOMAIN ins[b] :
          /\ Executes(ins[b][i], M[b][i], M[b][i + 1])
          /\ \A s \in SuccSet(ins[b][i]) : M[s][1] = M[b][i]
    /\ M[Entry][1] = Live(<< >>)

\* The memory at the end of a block.
Ending(M, b) == M[b][Len(M[b])]

\* The memory blocks start with is the same in both accounts.
SameStarts(M, N) == \A b \in Block : N[b][1] = M[b][1]

\* Instructions go to blocks.
LEMMA SuccBlocks ==
    ASSUME NEW ins \in [Block -> Seq(Inst)], NEW b \in Block, NEW i \in DOMAIN ins[b]
    PROVE  SuccSet(ins[b][i]) \subseteq Block
<1>1. ins[b] \in Seq(Inst)
  OBVIOUS
<1>2. ins[b][i] \in Inst
  BY <1>1
<1>3. ins[b][i].succs \in Seq(Block)
  BY <1>2 DEF Inst
<1> QED BY <1>3 DEF SuccSet

\* The first block is one.
LEMMA EntryBlock == Entry \in Block
BY MaxBlockAssumption DEF Entry, Block

\* The memory a scope stands for.
LEMMA LiveMem == \A c : Live(c) \in Mem
BY DEF Live, Mem, MemState

\* An instruction more.
LEMMA Extended ==
    ASSUME NEW ins \in [Block -> Seq(Inst)], NEW M, Accounts(ins, M), NEW p \in Block,
           NEW inst \in Inst, NEW n \in Mem, Executes(inst, Ending(M, p), n),
           \A s \in SuccSet(inst) : M[s][1] = Ending(M, p)
    PROVE  LET N == [M EXCEPT ![p] = Append(@, n)]
           IN  /\ Accounts([ins EXCEPT ![p] = Append(@, inst)], N)
               /\ Ending(N, p) = n /\ SameStarts(M, N)
<1> DEFINE N == [M EXCEPT ![p] = Append(@, n)]
           new == [ins EXCEPT ![p] = Append(@, inst)]
           k0 == Len(ins[p])
<1>1. /\ M \in [Block -> Seq(Mem)] /\ ins[p] \in Seq(Inst) /\ M[p] \in Seq(Mem)
      /\ k0 \in Nat /\ Len(M[p]) = k0 + 1
  BY DEF Accounts
<1>2. /\ N \in [Block -> Seq(Mem)] /\ \A b \in Block \ {p} : N[b] = M[b] /\ new[b] = ins[b]
      /\ N[p] = Append(M[p], n) /\ new[p] = Append(ins[p], inst)
  BY <1>1
<1>3. /\ Len(N[p]) = k0 + 2 /\ N[p][k0 + 2] = n /\ \A i \in 1 .. k0 + 1 : N[p][i] = M[p][i]
      /\ Len(new[p]) = k0 + 1 /\ new[p][k0 + 1] = inst /\ \A i \in 1 .. k0 : new[p][i] = ins[p][i]
      /\ DOMAIN new[p] = 1 .. k0 + 1 /\ DOMAIN ins[p] = 1 .. k0
  BY <1>1, <1>2
<1> HIDE DEF N, new
<1>4. Ending(N, p) = n /\ Ending(M, p) = N[p][k0 + 1]
  BY <1>1, <1>3 DEF Ending
<1>5. SameStarts(M, N)
  <2>1. 1 \in 1 .. k0 + 1
    BY <1>1
  <2>2. N[p][1] = M[p][1]
    BY <1>3, <2>1
  <2> QED BY <1>2, <2>2 DEF SameStarts
<1> HIDE DEF k0
<1>6. ASSUME NEW b \in Block, NEW i \in DOMAIN new[b]
      PROVE  /\ Executes(new[b][i], N[b][i], N[b][i + 1])
             /\ \A s \in SuccSet(new[b][i]) : N[s][1] = N[b][i]
  <2>1. SuccSet(new[b][i]) \subseteq Block
    <3>1. new \in [Block -> Seq(Inst)]
      BY <1>1 DEF new
    <3> QED BY <3>1, SuccBlocks
  <2>2. CASE b # p
    <3>1. new[b] = ins[b] /\ N[b] = M[b]
      BY <1>2, <2>2
    <3> QED BY <1>5, <2>1, <3>1 DEF Accounts, SameStarts
  <2>3. CASE b = p /\ i # k0 + 1
    <3>1. i \in 1 .. k0 /\ i \in 1 .. k0 + 1 /\ i + 1 \in 1 .. k0 + 1
      BY <1>1, <1>3, <2>3
    <3>2. new[p][i] = ins[p][i] /\ N[p][i] = M[p][i] /\ N[p][i + 1] = M[p][i + 1]
      BY <1>3, <3>1
    <3>3. i \in DOMAIN ins[p] /\ SuccSet(ins[p][i]) \subseteq Block
      BY <1>3, <2>1, <2>3, <3>1, <3>2
    <3>4. /\ Executes(ins[p][i], M[p][i], M[p][i + 1])
          /\ \A s \in SuccSet(ins[p][i]) : M[s][1] = M[p][i]
      BY <3>3 DEF Accounts
    <3>5. \A s \in SuccSet(ins[p][i]) : N[s][1] = M[s][1]
      BY <1>5, <3>3 DEF SameStarts
    <3> QED BY <2>3, <3>2, <3>4, <3>5
  <2>4. CASE b = p /\ i = k0 + 1
    <3>1. new[b][i] = inst /\ N[b][i] = Ending(M, p) /\ N[b][i + 1] = n
      <4>1. (k0 + 1) + 1 = k0 + 2
        BY <1>1
      <4> QED BY <1>3, <1>4, <2>4, <4>1
    <3> QED BY <1>5, <2>1, <3>1 DEF SameStarts
  <2> QED BY <2>2, <2>3, <2>4
<1>7. ASSUME NEW b \in Block PROVE Len(N[b]) = Len(new[b]) + 1
  <2>1. CASE b = p
    BY <1>1, <1>3, <2>1
  <2>2. CASE b # p
    BY <1>2, <2>2 DEF Accounts
  <2> QED BY <2>1, <2>2
<1>8. N[Entry][1] = Live(<< >>)
  BY <1>5, EntryBlock DEF SameStarts, Accounts
<1>9. Accounts(new, N)
  BY <1>2, <1>6, <1>7, <1>8 DEF Accounts
<1> QED BY <1>4, <1>5, <1>9 DEF N, new

\* The beginning of a sequence.
LEMMA BeginningOf ==
    ASSUME NEW S, NEW s \in Seq(S), NEW n \in 0 .. Len(s)
    PROVE  LET r == SubSeq(s, 1, n)
           IN  /\ r \in Seq(S) /\ Len(r) = n /\ DOMAIN r = 1 .. n
               /\ \A i \in 1 .. n : r[i] = s[i]
OBVIOUS

\* The last instruction less.
LEMMA Shortened ==
    ASSUME NEW ins \in [Block -> Seq(Inst)], NEW M, Accounts(ins, M), NEW p \in Block, ins[p] # << >>
    PROVE  LET N == [M EXCEPT ![p] = SubSeq(@, 1, Len(@) - 1)]
           IN  /\ Accounts([ins EXCEPT ![p] = SubSeq(@, 1, Len(@) - 1)], N)
               /\ Ending(N, p) = M[p][Len(ins[p])] /\ SameStarts(M, N)
<1> DEFINE N == [M EXCEPT ![p] = SubSeq(@, 1, Len(@) - 1)]
           new == [ins EXCEPT ![p] = SubSeq(@, 1, Len(@) - 1)]
           k0 == Len(ins[p])
<1>1. /\ M \in [Block -> Seq(Mem)] /\ ins[p] \in Seq(Inst) /\ M[p] \in Seq(Mem)
      /\ k0 \in Nat \ {0} /\ Len(M[p]) = k0 + 1
  BY DEF Accounts
<1>2. /\ \A b \in Block \ {p} : N[b] = M[b] /\ new[b] = ins[b]
      /\ N[p] = SubSeq(M[p], 1, Len(M[p]) - 1) /\ new[p] = SubSeq(ins[p], 1, Len(ins[p]) - 1)
  BY <1>1
<1>3. /\ Len(N[p]) = k0 /\ N[p] \in Seq(Mem) /\ \A i \in 1 .. k0 : N[p][i] = M[p][i]
  <2>1. N[p] = SubSeq(M[p], 1, k0) /\ k0 \in 0 .. Len(M[p])
    BY <1>1, <1>2
  <2> QED BY <1>1, <2>1, BeginningOf
<1>4. /\ Len(new[p]) = k0 - 1 /\ new[p] \in Seq(Inst) /\ \A i \in 1 .. k0 - 1 : new[p][i] = ins[p][i]
      /\ DOMAIN new[p] = 1 .. k0 - 1 /\ DOMAIN ins[p] = 1 .. k0
  <2> DEFINE r == SubSeq(ins[p], 1, k0 - 1)
  <2>1. new[p] = r /\ k0 - 1 \in 0 .. Len(ins[p])
    BY <1>1, <1>2
  <2>2. /\ r \in Seq(Inst) /\ Len(r) = k0 - 1 /\ DOMAIN r = 1 .. k0 - 1
        /\ \A i \in 1 .. k0 - 1 : r[i] = ins[p][i]
    <3>1. ins[p] \in Seq(Inst)
      BY <1>1
    <3>2. k0 - 1 \in 0 .. Len(ins[p])
      BY <2>1
    <3> HIDE DEF k0
    <3> QED BY <3>1, <3>2, BeginningOf
  <2> HIDE DEF r, new
  <2> QED BY <1>1, <2>1, <2>2
<1>5. N \in [Block -> Seq(Mem)] /\ new \in [Block -> Seq(Inst)]
  BY <1>1, <1>3, <1>4
<1> HIDE DEF N, new
<1>6. Ending(N, p) = M[p][Len(ins[p])] /\ SameStarts(M, N)
  <2>1. 1 \in 1 .. k0 /\ k0 \in 1 .. k0
    BY <1>1
  <2>2. N[p][1] = M[p][1] /\ N[p][k0] = M[p][k0]
    BY <1>3, <2>1
  <2> QED BY <1>2, <1>3, <2>2 DEF Ending, SameStarts
<1> HIDE DEF k0
<1>7. ASSUME NEW b \in Block, NEW i \in DOMAIN new[b]
      PROVE  /\ Executes(new[b][i], N[b][i], N[b][i + 1])
             /\ \A s \in SuccSet(new[b][i]) : N[s][1] = N[b][i]
  <2>1. SuccSet(new[b][i]) \subseteq Block
    BY <1>5, SuccBlocks
  <2>2. CASE b # p
    <3>1. new[b] = ins[b] /\ N[b] = M[b]
      BY <1>2, <2>2
    <3> QED BY <1>6, <2>1, <3>1 DEF Accounts, SameStarts
  <2>3. CASE b = p
    <3>1. i \in 1 .. k0 - 1 /\ i \in 1 .. k0 /\ i + 1 \in 1 .. k0
      BY <1>1, <1>4, <2>3
    <3>2. new[p][i] = ins[p][i] /\ N[p][i] = M[p][i] /\ N[p][i + 1] = M[p][i + 1]
      BY <1>3, <1>4, <3>1
    <3>3. i \in DOMAIN ins[p] /\ SuccSet(ins[p][i]) \subseteq Block
      BY <1>4, <2>1, <2>3, <3>1, <3>2
    <3>4. /\ Executes(ins[p][i], M[p][i], M[p][i + 1])
          /\ \A s \in SuccSet(ins[p][i]) : M[s][1] = M[p][i]
      BY <3>3 DEF Accounts
    <3>5. \A s \in SuccSet(ins[p][i]) : N[s][1] = M[s][1]
      BY <1>6, <3>3 DEF SameStarts
    <3> QED BY <2>3, <3>2, <3>4, <3>5
  <2> QED BY <2>2, <2>3
<1>8. ASSUME NEW b \in Block PROVE Len(N[b]) = Len(new[b]) + 1
  <2>1. CASE b = p
    BY <1>1, <1>3, <1>4, <2>1
  <2>2. CASE b # p
    BY <1>2, <2>2 DEF Accounts
  <2> QED BY <2>1, <2>2
<1>9. N[Entry][1] = Live(<< >>)
  BY <1>6, EntryBlock DEF SameStarts, Accounts
<1>10. Accounts(new, N)
  BY <1>5, <1>7, <1>8, <1>9 DEF Accounts
<1> QED BY <1>6, <1>10 DEF N, new

\* The account of blocks that are empty, and that nothing goes to, is free.
LEMMA Reserved ==
    ASSUME NEW ins \in [Block -> Seq(Inst)], NEW M, Accounts(ins, M), NEW B \in SUBSET Block,
           Entry \notin B, \A b \in B : ins[b] = << >>,
           \A b \in Block : \A i \in DOMAIN ins[b] : SuccSet(ins[b][i]) \cap B = {}, NEW m \in Mem
    PROVE  Accounts(ins, [b \in Block |-> IF b \in B THEN <<m>> ELSE M[b]])
<1> DEFINE N == [b \in Block |-> IF b \in B THEN <<m>> ELSE M[b]]
<1>1. /\ N \in [Block -> Seq(Mem)] /\ \A b \in B : Len(N[b]) = 1
      /\ \A b \in Block \ B : N[b] = M[b]
  BY DEF Accounts
<1> HIDE DEF N
<1>2. \A b \in B : DOMAIN ins[b] = {} /\ Len(ins[b]) = 0
  OBVIOUS
<1>3. ASSUME NEW b \in Block PROVE Len(N[b]) = Len(ins[b]) + 1
  <2>1. CASE b \in B
    <3>1. Len(N[b]) = 1 /\ Len(ins[b]) = 0
      BY <1>1, <1>2, <2>1
    <3> QED BY <3>1
  <2>2. CASE b \notin B
    BY <1>1, <2>2 DEF Accounts
  <2> QED BY <2>1, <2>2
<1>4. ASSUME NEW b \in Block, NEW i \in DOMAIN ins[b]
      PROVE  /\ Executes(ins[b][i], N[b][i], N[b][i + 1])
             /\ \A s \in SuccSet(ins[b][i]) : N[s][1] = N[b][i]
  <2>1. b \notin B
    BY <1>2
  <2>2. SuccSet(ins[b][i]) \subseteq Block \ B
    BY SuccBlocks
  <2> QED BY <1>1, <2>1, <2>2 DEF Accounts
<1>5. N[Entry][1] = Live(<< >>)
  BY <1>1, EntryBlock DEF Accounts
<1> QED BY <1>1, <1>3, <1>4, <1>5 DEF Accounts, N

-----------------------------------------------------------------------------
(* What the builder does to accounts *)

\* M is an account of f, and the memory at the insertion point is m.
Traced(f, M, m) ==
    Accounts(f.insts, M) /\ m \in Mem /\ (HasValidIP(f) => Ending(M, f.ip) = m)

\* One more instruction at the insertion point.
LEMMA InsertTraced ==
    ASSUME NEW f \in FunctionType, HasValidIP(f), NEW M, NEW m, Traced(f, M, m), NEW inst \in Inst,
           NEW n \in Mem, Executes(inst, m, n), \A s \in SuccSet(inst) : M[s][1] = m
    PROVE  \E N : /\ Accounts(Insert(f, inst).insts, N) /\ Ending(N, f.ip) = n
                  /\ SameStarts(M, N)
<1>1. f.ip \in Block /\ f.insts \in [Block -> Seq(Inst)] /\ "insts" \in DOMAIN f
      /\ Insert(f, inst).insts = [f.insts EXCEPT ![f.ip] = Append(@, inst)]
  <2>1. f.ip \in Block /\ f.insts \in [Block -> Seq(Inst)] /\ "insts" \in DOMAIN f
    BY DEF FunctionType, HasValidIP
  <2> QED BY <2>1 DEF Insert
<1>2. /\ Accounts(f.insts, M) /\ Executes(inst, Ending(M, f.ip), n)
      /\ \A s \in SuccSet(inst) : M[s][1] = Ending(M, f.ip)
  BY DEF Traced
<1> DEFINE N == [M EXCEPT ![f.ip] = Append(@, n)]
<1>3. /\ Accounts([f.insts EXCEPT ![f.ip] = Append(@, inst)], N)
      /\ Ending(N, f.ip) = n /\ SameStarts(M, N)
  BY <1>1, <1>2, Extended
<1> HIDE DEF N
<1> QED BY <1>1, <1>3

\* An instruction that is no terminator.
LEMMA EmitTraced ==
    ASSUME NEW f \in FunctionType, NEW M, NEW m, Traced(f, M, m),
           NEW op \in PlainOps, NEW name \in Name, NEW n \in Mem,
           HasValidIP(f) => Executes(Plain(op, name), m, n)
    PROVE  LET g == Emit(f, op, name)
           IN  /\ g \in FunctionType /\ g.ip = f.ip /\ g.n = f.n
               /\ \E N : Traced(g, N, n) /\ SameStarts(M, N)
<1> DEFINE inst == Plain(op, name)
           g == Emit(f, op, name)
<1>1. inst \in Inst /\ SuccSet(inst) = {}
  BY DEF Inst, SuccSet, Plain
<1>2. g = Insert(f, inst)
  BY DEF Emit
<1>3. /\ f.insts \in [Block -> Seq(Inst)] /\ f.ip \in Block \cup {NoBlock}
  BY DEF FunctionType
<1> HIDE DEF inst
<1>4. g \in FunctionType /\ g.ip = f.ip /\ g.n = f.n
  <2>1. CASE HasValidIP(f)
    <3>1. f.ip \in Block
      BY <1>3, <2>1 DEF HasValidIP
    <3>2. [f.insts EXCEPT ![f.ip] = Append(@, inst)] \in [Block -> Seq(Inst)]
      BY <1>1, <1>3, <3>1
    <3> QED BY <1>2, <2>1, <3>2 DEF Insert, FunctionType
  <2>2. CASE ~HasValidIP(f)
    BY <1>2, <2>2 DEF Insert
  <2> QED BY <2>1, <2>2
<1>5. \E N : Traced(g, N, n) /\ SameStarts(M, N)
  <2>1. CASE HasValidIP(f)
    <3>1. PICK N : Accounts(g.insts, N) /\ Ending(N, f.ip) = n /\ SameStarts(M, N)
      BY <1>1, <1>2, <2>1, InsertTraced DEF inst
    <3> QED BY <1>4, <3>1 DEF Traced
  <2>2. CASE ~HasValidIP(f)
    <3>1. g = f
      BY <1>2, <2>2 DEF Insert
    <3> QED BY <2>2, <3>1 DEF Traced, SameStarts
  <2> QED BY <2>1, <2>2
<1> QED BY <1>4, <1>5

\* A terminator, if the blocks it goes to start with the memory at hand.
LEMMA TermTraced ==
    ASSUME NEW f \in FunctionType, HasValidIP(f), NEW M, NEW m, Traced(f, M, m), NEW inst \in Inst,
           IsTerm(inst), \A s \in SuccSet(inst) : M[s][1] = m
    PROVE  LET g == Terminate(f, inst)
           IN  /\ ~HasValidIP(g) /\ g.n = f.n
               /\ \A b \in Block : b # f.ip => g.insts[b] = f.insts[b]
               /\ \E N : Accounts(g.insts, N) /\ SameStarts(M, N)
<1> DEFINE g == Terminate(f, inst)
           h == Succeed(f, inst)
<1>1. /\ f.ip \in Block /\ f.insts \in [Block -> Seq(Inst)]
      /\ h.insts = f.insts /\ h.ip = f.ip /\ h.n = f.n
  BY DEF FunctionType, HasValidIP, Succeed
<1>2. /\ g.insts = Insert(f, inst).insts /\ g.ip = NoBlock /\ g.n = f.n
      /\ g.insts = [f.insts EXCEPT ![f.ip] = Append(@, inst)]
  BY <1>1 DEF Terminate, Insert, HasValidIP, Succeed, FunctionType
<1>3. Executes(inst, m, m) /\ m \in Mem
  BY DEF Executes, IsTerm, TermOps, Needs, Traced
<1>4. \E N : Accounts(g.insts, N) /\ SameStarts(M, N)
  <2>1. Executes(inst, m, m)
    BY <1>3
  <2>2. m \in Mem
    BY <1>3
  <2>3. Accounts(f.insts, M) /\ Ending(M, f.ip) = m
    BY DEF Traced
  <2>4. PICK N : Accounts(Insert(f, inst).insts, N) /\ SameStarts(M, N)
    BY <2>1, <2>2, InsertTraced
  <2> QED BY <1>2, <2>4
<1> QED BY <1>1, <1>2, <1>4 DEF HasValidIP

\* A branch.
LEMMA JumpTraced ==
    ASSUME NEW f \in FunctionType, HasValidIP(f), NEW M, NEW m, Traced(f, M, m),
           NEW b \in Block, M[b][1] = m
    PROVE  LET g == Jump(f, b)
           IN  /\ ~HasValidIP(g) /\ g.n = f.n
               /\ \A d \in Block : d # f.ip => g.insts[d] = f.insts[d]
               /\ \E N : Accounts(g.insts, N) /\ SameStarts(M, N)
<1> DEFINE inst == [op |-> "br", id |-> NoName, succs |-> <<b>>]
<1>1. inst \in Inst /\ IsTerm(inst) /\ SuccSet(inst) = {b}
  BY StatementAssumption DEF Inst, IsTerm, TermOps, SuccSet
<1>2. Jump(f, b) = Terminate(f, inst)
  BY DEF Jump, CreateBranch
<1> HIDE DEF inst
<1> QED BY <1>1, <1>2, TermTraced

\* A block that is emitted for the first time.
LEMMA StartTraced ==
    ASSUME NEW f \in FunctionType, NEW M, NEW m, Traced(f, M, m),
           NEW b \in Block, b # f.ip, f.insts[b] = << >>, M[b][1] = m
    PROVE  LET g == Start(f, b)
           IN  g.n = f.n /\ g.ip = b /\ \E N : Traced(g, N, m) /\ SameStarts(M, N)
<1> DEFINE h == IF HasValidIP(f) THEN Jump(f, b) ELSE f
           g == Start(f, b)
<1>1. /\ h.n = f.n /\ h.insts[b] = << >>
      /\ \E N : Accounts(h.insts, N) /\ SameStarts(M, N)
  <2>1. CASE HasValidIP(f)
    BY <2>1, JumpTraced
  <2>2. CASE ~HasValidIP(f)
    BY <2>2 DEF Traced, SameStarts
  <2> QED BY <2>1, <2>2
<1>2. g = [h EXCEPT !.ip = b, !.emitted = @ \cup {b}]
  BY DEF Start, EmitBlock, Jump
<1>3. g.n = h.n /\ g.ip = b /\ g.insts = h.insts
  <2>1. /\ "n" \in DOMAIN f /\ "insts" \in DOMAIN f /\ "ip" \in DOMAIN f /\ "emitted" \in DOMAIN f
    BY DEF FunctionType
  <2>2. DOMAIN h = DOMAIN f
    BY <2>1 DEF Jump, CreateBranch, Terminate, Insert, Succeed
  <2> HIDE DEF h, g
  <2> QED BY <1>2, <2>1, <2>2
<1> HIDE DEF h, g
<1>4. PICK N : Accounts(h.insts, N) /\ SameStarts(M, N)
  BY <1>1
<1>5. Ending(N, b) = m
  <2>1. Len(N[b]) = Len(h.insts[b]) + 1 /\ N[b][1] = m
    BY <1>4 DEF Accounts, SameStarts
  <2>2. Len(h.insts[b]) = 0
    BY <1>1
  <2>3. Len(N[b]) = 1
    BY <2>1, <2>2
  <2> QED BY <2>1, <2>3 DEF Ending
<1>6. Traced(g, N, m)
  BY <1>3, <1>4, <1>5 DEF Traced
<1> QED BY <1>1, <1>3, <1>4, <1>6 DEF g

\* A new block changes no code.
LEMMA NewTraced ==
    ASSUME NEW f \in FunctionType, NEW M, NEW m, Traced(f, M, m)
    PROVE  Traced(NewBlock(f), M, m)
<1>1. /\ "n" \in DOMAIN f /\ "insts" \in DOMAIN f /\ "ip" \in DOMAIN f /\ "linked" \in DOMAIN f
  BY DEF FunctionType
<1>2. NewBlock(f).insts = f.insts /\ NewBlock(f).ip = f.ip
  BY <1>1 DEF NewBlock
<1> QED BY <1>2 DEF Traced, HasValidIP

\* An exit goes nowhere.
LEMMA ExitTraced ==
    ASSUME NEW f \in FunctionType, HasValidIP(f), NEW M, NEW m, Traced(f, M, m),
           NEW op \in {"return", "unreachable"}, NEW name \in Name
    PROVE  LET g == CreateExit(f, op, name)
           IN  /\ ~HasValidIP(g) /\ g.n = f.n
               /\ \E N : Accounts(g.insts, N) /\ SameStarts(M, N)
<1> DEFINE inst == [op |-> op, id |-> name, succs |-> << >>]
<1>1. inst \in Inst /\ IsTerm(inst) /\ SuccSet(inst) = {}
  BY DEF Inst, IsTerm, TermOps, SuccSet
<1>2. CreateExit(f, op, name) = Terminate(f, inst)
  BY DEF CreateExit
<1> HIDE DEF inst
<1> QED BY <1>1, <1>2, TermTraced

\* Lists of different variables, and their beginnings.
Scopes == {c \in Seq(Var) : IsInjective(c)}
Begin(c, n) == SubSeq(c, 1, n)

\* The beginning of a scope is one.
LEMMA BeginScope ==
    ASSUME NEW c \in Scopes, NEW n \in 0 .. Len(c)
    PROVE  /\ Begin(c, n) \in Scopes /\ Len(Begin(c, n)) = n
           /\ DOMAIN Begin(c, n) = 1 .. n /\ \A i \in 1 .. n : Begin(c, n)[i] = c[i]
           /\ ToSet(Begin(c, n)) = {c[i] : i \in 1 .. n}
<1> DEFINE r == Begin(c, n)
<1>1. /\ c \in Seq(Var) /\ DOMAIN c = 1 .. Len(c) /\ n \in 0 .. Len(c) /\ Len(c) \in Nat
      /\ \A i, j \in DOMAIN c : c[i] = c[j] => i = j
  BY DEF Scopes, IsInjective
<1>2. /\ r \in Seq(Var) /\ Len(r) = n /\ DOMAIN r = 1 .. n /\ \A i \in 1 .. n : r[i] = c[i]
  BY <1>1, BeginningOf DEF Begin
<1> HIDE DEF r
<1>3. IsInjective(r)
  <2>1. \A i \in 1 .. n : i \in DOMAIN c
    BY <1>1
  <2> QED BY <1>1, <1>2, <2>1 DEF IsInjective
<1>4. ToSet(r) = {c[i] : i \in 1 .. n}
  BY <1>2 DEF ToSet
<1> QED BY <1>2, <1>3, <1>4 DEF r, Scopes

\* A scope, its beginning, and the variable between.
LEMMA ScopeLast ==
    ASSUME NEW c \in Scopes, NEW n \in 1 .. Len(c)
    PROVE  /\ c[n] \in Var /\ c[n] \notin ToSet(Begin(c, n - 1))
           /\ ToSet(Begin(c, n)) = ToSet(Begin(c, n - 1)) \cup {c[n]}
<1>1. /\ c \in Seq(Var) /\ DOMAIN c = 1 .. Len(c) /\ Len(c) \in Nat
      /\ \A i, j \in DOMAIN c : c[i] = c[j] => i = j
  BY DEF Scopes, IsInjective
<1>2. n \in 0 .. Len(c) /\ n - 1 \in 0 .. Len(c) /\ n \in DOMAIN c
      /\ 1 .. n = (1 .. n - 1) \cup {n} /\ \A i \in 1 .. n - 1 : i \in DOMAIN c /\ i # n
  BY <1>1
<1>3. /\ ToSet(Begin(c, n)) = {c[i] : i \in 1 .. n}
      /\ ToSet(Begin(c, n - 1)) = {c[i] : i \in 1 .. n - 1}
  BY <1>2, BeginScope
<1> QED BY <1>1, <1>2, <1>3

\* Variables are names.
LEMMA VarNames == Var \subseteq Name
BY ScopeAssumption

\* Allocating and initializing a variable.
LEMMA BindTraced ==
    ASSUME NEW f \in FunctionType, NEW M, NEW c, Traced(f, M, Live(c)),
           NEW v \in Var, v \notin ToSet(c), NEW d, ToSet(d) = ToSet(c) \cup {v}
    PROVE  \E N : Traced(Emit(Emit(f, "alloc", v), "init", v), N, Live(d)) /\ SameStarts(M, N)
<1> DEFINE m == [Live(c) EXCEPT ![v] = "allocated"]
           g == Emit(f, "alloc", v)
<1>1. v \in Name /\ Live(c) \in Mem /\ Live(d) \in Mem /\ m \in Mem /\ m[v] = "allocated"
      /\ Live(c)[v] = "none" /\ Live(d) = [m EXCEPT ![v] = "initialized"]
  <2>1. Live(c)[v] = "none" /\ Live(d) = [Live(c) EXCEPT ![v] = "initialized"]
    BY DEF Live
  <2>2. v \in Name /\ Live(c) \in Mem /\ Live(d) \in Mem
    BY LiveMem, VarNames
  <2>3. m \in Mem /\ m[v] = "allocated"
    BY <2>2 DEF Mem, MemState
  <2>4. Live(d) = [m EXCEPT ![v] = "initialized"]
    BY <2>1, <2>2 DEF Mem
  <2> QED BY <2>1, <2>2, <2>3, <2>4
<1>2. /\ Executes(Plain("alloc", v), Live(c), m)
      /\ Executes(Plain("init", v), m, Live(d))
  BY <1>1 DEF Executes, Plain, Needs, Leaves
<1> HIDE DEF m
<1>3. g \in FunctionType /\ \E N : Traced(g, N, m) /\ SameStarts(M, N)
  <2>1. "alloc" \in PlainOps
    BY DEF PlainOps
  <2> QED BY <1>1, <1>2, <2>1, EmitTraced
<1>4. PICK N1 : Traced(g, N1, m) /\ SameStarts(M, N1)
  BY <1>3
<1> HIDE DEF g
<1>5. \E N : Traced(Emit(g, "init", v), N, Live(d)) /\ SameStarts(N1, N)
  BY <1>1, <1>2, <1>3, <1>4, EmitTraced DEF PlainOps
<1> QED BY <1>4, <1>5 DEF SameStarts, g

\* Destroying and deallocating a variable.
LEMMA CleanupTraced ==
    ASSUME NEW f \in FunctionType, NEW M, NEW c \in Scopes, NEW n \in 1 .. Len(c),
           Traced(f, M, Live(Begin(c, n)))
    PROVE  /\ EmitCleanup(f, c[n]) \in FunctionType /\ EmitCleanup(f, c[n]).ip = f.ip
           /\ EmitCleanup(f, c[n]).n = f.n
           /\ \E N : Traced(EmitCleanup(f, c[n]), N, Live(Begin(c, n - 1))) /\ SameStarts(M, N)
<1> DEFINE v == c[n]
           d == Begin(c, n)
           e == Begin(c, n - 1)
           m == [Live(d) EXCEPT ![v] = "destroyed"]
           g == Emit(f, "destroy", v)
<1>0. v \in Var /\ v \notin ToSet(e) /\ ToSet(d) = ToSet(e) \cup {v}
  BY ScopeLast
<1> HIDE DEF v, d, e
<1>1. v \in Name /\ Live(d) \in Mem /\ Live(e) \in Mem /\ m \in Mem /\ m[v] = "destroyed"
      /\ Live(d)[v] = "initialized" /\ Live(e) = [m EXCEPT ![v] = "none"]
  <2>1. Live(d)[v] = "initialized" /\ Live(e) = [Live(d) EXCEPT ![v] = "none"]
    BY <1>0 DEF Live
  <2>2. v \in Name /\ Live(d) \in Mem /\ Live(e) \in Mem
    BY <1>0, LiveMem, VarNames
  <2>3. m \in Mem /\ m[v] = "destroyed"
    BY <1>0, <2>2 DEF Mem, MemState
  <2>4. Live(e) = [m EXCEPT ![v] = "none"]
    <3>1. [m EXCEPT ![v] = "none"] = [Live(d) EXCEPT ![v] = "none"]
      BY <2>2 DEF Mem
    <3> QED BY <2>1, <3>1
  <2> QED BY <2>1, <2>2, <2>3, <2>4
<1>2. /\ Executes(Plain("destroy", v), Live(d), m)
      /\ Executes(Plain("dealloc", v), m, Live(e))
  BY <1>0, <1>1 DEF Executes, Plain, Needs, Leaves
<1> HIDE DEF m
<1>3. g \in FunctionType /\ g.ip = f.ip /\ g.n = f.n /\ \E N : Traced(g, N, m) /\ SameStarts(M, N)
  <2>1. "destroy" \in PlainOps /\ Traced(f, M, Live(d))
    BY DEF PlainOps, d
  <2> QED BY <1>1, <1>2, <2>1, EmitTraced
<1>4. PICK N1 : Traced(g, N1, m) /\ SameStarts(M, N1)
  BY <1>3
<1> HIDE DEF g
<1>5. /\ Emit(g, "dealloc", v) \in FunctionType /\ Emit(g, "dealloc", v).ip = g.ip
      /\ Emit(g, "dealloc", v).n = g.n
      /\ \E N : Traced(Emit(g, "dealloc", v), N, Live(e)) /\ SameStarts(N1, N)
  BY <1>1, <1>2, <1>3, <1>4, EmitTraced DEF PlainOps
<1>6. EmitCleanup(f, v) = Emit(g, "dealloc", v)
  BY DEF EmitCleanup, g
<1>7. \E N : Traced(EmitCleanup(f, v), N, Live(e)) /\ SameStarts(M, N)
  BY <1>4, <1>5, <1>6 DEF SameStarts
<1> QED BY <1>3, <1>5, <1>6, <1>7 DEF v, e

-----------------------------------------------------------------------------
(* What the visitors do to blocks, and the accounts of them *)

\* M is an account of a sound function, in which the blocks to come start with what
\* the memory is at the insertion point.
Ready(f, M, m) ==
    Sound(f) /\ Traced(f, M, m) /\ \A b \in Block : b > f.n => M[b][1] = m

\* The blocks that exist start with the same memory in both accounts.
KeepsStarts(f, M, N) == \A b \in Block : b <= f.n => N[b][1] = M[b][1]

\* The account of the blocks to come can be chosen.
LEMMA MakeReady ==
    ASSUME NEW f, Sound(f), NEW M, NEW m, Traced(f, M, m)
    PROVE  \E N : Ready(f, N, m) /\ KeepsStarts(f, M, N)
<1> DEFINE B == {b \in Block : b > f.n}
           N == [b \in Block |-> IF b \in B THEN <<m>> ELSE M[b]]
<1>1. /\ f.n \in Nat /\ f.linked \subseteq 1 .. f.n /\ f.emitted \subseteq f.linked /\ Entry \in f.emitted
      /\ f.insts \in [Block -> Seq(Inst)] /\ \A b \in Block \ f.emitted : f.insts[b] = << >>
      /\ f.ip \in f.emitted \cup {NoBlock} /\ EdgesLinked(f) /\ f.linked \subseteq Block
  BY SoundFields, MaxBlockAssumption DEF Sound, WellFormed
<1>2. /\ B \in SUBSET Block /\ Block \subseteq Nat
      /\ \A b \in f.linked : b \notin B
  BY <1>1, MaxBlockAssumption DEF Block
<1>3. Entry \notin B /\ \A b \in B : f.insts[b] = << >>
  BY <1>1, <1>2
<1>4. \A b \in Block : \A i \in DOMAIN f.insts[b] : SuccSet(f.insts[b][i]) \cap B = {}
  <2> TAKE b \in Block
  <2> TAKE i \in DOMAIN f.insts[b]
  <2>1. \A s \in SuccSet(f.insts[b][i]) : s \in Block
    BY <1>1, SuccBlocks
  <2>2. \A s \in SuccSet(f.insts[b][i]) : s \in f.linked
    BY <1>1, <2>1 DEF EdgesLinked, Edge
  <2> HIDE DEF B
  <2> QED BY <1>2, <2>2
<1>5. Accounts(f.insts, M) /\ m \in Mem
  BY DEF Traced
<1>6. Accounts(f.insts, N)
  <2> HIDE DEF B
  <2>1. B \in SUBSET Block /\ f.insts \in [Block -> Seq(Inst)] /\ m \in Mem /\ Accounts(f.insts, M)
    BY <1>1, <1>2, <1>5
  <2>2. B \in SUBSET Block
    BY <2>1
  <2>3. f.insts \in [Block -> Seq(Inst)]
    BY <2>1
  <2>4. m \in Mem
    BY <2>1
  <2>5. Accounts(f.insts, M)
    BY <2>1
  <2>6. Entry \notin B
    BY <1>3
  <2>7. \A b \in B : f.insts[b] = << >>
    BY <1>3
  <2> QED BY ONLY <1>4, <2>2, <2>3, <2>4, <2>5, <2>6, <2>7, Reserved, ZenonT(60)
<1>7. \A b \in Block : (b > f.n => N[b][1] = m) /\ (b <= f.n => N[b] = M[b])
  BY <1>1, <1>2
<1>8. HasValidIP(f) => Ending(N, f.ip) = m
  <2>1. HasValidIP(f) => f.ip \in f.linked
    BY <1>1 DEF HasValidIP
  <2>2. HasValidIP(f) => N[f.ip] = M[f.ip]
    BY <1>1, <1>2, <2>1
  <2> QED BY <2>2 DEF Ending, Traced
<1> HIDE DEF N
<1>9. Ready(f, N, m) /\ KeepsStarts(f, M, N)
  BY <1>5, <1>6, <1>7, <1>8 DEF Ready, Traced, KeepsStarts
<1> QED BY <1>9

\* A new block.
LEMMA ReadyNew ==
    ASSUME NEW f, NEW M, NEW m, Ready(f, M, m), f.n < MaxBlock
    PROVE  Ready(NewBlock(f), M, m)
<1>1. Sound(NewBlock(f)) /\ NewBlock(f).n = f.n + 1 /\ f.n \in Nat /\ f \in FunctionType
      /\ Block \subseteq Nat
  BY NewSound, SoundFields, MaxBlockAssumption DEF Ready, Block
<1>2. Traced(NewBlock(f), M, m)
  BY <1>1, NewTraced DEF Ready
<1>3. \A b \in Block : b > f.n + 1 => b > f.n
  BY <1>1
<1>4. \A b \in Block : b > NewBlock(f).n => M[b][1] = m
  BY <1>1, <1>3 DEF Ready
<1> QED BY <1>1, <1>2, <1>4 DEF Ready

\* A block that is emitted, if it starts with the memory at hand.
LEMMA ReadyStart ==
    ASSUME NEW f, NEW M, NEW m, Sound(f), Traced(f, M, m),
           NEW b \in f.linked \ f.emitted, M[b][1] = m
    PROVE  LET g == Start(f, b)
           IN  \E N : Traced(g, N, m) /\ SameStarts(M, N)
<1>1. f \in FunctionType /\ b \in Block /\ f.insts[b] = << >> /\ b # f.ip
  BY SoundFields, MaxBlockAssumption DEF NoBlock, Block
<1> QED BY <1>1, StartTraced

\* emitCondition and enterTrue.
LEMMA ReadyCondition ==
    ASSUME NEW f, NEW M, NEW m, Ready(f, M, m), HasValidIP(f), NEW cond \in Name,
           NEW hasFalse \in BOOLEAN, NEW invert \in BOOLEAN,
           f.n + (IF hasFalse THEN 3 ELSE 2) <= MaxBlock
    PROVE  LET c == CondBlocks(f, hasFalse)
               g == EnterTrue(EmitCondition(f, cond, hasFalse, invert), c)
           IN  \E N : Traced(g, N, m) /\ SameStarts(M, N)
<1> DEFINE c == CondBlocks(f, hasFalse)
           one == NewBlock(f)
           two == NewBlock(one)
           all == IF hasFalse THEN NewBlock(two) ELSE two
           otherwise == IF hasFalse THEN c.false ELSE c.cont
           yes == IF invert THEN otherwise ELSE c.true
           no == IF invert THEN c.true ELSE otherwise
           inst == [op |-> "condbr", id |-> cond, succs |-> <<yes, no>>]
           h == Terminate(all, inst)
           g == EnterTrue(EmitCondition(f, cond, hasFalse, invert), c)
<1>1. /\ f.n \in Nat /\ f.n + 2 <= MaxBlock /\ (hasFalse => f.n + 3 <= MaxBlock) /\ MaxBlock \in Nat
      /\ f.linked \subseteq 1 .. f.n /\ f.emitted \subseteq f.linked /\ f.ip \in f.emitted
  BY SoundFields, MaxBlockAssumption DEF Sound, Ready, HasValidIP
<1>2. /\ c.true = f.n + 2 /\ c.cont = f.n + 1 /\ (hasFalse => c.false = f.n + 3)
      /\ c.cont # NoBlock
  BY <1>1 DEF CondBlocks, NoBlock
<1>3. /\ {c.true, otherwise} \subseteq Block /\ c.true > f.n /\ otherwise > f.n /\ c.true # f.ip
      /\ c.true \notin f.linked
  BY <1>1, <1>2 DEF Block
<1>4. M[c.true][1] = m /\ M[otherwise][1] = m
  BY <1>3 DEF Ready
<1>5. g = Start(h, c.true)
  BY <1>2 DEF EmitCondition, CreateCondBranch, EnterTrue
<1> HIDE DEF c, g
<1>6. Ready(one, M, m) /\ one.n = f.n + 1 /\ one.ip = f.ip /\ one.emitted = f.emitted
      /\ one.linked = f.linked \cup {f.n + 1}
  <2>1. f.n < MaxBlock /\ Sound(f)
    BY <1>1 DEF Ready
  <2> QED BY <2>1, ReadyNew, NewSound
<1> HIDE DEF one
<1>7. Ready(two, M, m) /\ two.n = f.n + 2 /\ two.ip = f.ip /\ two.emitted = f.emitted
      /\ two.linked = f.linked \cup {f.n + 1, f.n + 2}
  <2>1. one.n < MaxBlock /\ one.n + 1 = f.n + 2 /\ Sound(one)
    BY <1>1, <1>6 DEF Ready
  <2>2. Ready(two, M, m)
    BY <1>6, <2>1, ReadyNew
  <2> QED BY <1>6, <2>1, <2>2, NewSound
<1> HIDE DEF two
<1>8. Ready(all, M, m) /\ all.ip = f.ip /\ all.emitted = f.emitted
      /\ {c.true, otherwise} \subseteq all.linked
  <2>1. CASE hasFalse
    <3>1. two.n < MaxBlock /\ two.n + 1 = f.n + 3 /\ Sound(two)
      BY <1>1, <1>7, <2>1 DEF Ready
    <3>2. Ready(NewBlock(two), M, m)
      BY <1>7, <3>1, ReadyNew
    <3>3. NewBlock(two).ip = f.ip /\ NewBlock(two).emitted = f.emitted
          /\ NewBlock(two).linked = two.linked \cup {f.n + 3}
      BY <1>7, <3>1, NewSound
    <3> QED BY <1>2, <1>7, <2>1, <3>2, <3>3
  <2>2. CASE ~hasFalse
    BY <1>2, <1>7, <2>2
  <2> QED BY <2>1, <2>2
<1> HIDE DEF all
<1>9. inst \in Inst /\ IsTerm(inst) /\ SuccSet(inst) = {c.true, otherwise} /\ Arity(inst)
  <2>1. yes \in Block /\ no \in Block /\ {yes, no} = {c.true, otherwise}
    BY <1>3
  <2> HIDE DEF yes, no
  <2>2. SuccSet(inst) = {yes, no}
    BY DEF SuccSet
  <2> QED BY <2>1, <2>2 DEF Inst, IsTerm, TermOps, Arity
<1> HIDE DEF inst, otherwise
<1>10. Sound(h) /\ h.linked = all.linked /\ h.emitted = all.emitted
  BY <1>8, <1>9, TerminateSound DEF HasValidIP, Ready
<1>11. PICK N1 : Accounts(h.insts, N1) /\ SameStarts(M, N1)
  <2>1. all \in FunctionType /\ HasValidIP(all) /\ Traced(all, M, m)
    BY <1>8, SoundFields DEF HasValidIP, Ready
  <2>2. \A s \in SuccSet(inst) : M[s][1] = m
    BY <1>4, <1>9
  <2> QED BY <1>9, <2>1, <2>2, TermTraced
<1>12. ~HasValidIP(h) /\ m \in Mem
  BY <1>8, <1>9, TerminateSound DEF HasValidIP, Ready, Traced
<1>13. Traced(h, N1, m)
  BY <1>11, <1>12 DEF Traced
<1> HIDE DEF h
<1>14. c.true \in h.linked \ h.emitted /\ N1[c.true][1] = m
  <2>1. c.true \in Block
    BY <1>3
  <2>2. c.true \notin f.emitted
    BY <1>1, <1>3
  <2> QED BY <1>4, <1>8, <1>10, <1>11, <2>1, <2>2 DEF SameStarts
<1>15. PICK N : Traced(Start(h, c.true), N, m) /\ SameStarts(N1, N)
  BY <1>10, <1>13, <1>14, ReadyStart
<1>16. SameStarts(M, N)
  BY <1>11, <1>15 DEF SameStarts
<1> QED BY <1>5, <1>15, <1>16 DEF g, c

\* The head of a loop.
LEMMA ReadyHead ==
    ASSUME NEW M, NEW m, Ready(fn, M, m), NEW n \in {1, 2}, fn.n + n + 1 <= MaxBlock
    PROVE  \E N : Ready(LoopHead(n), N, m) /\ SameStarts(M, N)
<1> DEFINE loop == fn.n + 1
           one == NewBlock(fn)
           two == Start(one, loop)
           three == NewBlock(two)
<1>1. /\ Sound(fn) /\ fn.n \in Nat /\ fn.linked \subseteq 1 .. fn.n /\ fn.emitted \subseteq fn.linked
      /\ fn.n < MaxBlock /\ fn.n + 1 < MaxBlock /\ Block \subseteq Nat /\ loop \in Block /\ loop > fn.n
  BY SoundFields, MaxBlockAssumption DEF Sound, Ready, Block
<1>2. /\ Ready(one, M, m) /\ one.n = loop /\ one.linked = fn.linked \cup {loop}
      /\ one.emitted = fn.emitted
  BY <1>1, ReadyNew, NewSound
<1>3. M[loop][1] = m
  BY <1>1 DEF Ready
<1> HIDE DEF one
<1>4. loop \in one.linked \ one.emitted
  BY <1>1, <1>2
<1>5. PICK N : Traced(two, N, m) /\ SameStarts(M, N)
  BY <1>2, <1>3, <1>4, ReadyStart DEF Ready
<1>6. /\ Sound(two) /\ two.n = loop
  BY <1>2, <1>4, StartSound DEF Ready
<1> HIDE DEF two
<1>7. Ready(two, N, m)
  <2>1. ASSUME NEW b \in Block, b > loop PROVE b > fn.n
    <3>1. b \in Nat /\ fn.n \in Nat
      BY <1>1
    <3> QED BY <2>1, <3>1
  <2>2. \A b \in Block : b > two.n => N[b][1] = m
    BY <1>2, <1>5, <1>6, <2>1 DEF Ready, SameStarts
  <2> QED BY <1>5, <1>6, <2>2 DEF Ready
<1>8. Ready(three, N, m) /\ three.n = loop + 1
  <2>1. Sound(two) /\ two.n < MaxBlock
    BY <1>1, <1>6
  <2> QED BY <1>6, <1>7, <2>1, ReadyNew, NewSound
<1> HIDE DEF three
<1>9. CASE n = 1
  <2>1. LoopHead(n) = three
    BY <1>9 DEF LoopHead, NextBlock, one, two, three
  <2> QED BY <1>5, <1>8, <2>1
<1>10. CASE n = 2
  <2>1. LoopHead(n) = NewBlock(three)
    BY <1>10 DEF LoopHead, NextBlock, one, two, three
  <2>2. three.n < MaxBlock
    BY <1>1, <1>8, <1>10, MaxBlockAssumption
  <2>3. Ready(NewBlock(three), N, m)
    BY <1>8, <2>2, ReadyNew
  <2> QED BY <1>5, <2>1, <2>3
<1> QED BY <1>9, <1>10

\* A block that is erased was empty.
LEMMA EraseTraced ==
    ASSUME NEW f \in FunctionType, NEW M, NEW m, Traced(f, M, m), NEW b
    PROVE  Traced(EraseBlock(f, b), M, m)
<1>1. EraseBlock(f, b).insts = f.insts /\ EraseBlock(f, b).ip = f.ip
  BY DEF EraseBlock, FunctionType
<1> QED BY <1>1 DEF Traced, HasValidIP

\* A pending block is emitted or erased.
LEMMA EmitOrDeleteTraced ==
    ASSUME NEW f, Sound(f), NEW M, NEW m, Traced(f, M, m), NEW b \in Pending(f), M[b][1] = m
    PROVE  \E N : Traced(EmitOrDelete(f, b), N, m) /\ SameStarts(M, N)
<1>1. b \in f.linked \ f.emitted /\ f \in FunctionType
  BY SoundFields DEF Pending
<1>2. Traced(EraseBlock(f, b), M, m) /\ SameStarts(M, M)
  BY <1>1, EraseTraced DEF SameStarts
<1>3. \E N : Traced(Start(f, b), N, m) /\ SameStarts(M, N)
  BY <1>1, ReadyStart
<1> QED BY <1>2, <1>3 DEF EmitOrDelete

\* Zapping a branch goes back to where the memory is what its target starts with.
LEMMA ZapTraced ==
    ASSUME NEW f, Sound(f), NEW M, NEW m, Traced(f, M, m), ~HasValidIP(f),
           NEW c \in Block, OneJump(f, c), ~PredEmpty(f, c), M[c][1] = m
    PROVE  LET p == Head(f.preds[c])
               g == [EraseTerminator(f, p) EXCEPT !.ip = p]
           IN  \E N : Traced(g, N, m) /\ SameStarts(M, N)
<1> DEFINE p == Head(f.preds[c])
           g == [EraseTerminator(f, p) EXCEPT !.ip = p]
           k0 == Len(f.insts[p])
           N == [M EXCEPT ![p] = SubSeq(@, 1, Len(@) - 1)]
<1>1. p \in Block /\ JumpsTo(f, p, c)
  BY DEF OneJump
<1>2. f \in FunctionType /\ f.insts \in [Block -> Seq(Inst)]
  BY SoundFields
<1> HIDE DEF p
<1>3. g.ip = p /\ g.insts = [f.insts EXCEPT ![p] = SubSeq(@, 1, Len(@) - 1)]
  <2> DEFINE h == EraseTerminator(f, p)
             new == [f.insts EXCEPT ![p] = SubSeq(@, 1, Len(@) - 1)]
  <2>1. /\ DOMAIN f = {"n", "linked", "emitted", "insts", "preds", "ip"}
    BY <1>2 DEF FunctionType
  <2>2. h.insts = new /\ DOMAIN h = DOMAIN f
    BY <2>1 DEF EraseTerminator
  <2>3. g = [h EXCEPT !.ip = p]
    BY DEF p
  <2> HIDE DEF h, new, g
  <2>4. g.ip = p /\ g.insts = h.insts
    BY <2>1, <2>2, <2>3
  <2> QED BY <2>2, <2>4 DEF new
<1> HIDE DEF g
<1>4. f.insts[p] # << >> /\ Accounts(f.insts, M) /\ m \in Mem
  BY <1>1 DEF JumpsTo, Traced
<1>5. Accounts(g.insts, N) /\ Ending(N, p) = M[p][k0] /\ SameStarts(M, N)
  <2>1. /\ Accounts([f.insts EXCEPT ![p] = SubSeq(@, 1, Len(@) - 1)], N)
        /\ Ending(N, p) = M[p][Len(f.insts[p])] /\ SameStarts(M, N)
    BY <1>1, <1>2, <1>4, Shortened
  <2> HIDE DEF N
  <2> QED BY <1>3, <2>1
<1> HIDE DEF N
<1>6. M[p][k0] = m
  <2>1. k0 \in DOMAIN f.insts[p]
    BY <1>1, <1>2, <1>4
  <2>2. c \in SuccSet(f.insts[p][k0])
    BY <1>1 DEF JumpsTo, SuccSet
  <2> QED BY <1>1, <1>4, <2>1, <2>2 DEF Accounts
<1>7. Traced(g, N, m)
  BY <1>3, <1>4, <1>5, <1>6 DEF Traced
<1> QED BY <1>5, <1>7 DEF g, p

-----------------------------------------------------------------------------
(* The scopes of the frames *)

\* Scope d is the beginning of scope c.
Below(d, c) == Len(d) <= Len(c) /\ \A i \in DOMAIN d : d[i] = c[i]

\* Nothing that s declares is in scope c.
May(s, c) == Declares[s] \cap ToSet(c) = {}

\* The frame binds these variables.
Binds(fr) == fr.op = "bind" \/ (fr.op = "visit" /\ fr.stmt.kind = "var")
Bound(fr) == IF fr.op = "bind" THEN fr.vars ELSE fr.stmt.vars

\* Scope d is that of frame nx, which comes after fr, whose scope is c.  The
\* variables of a brace are of no concern to the frame that will pop them.
After(fr, nx, c, d) ==
    IF Binds(fr) THEN d = c \o Bound(fr)
    ELSE IF fr.op = "endScope" THEN d = Begin(c, fr.depth)
    ELSE IF fr.op = "brace" THEN /\ nx.op = "endScope" /\ nx.depth \in 0 .. Len(c) /\ nx.depth <= Len(d)
                                 /\ Begin(c, nx.depth) = Begin(d, nx.depth)
    ELSE d = c

\* The elements of a brace that are left declare nothing that will be in scope.
RestFits(rest, c) ==
    /\ \A i \in DOMAIN rest : May(rest[i], c)
    /\ \A i, j \in DOMAIN rest : i < j /\ rest[i].kind = "var"
                                    => ToSet(rest[i].vars) \cap Declares[rest[j]] = {}

\* What frame fr asks of its scope c: that what it will declare is not in it, and
\* that the blocks it will emit, or go back to, start with the variables in it.
FrameScope(fr, c, M) ==
    /\ fr.op = "bind" => c \o fr.vars \in Scopes
    /\ fr.op = "visit" => May(fr.stmt, c)
    /\ fr.op = "brace" => RestFits(fr.rest, c)
    /\ fr.op = "endScope" => fr.depth <= Len(c)
    /\ fr.op = "ifTrueExit" /\ fr.cond.false # NoBlock => fr.else.kind # "var" /\ May(fr.else, c)
    /\ fr.op = "forHead" => May(fr.stmt.body, c)
    /\ fr.op = "forEachHead" => c \o fr.stmt.elem \in Scopes /\ May(fr.stmt.body, c \o fr.stmt.elem)
    /\ \A b \in Owned(fr) : M[b][1] = Live(c)
    /\ fr.op \in {"loopBack", "doCondition"} => M[fr.loop][1] = Live(c)

\* A break and a continue leave the memory of the scope their loop was opened in.
DestScope(t, sc, b, d, M, n) ==
    /\ b.depth = d.depth /\ d.block \in 1 .. n
    /\ \A e \in DOMAIN t : EndsAt(t, e, b.block) => b.depth = Len(sc[e]) /\ M[d.block][1] = Live(sc[e])

\* The frames of stack t have the scopes sc, the first of which is c.
ScopesOf(t, sc, c) ==
    /\ sc \in [DOMAIN t -> Scopes] /\ c \in Scopes
    /\ t # << >> => sc[1] = c
    /\ \A i \in DOMAIN t : i + 1 \in DOMAIN t => After(t[i], t[i + 1], sc[i], sc[i + 1])
    /\ \A i, j \in DOMAIN t : i <= j /\ EndsLoop(t[j]) => Below(sc[j], sc[i])

\* These scopes and the account M are what the frames and the destinations ask for.
MemFits(t, f, c, bd, cd, M, sc) ==
    /\ ScopesOf(t, sc, c)
    /\ \A i \in DOMAIN t : FrameScope(t[i], sc[i], M)
    /\ \A j \in DOMAIN bd : DestScope(t, sc, bd[j], cd[j], M, f.n)

\* A branch being emitted has popped the variables above top in its account, and will
\* pop those above the depth of its destination.
BranchScope(t, c, M) ==
    t # << >> /\ t[1].op = "branch" =>
        /\ t[1].dest.depth <= t[1].top
        /\ M[t[1].dest.block][1] = Live(Begin(c, t[1].dest.depth))

\* The memory at the insertion point.
Here(t, c) == IF t # << >> /\ t[1].op = "branch" THEN Live(Begin(c, t[1].top)) ELSE Live(c)

\* The inductive invariant of the memory: there is an account of the code, with
\* scopes for the frames of the stack.
MemInv ==
    \E M, sc : /\ MemFits(todo, fn, cleanups, breakDests, continueDests, M, sc)
               /\ Traced(fn, M, Here(todo, cleanups)) /\ BranchScope(todo, cleanups, M)

-----------------------------------------------------------------------------
\* Beginnings of scopes.
LEMMA BelowScopes ==
    /\ \A c \in Scopes : Below(c, c)
    /\ \A b, c, d \in Scopes : Below(b, c) /\ Below(c, d) => Below(b, d)
    /\ \A d, c \in Scopes : Below(d, c) => Len(d) \in 0 .. Len(c) /\ Begin(c, Len(d)) = d
<1>1. \A c \in Scopes : c \in Seq(Var) /\ Len(c) \in Nat /\ DOMAIN c = 1 .. Len(c)
  BY DEF Scopes
<1>2. \A c \in Scopes : Below(c, c)
  BY <1>1 DEF Below
<1>3. ASSUME NEW b \in Scopes, NEW c \in Scopes, NEW d \in Scopes, Below(b, c), Below(c, d)
      PROVE  Below(b, d)
  <2>1. Len(b) <= Len(d)
    BY <1>1, <1>3 DEF Below
  <2>2. \A i \in DOMAIN b : i \in DOMAIN c
    BY <1>1, <1>3 DEF Below
  <2> QED BY <1>3, <2>1, <2>2 DEF Below
<1>4. ASSUME NEW d \in Scopes, NEW c \in Scopes, Below(d, c)
      PROVE  Len(d) \in 0 .. Len(c) /\ Begin(c, Len(d)) = d
  <2>1. Len(d) \in 0 .. Len(c) /\ DOMAIN d = 1 .. Len(d) /\ d \in Seq(Var)
    BY <1>1, <1>4 DEF Below
  <2> DEFINE r == Begin(c, Len(d))
  <2>2. r \in Scopes /\ Len(r) = Len(d) /\ \A i \in 1 .. Len(d) : r[i] = c[i]
    BY <2>1, BeginScope
  <2>3. r \in Seq(Var)
    BY <1>1, <2>2
  <2> HIDE DEF r
  <2>4. r = d
    BY <1>4, <2>1, <2>2, <2>3, SeqEqual DEF Below
  <2> QED BY <2>1, <2>4 DEF r
<1> QED BY <1>2, <1>3, <1>4

\* A scope with more variables in it.
LEMMA MoreScope ==
    ASSUME NEW c \in Scopes, NEW vs \in Seq(Var), IsInjective(vs), ToSet(vs) \cap ToSet(c) = {}
    PROVE  LET d == c \o vs
           IN  /\ d \in Scopes /\ ToSet(d) = ToSet(c) \cup ToSet(vs) /\ Below(c, d)
               /\ \A n \in 0 .. Len(c) : Begin(d, n) = Begin(c, n) /\ n <= Len(d)
<1> DEFINE d == c \o vs
           k0 == Len(c)
<1>1. /\ c \in Seq(Var) /\ k0 \in Nat /\ DOMAIN c = 1 .. k0 /\ Len(vs) \in Nat /\ DOMAIN vs = 1 .. Len(vs)
      /\ \A i, j \in DOMAIN c : c[i] = c[j] => i = j
      /\ \A i, j \in DOMAIN vs : vs[i] = vs[j] => i = j
  BY DEF Scopes, IsInjective
<1>2. /\ d \in Seq(Var) /\ Len(d) = k0 + Len(vs) /\ DOMAIN d = 1 .. k0 + Len(vs)
      /\ \A i \in 1 .. k0 : d[i] = c[i]
      /\ \A i \in k0 + 1 .. k0 + Len(vs) : d[i] = vs[i - k0] /\ i - k0 \in DOMAIN vs
  BY <1>1
<1>3. \A i \in DOMAIN vs : i + k0 \in k0 + 1 .. k0 + Len(vs) /\ (i + k0) - k0 = i
  BY <1>1
<1>4. \A i \in DOMAIN d : i \in 1 .. k0 \/ i \in k0 + 1 .. k0 + Len(vs)
  BY <1>1, <1>2
<1> HIDE DEF d
<1>5. \A i \in DOMAIN vs : d[i + k0] = vs[i] /\ i + k0 \in DOMAIN d
  BY <1>1, <1>2, <1>3
<1>6. ToSet(d) = ToSet(c) \cup ToSet(vs)
  <2>1. \A i \in 1 .. k0 : i \in DOMAIN d
    BY <1>1, <1>2
  <2>2. ASSUME NEW x \in ToSet(d) PROVE x \in ToSet(c) \cup ToSet(vs)
    <3>1. PICK i \in DOMAIN d : d[i] = x
      BY DEF ToSet
    <3>2. CASE i \in 1 .. k0
      BY <1>1, <1>2, <3>1, <3>2 DEF ToSet
    <3>3. CASE i \in k0 + 1 .. k0 + Len(vs)
      BY <1>2, <3>1, <3>3 DEF ToSet
    <3> QED BY <1>4, <3>2, <3>3
  <2>3. ASSUME NEW x \in ToSet(c) \cup ToSet(vs) PROVE x \in ToSet(d)
    <3>1. CASE x \in ToSet(c)
      BY <1>1, <1>2, <2>1, <3>1 DEF ToSet
    <3>2. CASE x \in ToSet(vs)
      BY <1>5, <3>2 DEF ToSet
    <3> QED BY <3>1, <3>2
  <2> QED BY <2>2, <2>3
<1>7. ASSUME NEW i \in DOMAIN d, NEW j \in DOMAIN d, d[i] = d[j] PROVE i = j
  <2>1. \A a \in 1 .. k0 : c[a] \in ToSet(c)
    BY <1>1 DEF ToSet
  <2>2. \A a \in DOMAIN vs : vs[a] \in ToSet(vs)
    BY DEF ToSet
  <2>3. CASE i \in 1 .. k0 /\ j \in 1 .. k0
    BY <1>1, <1>2, <1>7, <2>3
  <2>4. CASE i \in k0 + 1 .. k0 + Len(vs) /\ j \in k0 + 1 .. k0 + Len(vs)
    <3>1. i - k0 = j - k0
      <4>1. /\ i - k0 \in DOMAIN vs /\ j - k0 \in DOMAIN vs
            /\ d[i] = vs[i - k0] /\ d[j] = vs[j - k0]
        BY <1>2, <2>4
      <4> QED BY <1>1, <1>7, <4>1
    <3> QED BY <1>1, <2>4, <3>1
  <2>5. CASE i \in 1 .. k0 /\ j \in k0 + 1 .. k0 + Len(vs)
    BY <1>2, <1>7, <2>1, <2>2, <2>5
  <2>6. CASE j \in 1 .. k0 /\ i \in k0 + 1 .. k0 + Len(vs)
    BY <1>2, <1>7, <2>1, <2>2, <2>6
  <2> QED BY <1>4, <2>3, <2>4, <2>5, <2>6
<1>8. d \in Scopes
  BY <1>2, <1>7 DEF Scopes, IsInjective
<1>9. Below(c, d)
  BY <1>1, <1>2 DEF Below
<1>10. ASSUME NEW n \in 0 .. k0 PROVE Begin(d, n) = Begin(c, n) /\ n <= Len(d)
  <2>1. n \in 0 .. Len(d) /\ n \in Nat /\ n <= Len(d) /\ 1 .. n \subseteq 1 .. k0
    BY <1>1, <1>2
  <2> DEFINE r == Begin(d, n)
             q == Begin(c, n)
  <2>2. /\ r \in Scopes /\ Len(r) = n /\ \A i \in 1 .. n : r[i] = d[i]
        /\ q \in Scopes /\ Len(q) = n /\ \A i \in 1 .. n : q[i] = c[i]
    BY <1>8, <2>1, BeginScope
  <2>3. r \in Seq(Var) /\ q \in Seq(Var)
    BY <2>2 DEF Scopes
  <2> HIDE DEF r, q
  <2>4. r = q
    BY <1>2, <2>1, <2>2, <2>3, SeqEqual
  <2> QED BY <2>1, <2>4 DEF r, q
<1> QED BY <1>6, <1>8, <1>9, <1>10 DEF d

\* A frame keeps its scope while the blocks that exist start with the same memory.
LEMMA FrameScopeKept ==
    ASSUME NEW f, Sound(f), NEW fr, FrameFits(fr, f), Owned(fr) \subseteq Pending(f),
           NEW c, NEW M, NEW N, KeepsStarts(f, M, N), FrameScope(fr, c, M)
    PROVE  FrameScope(fr, c, N)
<1>1. /\ f.linked \subseteq Block /\ f.linked \subseteq 1 .. f.n /\ f.emitted \subseteq f.linked
      /\ f.n \in Nat
  BY SoundFields, MaxBlockAssumption DEF Sound
<1>2. \A b \in f.linked : N[b][1] = M[b][1]
  BY <1>1 DEF KeepsStarts
<1>3. \A b \in Owned(fr) : N[b][1] = M[b][1]
  BY <1>1, <1>2 DEF Pending
<1>4. fr.op \in {"loopBack", "doCondition"} => N[fr.loop][1] = M[fr.loop][1]
  BY <1>1, <1>2 DEF FrameFits
<1> QED BY <1>3, <1>4 DEF FrameScope

\* The frames fs, with the scopes cs, can replace the first frame of t, whose scope
\* is c: d is the scope of the frame that is then first.
Refits(t, fs, c, sc, d, cs, N) ==
    /\ d \in Scopes /\ cs \in [DOMAIN fs -> Scopes]
    /\ fs # << >> => cs[1] = d
    /\ fs = << >> /\ 2 \in DOMAIN t => sc[2] = d
    /\ \A i \in DOMAIN fs : FrameScope(fs[i], cs[i], N) /\ Below(c, cs[i])
    /\ \A i \in DOMAIN fs : EndsLoop(fs[i]) => cs[i] = c
    /\ \A i \in DOMAIN fs : i + 1 \in DOMAIN fs => After(fs[i], fs[i + 1], cs[i], cs[i + 1])
    /\ fs # << >> => \A nx, e : After(t[1], nx, c, e) => After(fs[Len(fs)], nx, cs[Len(fs)], e)

\* The destinations bdn and cdn are those there were or those of a new loop.
Redirects(t, f, fs, c, bd, cd, bdn, cdn, g, N) ==
    \A j \in DOMAIN bdn :
       \/ /\ j \in DOMAIN bd /\ j \in DOMAIN cd /\ bdn[j] = bd[j] /\ cdn[j] = cd[j]
          /\ \A i \in DOMAIN fs : EndsAt(fs, i, bdn[j].block) => EndsAt(t, 1, bdn[j].block)
       \/ /\ bdn[j].block \notin f.linked /\ bdn[j].depth = Len(c) /\ cdn[j].depth = Len(c)
          /\ cdn[j].block \in 1 .. g.n /\ N[cdn[j].block][1] = Live(c)

\* Replacing the first frame.
LEMMA MemReplaced ==
    ASSUME NEW t, NEW f, StackFits(t, f), Sound(f), NEW fs, NEW u, Replaces(t, fs, u),
           NEW c, NEW bd, NEW cd \in Seq(Dests), NEW M, NEW sc, MemFits(t, f, c, bd, cd, M, sc),
           NEW g, f.n <= g.n, g.n \in Nat, NEW N, KeepsStarts(f, M, N),
           NEW d, NEW cs, Refits(t, fs, c, sc, d, cs, N),
           NEW bdn, NEW cdn, Redirects(t, f, fs, c, bd, cd, bdn, cdn, g, N)
    PROVE  \E sd : MemFits(u, g, d, bdn, cdn, N, sd)
<1> DEFINE m == Len(fs)
           sd == [i \in DOMAIN u |-> IF i <= m THEN cs[i] ELSE sc[i - m + 1]]
<1>0. /\ d \in Scopes /\ cs \in [DOMAIN fs -> Scopes]
      /\ fs # << >> => cs[1] = d
      /\ fs = << >> /\ 2 \in DOMAIN t => sc[2] = d
      /\ \A i \in DOMAIN fs : FrameScope(fs[i], cs[i], N) /\ Below(c, cs[i])
      /\ \A i \in DOMAIN fs : EndsLoop(fs[i]) => cs[i] = c
      /\ \A i \in DOMAIN fs : i + 1 \in DOMAIN fs => After(fs[i], fs[i + 1], cs[i], cs[i + 1])
      /\ fs # << >> => \A nx, e : After(t[1], nx, c, e) => After(fs[Len(fs)], nx, cs[Len(fs)], e)
  <2> HIDE DEF m, sd
  <2> QED BY DEF Refits
<1> USE <1>0
<1>1. /\ m \in Nat /\ Len(t) \in Nat \ {0} /\ Len(u) = m + Len(t) - 1
      /\ DOMAIN t = 1 .. Len(t) /\ DOMAIN u = 1 .. Len(u) /\ DOMAIN fs = 1 .. m
      /\ \A i \in 1 .. m : i \in DOMAIN u /\ u[i] = fs[i]
      /\ \A i \in DOMAIN u : i > m => /\ i - m + 1 \in DOMAIN t /\ i - m + 1 # 1
                                      /\ u[i] = t[i - m + 1]
  BY ReplacedAt
<1>2. /\ sc \in [DOMAIN t -> Scopes] /\ 1 \in DOMAIN t /\ sc[1] = c /\ c \in Scopes /\ t # << >>
      /\ \A i \in DOMAIN t : FrameScope(t[i], sc[i], M) /\ FrameFits(t[i], f)
                             /\ Owned(t[i]) \subseteq Pending(f)
      /\ \A i \in DOMAIN t : i + 1 \in DOMAIN t => After(t[i], t[i + 1], sc[i], sc[i + 1])
      /\ \A i, j \in DOMAIN t : i <= j /\ EndsLoop(t[j]) => Below(sc[j], sc[i])
  <2>1. 1 \in DOMAIN t /\ t # << >>
    BY <1>1
  <2>2. ScopesOf(t, sc, c) /\ \A i \in DOMAIN t : FrameScope(t[i], sc[i], M)
    BY DEF MemFits
  <2>3. FramesFit(t, f) /\ Ownership(t, f)
    BY DEF StackFits
  <2>4. \A i \in DOMAIN t : FrameFits(t[i], f)
    BY <2>3 DEF FramesFit
  <2>5. \A i \in DOMAIN t : Owned(t[i]) \subseteq Pending(f)
    BY <2>3 DEF Ownership
  <2> QED BY <2>1, <2>2, <2>4, <2>5 DEF ScopesOf
<1>3. \A i \in DOMAIN u : \/ i \in DOMAIN fs /\ u[i] = fs[i] /\ sd[i] = cs[i] /\ i <= m
                          \/ /\ i > m /\ i - m + 1 \in DOMAIN t /\ i - m + 1 # 1
                             /\ u[i] = t[i - m + 1] /\ sd[i] = sc[i - m + 1]
  <2> TAKE i \in DOMAIN u
  <2>1. CASE i <= m
    <3>1. i \in 1 .. m
      BY <1>1, <2>1
    <3> QED BY <1>1, <2>1, <3>1
  <2>2. CASE ~(i <= m)
    <3>1. i > m
      BY <1>1, <2>2
    <3> QED BY <1>1, <2>2, <3>1
  <2> QED BY <2>1, <2>2
<1>4. sd \in [DOMAIN u -> Scopes]
  <2>1. \A i \in DOMAIN u : sd[i] \in Scopes
    <3> HIDE DEF sd
    <3> QED BY <1>2, <1>3
  <2> QED BY <2>1
<1> HIDE DEF sd
<1>5. ASSUME u # << >> PROVE sd[1] = d
  <2>1. 1 \in DOMAIN u
    BY <1>5 DEF Replaces
  <2>2. CASE 1 \in DOMAIN fs /\ sd[1] = cs[1]
    <3>1. fs # << >>
      BY <2>2
    <3> QED BY <2>2, <3>1
  <2>3. CASE 1 > m /\ 1 - m + 1 \in DOMAIN t /\ sd[1] = sc[1 - m + 1]
    <3>1. m = 0 /\ 1 - m + 1 = 2 /\ 1 + 1 = 2
      BY <1>1, <2>3
    <3>2. fs = << >>
      BY <3>1 DEF Replaces
    <3> QED BY <2>3, <3>1, <3>2
  <2> QED BY <1>3, <2>1, <2>2, <2>3
<1>6. ASSUME NEW i \in DOMAIN u PROVE FrameScope(u[i], sd[i], N)
  <2>1. \A j \in DOMAIN t : FrameScope(t[j], sc[j], N)
    BY <1>2, FrameScopeKept
  <2> QED BY <1>3, <2>1
<1>7. ASSUME NEW i \in DOMAIN u, i + 1 \in DOMAIN u PROVE After(u[i], u[i + 1], sd[i], sd[i + 1])
  <2>0. i \in Nat
    BY <1>1
  <2>1. CASE i > m
    <3>1. i + 1 > m /\ (i + 1) - m + 1 = (i - m + 1) + 1 /\ ~(i <= m) /\ ~(i + 1 <= m)
      BY <1>1, <2>0, <2>1
    <3>2. /\ i - m + 1 \in DOMAIN t /\ u[i] = t[i - m + 1] /\ sd[i] = sc[i - m + 1]
          /\ (i + 1) - m + 1 \in DOMAIN t
          /\ u[i + 1] = t[(i + 1) - m + 1] /\ sd[i + 1] = sc[(i + 1) - m + 1]
      BY <1>3, <1>7, <2>1, <3>1
    <3>3. /\ (i - m + 1) + 1 \in DOMAIN t
          /\ u[i + 1] = t[(i - m + 1) + 1] /\ sd[i + 1] = sc[(i - m + 1) + 1]
      BY <3>1, <3>2
    <3> QED BY <1>2, <3>2, <3>3
  <2>2. CASE i < m
    <3>1. i + 1 <= m /\ ~(i > m) /\ ~(i + 1 > m) /\ i \in 1 .. m /\ i + 1 \in 1 .. m
      BY <1>1, <2>0, <2>2
    <3> QED BY <1>1, <1>3, <1>7, <3>1
  <2>3. CASE i = m
    <3>1. ~(i > m) /\ i + 1 > m /\ (i + 1) - m + 1 = 2 /\ 1 + 1 = 2
      BY <1>1, <2>0, <2>3
    <3>2. u[i] = fs[m] /\ sd[i] = cs[m] /\ fs # << >> /\ 2 \in DOMAIN t
          /\ u[i + 1] = t[2] /\ sd[i + 1] = sc[2]
      BY <1>3, <1>7, <2>3, <3>1
    <3>3. After(t[1], t[2], c, sc[2])
      BY <1>2, <3>1, <3>2
    <3> QED BY <3>2, <3>3
  <2> QED BY <1>1, <2>0, <2>1, <2>2, <2>3
<1>8. ASSUME NEW i \in DOMAIN u, NEW j \in DOMAIN u, i <= j, EndsLoop(u[j]) PROVE Below(sd[j], sd[i])
  <2>0. i \in Nat /\ j \in Nat
    BY <1>1
  <2>1. CASE i > m
    <3>1. j > m /\ i - m + 1 <= j - m + 1 /\ ~(i <= m) /\ ~(j <= m)
      BY <1>1, <1>8, <2>0, <2>1, SMTT(30)
    <3> QED BY <1>2, <1>3, <1>8, <3>1
  <2>2. CASE ~(i > m)
    <3>1. i \in DOMAIN fs /\ sd[i] = cs[i] /\ cs[i] \in Scopes /\ Below(c, cs[i])
      BY <1>3, <2>2
    <3>2. Below(sd[j], c) /\ sd[j] \in Scopes
      <4>1. CASE j \in DOMAIN fs /\ u[j] = fs[j] /\ sd[j] = cs[j]
        BY <1>2, <1>8, <4>1, BelowScopes
      <4>2. CASE j - m + 1 \in DOMAIN t /\ u[j] = t[j - m + 1] /\ sd[j] = sc[j - m + 1]
        <5>1. 1 <= j - m + 1
          BY <1>1, <4>2
        <5> QED BY <1>2, <1>8, <4>2, <5>1
      <4> QED BY <1>3, <4>1, <4>2
    <3> QED BY <1>2, <3>1, <3>2, BelowScopes
  <2> QED BY <2>1, <2>2
<1>9. ASSUME NEW j \in DOMAIN bdn PROVE DestScope(u, sd, bdn[j], cdn[j], N, g.n)
  <2>1. CASE /\ j \in DOMAIN bd /\ j \in DOMAIN cd /\ bdn[j] = bd[j] /\ cdn[j] = cd[j]
             /\ \A i \in DOMAIN fs : EndsAt(fs, i, bdn[j].block) => EndsAt(t, 1, bdn[j].block)
    <3>1. DestScope(t, sc, bd[j], cd[j], M, f.n)
      BY <2>1 DEF MemFits
    <3>2. /\ bdn[j].depth = cdn[j].depth /\ cdn[j].block \in 1 .. f.n
          /\ \A e \in DOMAIN t : EndsAt(t, e, bdn[j].block)
                                    => bdn[j].depth = Len(sc[e]) /\ M[cdn[j].block][1] = Live(sc[e])
      BY <2>1, <3>1 DEF DestScope
    <3>3. cdn[j].block \in Block /\ cdn[j].block <= f.n /\ cdn[j].block \in 1 .. g.n
      <4>1. cdn[j].block \in Block
        <5>1. cd[j] \in Dests
          BY <2>1
        <5> QED BY <2>1, <5>1 DEF Dests
      <4>2. f.n \in Nat
        BY SoundFields, MaxBlockAssumption
      <4> QED BY <3>2, <4>1, <4>2
    <3>4. N[cdn[j].block][1] = M[cdn[j].block][1]
      BY <3>3 DEF KeepsStarts
    <3>5. ASSUME NEW e \in DOMAIN u, EndsAt(u, e, bdn[j].block)
          PROVE  bdn[j].depth = Len(sd[e]) /\ N[cdn[j].block][1] = Live(sd[e])
      <4>1. CASE e \in DOMAIN fs /\ u[e] = fs[e] /\ sd[e] = cs[e]
        <5>1. EndsAt(fs, e, bdn[j].block) /\ EndsLoop(fs[e])
          BY <3>5, <4>1 DEF EndsAt
        <5> QED BY <1>2, <2>1, <3>2, <3>4, <4>1, <5>1
      <4>2. CASE e - m + 1 \in DOMAIN t /\ u[e] = t[e - m + 1] /\ sd[e] = sc[e - m + 1]
        <5>1. EndsAt(t, e - m + 1, bdn[j].block)
          BY <3>5, <4>2 DEF EndsAt
        <5> QED BY <3>2, <3>4, <4>2, <5>1
      <4> QED BY <1>3, <4>1, <4>2
    <3> QED BY <3>2, <3>3, <3>5 DEF DestScope
  <2>2. CASE /\ bdn[j].block \notin f.linked /\ bdn[j].depth = Len(c) /\ cdn[j].depth = Len(c)
             /\ cdn[j].block \in 1 .. g.n /\ N[cdn[j].block][1] = Live(c)
    <3>1. ASSUME NEW e \in DOMAIN u, EndsAt(u, e, bdn[j].block)
          PROVE  bdn[j].depth = Len(sd[e]) /\ N[cdn[j].block][1] = Live(sd[e])
      <4>1. CASE e \in DOMAIN fs /\ u[e] = fs[e] /\ sd[e] = cs[e]
        BY <2>2, <3>1, <4>1 DEF EndsAt
      <4>2. CASE e - m + 1 \in DOMAIN t /\ u[e] = t[e - m + 1]
        <5>1. EndsLoop(t[e - m + 1]) /\ EndOf(t[e - m + 1]) = bdn[j].block
          BY <3>1, <4>2 DEF EndsAt
        <5>2. bdn[j].block \in Pending(f)
          BY <4>2, <5>1, EndOwned DEF StackFits
        <5> QED BY <2>2, <5>2 DEF Pending
      <4> QED BY <1>3, <4>1, <4>2
    <3> QED BY <2>2, <3>1 DEF DestScope
  <2> QED BY <2>1, <2>2 DEF Redirects
<1>10. MemFits(u, g, d, bdn, cdn, N, sd)
  BY <1>4, <1>5, <1>6, <1>7, <1>8, <1>9 DEF MemFits, ScopesOf
<1> QED BY <1>10

-----------------------------------------------------------------------------
(* Steps *)

\* A frame that leaves its scope to the frame after it.
Neutral(fr) == fr.op \notin {"brace", "endScope"} /\ ~Binds(fr)

LEMMA NeutralAfter ==
    ASSUME NEW fr, Neutral(fr), NEW nx, NEW c, NEW d
    PROVE  After(fr, nx, c, d) <=> d = c
BY DEF Neutral, After

\* How many blocks there are after each call of the builder.
Counted(f) == "n" \in DOMAIN f

LEMMA Counts ==
    ASSUME NEW f, Counted(f)
    PROVE  /\ Counted(NewBlock(f)) /\ NewBlock(f).n = f.n + 1
           /\ \A op, name : Counted(Emit(f, op, name)) /\ Emit(f, op, name).n = f.n
           /\ \A inst : Counted(Terminate(f, inst)) /\ Terminate(f, inst).n = f.n
           /\ \A b : Counted(Start(f, b)) /\ Start(f, b).n = f.n
           /\ \A b : Counted(Jump(f, b)) /\ Jump(f, b).n = f.n
           /\ \A b : Counted(EraseBlock(f, b)) /\ EraseBlock(f, b).n = f.n
<1>1. \A inst : Counted(Insert(f, inst)) /\ Insert(f, inst).n = f.n
  BY DEF Insert, Counted
<1>2. Counted(NewBlock(f)) /\ NewBlock(f).n = f.n + 1
  BY DEF Counted, NewBlock
<1>3. \A inst : Counted(Terminate(f, inst)) /\ Terminate(f, inst).n = f.n
  <2> TAKE inst
  <2> DEFINE g == Succeed(f, inst)
             h == Insert(g, inst)
  <2>1. Counted(g) /\ g.n = f.n
    BY DEF Succeed, Counted
  <2> HIDE DEF g
  <2>2. Counted(h) /\ h.n = f.n
    BY <2>1 DEF Insert, Counted
  <2> HIDE DEF h
  <2>3. Counted([h EXCEPT !.ip = NoBlock]) /\ [h EXCEPT !.ip = NoBlock].n = f.n
    BY <2>2 DEF Counted
  <2> QED BY <2>3 DEF Terminate, h, g
<1>4. \A b : Counted(Jump(f, b)) /\ Jump(f, b).n = f.n
  BY <1>3 DEF Jump, CreateBranch
<1>5. \A b : Counted(Start(f, b)) /\ Start(f, b).n = f.n
  <2> TAKE b
  <2> DEFINE h == IF HasValidIP(f) THEN Jump(f, b) ELSE f
  <2>1. Counted(h) /\ h.n = f.n
    BY <1>4
  <2>2. Start(f, b) = [h EXCEPT !.ip = b, !.emitted = @ \cup {b}]
    BY DEF Start, EmitBlock, Jump
  <2> HIDE DEF h
  <2> QED BY <2>1, <2>2 DEF Counted
<1>6. \A b : Counted(EraseBlock(f, b)) /\ EraseBlock(f, b).n = f.n
  BY DEF EraseBlock, Counted
<1>7. \A op, name : Counted(Emit(f, op, name)) /\ Emit(f, op, name).n = f.n
  BY <1>1 DEF Emit
<1> QED BY <1>2, <1>3, <1>4, <1>5, <1>6, <1>7

\* A sound function counts its blocks.
LEMMA SoundCounts ==
    ASSUME NEW f, Sound(f)
    PROVE  Counted(f) /\ f.n \in Nat
BY SoundFields, MaxBlockAssumption DEF Counted, FunctionType

\* What the invariants say where no branch is being emitted.
LEMMA MemParts ==
    ASSUME GenInv, NEW M, NEW sc,
           MemFits(todo, fn, cleanups, breakDests, continueDests, M, sc)
    PROVE  /\ cleanups \in Scopes /\ cleanups \in Seq(Var) /\ Len(cleanups) \in Nat
           /\ Below(cleanups, cleanups) /\ Begin(cleanups, Len(cleanups)) = cleanups
           /\ Sound(fn) /\ fn \in FunctionType /\ Counted(fn) /\ fn.n \in Nat
           /\ todo # << >> => /\ todo \in Seq(Frames) /\ 1 \in DOMAIN todo /\ todo[1] \in Frames
                              /\ todo[1] = Head(todo) /\ sc[1] = cleanups
                              /\ FrameScope(todo[1], cleanups, M) /\ FrameFits(todo[1], fn)
                              /\ Owned(todo[1]) \subseteq Pending(fn) /\ StackFits(todo, fn)
<1>1. /\ cleanups \in Scopes /\ cleanups \in Seq(Var) /\ Len(cleanups) \in Nat
  BY DEF MemFits, ScopesOf, Scopes
<1>2. /\ Below(cleanups, cleanups) /\ Begin(cleanups, Len(cleanups)) = cleanups
  BY <1>1, BelowScopes
<1>3. Sound(fn) /\ fn \in FunctionType /\ Counted(fn) /\ fn.n \in Nat
  BY SoundCounts, SoundFields DEF GenInv
<1>4. ASSUME todo # << >>
      PROVE  /\ todo \in Seq(Frames) /\ 1 \in DOMAIN todo /\ todo[1] \in Frames /\ todo[1] = Head(todo)
             /\ FrameFits(todo[1], fn) /\ Owned(todo[1]) \subseteq Pending(fn) /\ StackFits(todo, fn)
  <2>1. todo \in Seq(Frames) /\ 1 \in DOMAIN todo /\ StackFits(todo, fn)
    BY <1>4 DEF GenInv, StackFits
  <2> QED BY <1>4, <2>1, GenInvParts
<1>5. ASSUME todo # << >> PROVE sc[1] = cleanups /\ FrameScope(todo[1], cleanups, M)
  <2>1. sc[1] = cleanups /\ 1 \in DOMAIN todo
    BY <1>4, <1>5 DEF MemFits, ScopesOf
  <2> QED BY <2>1 DEF MemFits
<1> QED BY <1>1, <1>2, <1>3, <1>4, <1>5

\* A frame that replaces the first is next, and the one below is no branch.
LEMMA NoBranchNext ==
    ASSUME NEW t, NEW f, StackFits(t, f), t # << >>, NEW fs \in Seq(Frames),
           fs # << >> => fs[1].op # "branch", NEW u, u = fs \o Tail(t), u # << >>
    PROVE  u[1].op # "branch"
<1>1. Replaces(t, fs, u)
  BY PushReplaces DEF StackFits
<1>2. 1 \in DOMAIN u /\ Len(fs) \in Nat
  BY <1>1 DEF Replaces
<1>3. CASE fs # << >>
  <2>1. 1 \in 1 .. Len(fs)
    BY <1>3
  <2>2. u[1] = fs[1]
    BY <1>1, <2>1 DEF Replaces
  <2> QED BY <1>3, <2>2
<1>4. CASE fs = << >>
  <2>1. Len(fs) = 0
    BY <1>4
  <2>2. 1 - Len(fs) + 1 \in 2 .. Len(t) /\ u[1] = t[1 - Len(fs) + 1]
    BY <1>1, <1>2, <2>1 DEF Replaces
  <2>3. 2 \in 2 .. Len(t) /\ u[1] = t[2]
    BY <2>1, <2>2
  <2> QED BY <2>3 DEF StackFits, Reachable, NeedsIP
<1> QED BY <1>3, <1>4

\* The invariant after a step that puts no branch on top of the stack.
LEMMA MemGoes ==
    ASSUME GenInv, todo # << >>, NEW fs \in Seq(Frames), fs # << >> => fs[1].op # "branch",
           todo' = fs \o Tail(todo), NEW N, NEW sd,
           MemFits(todo', fn', cleanups', breakDests', continueDests', N, sd),
           Traced(fn', N, Live(cleanups'))
    PROVE  MemInv'
<1>1. StackFits(todo, fn)
  BY DEF GenInv
<1> DEFINE u == todo'
<1>2. u # << >> => u[1].op # "branch"
  <2> HIDE DEF u
  <2>1. u = fs \o Tail(todo)
    BY DEF u
  <2> QED BY <1>1, <2>1, NoBranchNext
<1>3. Here(todo', cleanups') = Live(cleanups') /\ BranchScope(todo', cleanups', N)
  BY <1>2 DEF Here, BranchScope
<1> QED BY <1>3 DEF MemInv

\* What there is before a step whose frame is no branch.
LEMMA MemAt ==
    ASSUME MemInv, todo # << >>, todo[1].op # "branch"
    PROVE  \E M, sc : /\ MemFits(todo, fn, cleanups, breakDests, continueDests, M, sc)
                      /\ Traced(fn, M, Live(cleanups))
BY DEF MemInv, Here

\* Frames in the scope of the frame they replace, and no loop opened or closed.
LEMMA MemSame ==
    ASSUME GenInv, todo # << >>, NEW M, NEW sc,
           MemFits(todo, fn, cleanups, breakDests, continueDests, M, sc), Neutral(todo[1]),
           NEW fs \in Seq(Frames), NEW g, fn.n <= g.n, g.n \in Nat, NEW N, KeepsStarts(fn, M, N),
           \A i \in DOMAIN fs :
              /\ Neutral(fs[i]) /\ FrameScope(fs[i], cleanups, N)
              /\ EndsLoop(fs[i]) => EndsLoop(todo[1]) /\ EndOf(fs[i]) = EndOf(todo[1])
    PROVE  \E sd : MemFits(fs \o Tail(todo), g, cleanups, breakDests, continueDests, N, sd)
<1> DEFINE u == fs \o Tail(todo)
           cs == [i \in DOMAIN fs |-> cleanups]
<1>1. /\ cleanups \in Scopes /\ Below(cleanups, cleanups) /\ sc[1] = cleanups /\ 1 \in DOMAIN todo
      /\ Sound(fn) /\ StackFits(todo, fn)
  BY MemParts
<1>2. Replaces(todo, fs, u)
  BY <1>1, PushReplaces DEF StackFits
<1> HIDE DEF u
<1>3. cs \in [DOMAIN fs -> Scopes] /\ \A i \in DOMAIN fs : cs[i] = cleanups
  BY <1>1
<1> HIDE DEF cs
<1>4. fs # << >> => 1 \in DOMAIN fs /\ Len(fs) \in DOMAIN fs
  OBVIOUS
<1>5. \A nx, e : After(todo[1], nx, cleanups, e) => e = cleanups
  BY NeutralAfter
<1>6. 2 \in DOMAIN todo => sc[2] = cleanups
  <2>1. 1 + 1 = 2 /\ ScopesOf(todo, sc, cleanups)
    BY DEF MemFits
  <2>2. 2 \in DOMAIN todo => After(todo[1], todo[2], sc[1], sc[2])
    BY <1>1, <2>1 DEF ScopesOf
  <2> QED BY <1>1, <1>5, <2>2
<1>7. \A i \in DOMAIN fs : i + 1 \in DOMAIN fs => After(fs[i], fs[i + 1], cs[i], cs[i + 1])
  BY <1>3, NeutralAfter
<1>8. fs # << >> => \A nx, e : After(todo[1], nx, cleanups, e) => After(fs[Len(fs)], nx, cs[Len(fs)], e)
  BY <1>3, <1>4, <1>5, NeutralAfter
<1>9. \A j \in DOMAIN breakDests :
         /\ j \in DOMAIN breakDests /\ j \in DOMAIN continueDests
         /\ breakDests[j] = breakDests[j] /\ continueDests[j] = continueDests[j]
         /\ \A i \in DOMAIN fs : EndsAt(fs, i, breakDests[j].block) => EndsAt(todo, 1, breakDests[j].block)
  <2>1. DOMAIN breakDests = DOMAIN continueDests
    BY DEF GenInv, DestsFit
  <2> QED BY <2>1 DEF EndsAt
<1>10. continueDests \in Seq(Dests)
  BY DEF GenInv, DestsFit
<1>11. /\ fs # << >> => cs[1] = cleanups
       /\ fs = << >> /\ 2 \in DOMAIN todo => sc[2] = cleanups
       /\ \A i \in DOMAIN fs : FrameScope(fs[i], cs[i], N) /\ Below(cleanups, cs[i])
       /\ \A i \in DOMAIN fs : EndsLoop(fs[i]) => cs[i] = cleanups
  BY <1>1, <1>3, <1>4, <1>6
<1>12. Redirects(todo, fn, fs, cleanups, breakDests, continueDests, breakDests, continueDests, g, N)
  BY <1>9 DEF Redirects
<1>13. Refits(todo, fs, cleanups, sc, cleanups, cs, N)
  BY <1>1, <1>3, <1>7, <1>8, <1>11 DEF Refits
<1>14. \E sd : MemFits(u, g, cleanups, breakDests, continueDests, N, sd)
  BY <1>1, <1>2, <1>10, <1>12, <1>13, MemReplaced
<1> QED BY <1>14 DEF u

\* The common part of the steps that leave the scope and the destinations alone.
LEMMA MemStays ==
    ASSUME GenInv, todo # << >>, NEW M, NEW sc,
           MemFits(todo, fn, cleanups, breakDests, continueDests, M, sc), Neutral(todo[1]),
           NEW fs \in Seq(Frames), fs # << >> => fs[1].op # "branch", todo' = fs \o Tail(todo),
           UNCHANGED <<cleanups, breakDests, continueDests>>,
           fn.n <= fn'.n, fn'.n \in Nat, NEW N, KeepsStarts(fn, M, N), Traced(fn', N, Live(cleanups)),
           \A i \in DOMAIN fs :
              /\ Neutral(fs[i]) /\ FrameScope(fs[i], cleanups, N)
              /\ EndsLoop(fs[i]) => EndsLoop(todo[1]) /\ EndOf(fs[i]) = EndOf(todo[1])
    PROVE  MemInv'
<1>1. PICK sd : MemFits(fs \o Tail(todo), fn', cleanups, breakDests, continueDests, N, sd)
  BY MemSame
<1>2. MemFits(todo', fn', cleanups', breakDests', continueDests', N, sd) /\ Traced(fn', N, Live(cleanups'))
  BY <1>1
<1> QED BY <1>2, MemGoes

\* A beginning of a scope is below it.
LEMMA BeginBelow ==
    ASSUME NEW c \in Scopes, NEW n \in 0 .. Len(c)
    PROVE  Below(Begin(c, n), c)
BY BeginScope DEF Below, Scopes

\* Another scope for the first frame, if it ends a scope that stays where it was.
LEMMA MemRescoped ==
    ASSUME NEW t \in Seq(Frames), NEW f, NEW c, NEW bd, NEW cd, NEW M, NEW sc,
           MemFits(t, f, c, bd, cd, M, sc), NEW d \in Scopes,
           t # << >>, 1 \in DOMAIN t, t[1].op = "endScope", t[1].depth \in 0 .. Len(d),
           Begin(d, t[1].depth) = Begin(c, t[1].depth)
    PROVE  MemFits(t, f, d, bd, cd, M, [sc EXCEPT ![1] = d])
<1> DEFINE sd == [sc EXCEPT ![1] = d]
<1>1. /\ sc \in [DOMAIN t -> Scopes] /\ c \in Scopes /\ sc[1] = c
      /\ \A i \in DOMAIN t : i + 1 \in DOMAIN t => After(t[i], t[i + 1], sc[i], sc[i + 1])
      /\ \A i, j \in DOMAIN t : i <= j /\ EndsLoop(t[j]) => Below(sc[j], sc[i])
      /\ \A i \in DOMAIN t : FrameScope(t[i], sc[i], M)
      /\ \A j \in DOMAIN bd : DestScope(t, sc, bd[j], cd[j], M, f.n)
  BY DEF MemFits, ScopesOf
<1>2. sd \in [DOMAIN t -> Scopes] /\ sd[1] = d /\ \A i \in DOMAIN t : i # 1 => sd[i] = sc[i]
  BY <1>1
<1> HIDE DEF sd
<1>3. ~EndsLoop(t[1]) /\ ~Binds(t[1]) /\ Owned(t[1]) = {}
  BY DEF EndsLoop, Binds, Owned
<1>4. ASSUME NEW i \in DOMAIN t, i + 1 \in DOMAIN t PROVE After(t[i], t[i + 1], sd[i], sd[i + 1])
  <2>1. i + 1 # 1 /\ i \in Nat
    OBVIOUS
  <2>2. CASE i = 1
    <3>1. After(t[1], t[1 + 1], sc[1], sc[1 + 1]) /\ sd[1 + 1] = sc[1 + 1]
      BY <1>1, <1>2, <1>4, <2>1, <2>2
    <3>2. sc[1 + 1] = Begin(c, t[1].depth)
      BY <1>1, <1>3, <3>1 DEF After
    <3>3. After(t[1], t[1 + 1], d, sc[1 + 1])
      BY <1>3, <3>2 DEF After
    <3> QED BY <1>2, <2>2, <3>1, <3>3
  <2>3. CASE i # 1
    BY <1>1, <1>2, <1>4, <2>1, <2>3
  <2> QED BY <2>2, <2>3
<1>5. ASSUME NEW i \in DOMAIN t, NEW j \in DOMAIN t, i <= j, EndsLoop(t[j]) PROVE Below(sd[j], sd[i])
  <2>1. j # 1 /\ sd[j] = sc[j]
    BY <1>2, <1>3, <1>5
  <2>2. CASE i = 1
    <3>1. 2 \in DOMAIN t /\ 2 <= j /\ 1 + 1 = 2
      BY <2>1
    <3>2. After(t[1], t[2], sc[1], sc[2])
      BY <1>1, <3>1
    <3>3. sc[2] = Begin(d, t[1].depth)
      BY <1>1, <1>3, <3>2 DEF After
    <3>4. Below(sc[2], d) /\ Below(sc[j], sc[2]) /\ {sc[2], sc[j]} \subseteq Scopes
      BY <1>1, <1>5, <3>1, <3>3, BeginBelow
    <3> QED BY <1>2, <2>1, <2>2, <3>4, BelowScopes
  <2>3. CASE i # 1
    BY <1>1, <1>2, <1>5, <2>1, <2>3
  <2> QED BY <2>2, <2>3
<1>6. ASSUME NEW i \in DOMAIN t PROVE FrameScope(t[i], sd[i], M)
  <2>1. CASE i = 1
    <3>1. FrameScope(t[1], d, M)
      BY <1>3 DEF FrameScope
    <3> QED BY <1>2, <2>1, <3>1
  <2>2. CASE i # 1
    BY <1>1, <1>2, <2>2
  <2> QED BY <2>1, <2>2
<1>7. ASSUME NEW j \in DOMAIN bd PROVE DestScope(t, sd, bd[j], cd[j], M, f.n)
  <2>1. \A e \in DOMAIN t : EndsAt(t, e, bd[j].block) => e # 1 /\ sd[e] = sc[e]
    BY <1>2, <1>3 DEF EndsAt
  <2> QED BY <1>1, <2>1 DEF DestScope
<1>8. ScopesOf(t, sd, d)
  BY <1>2, <1>4, <1>5 DEF ScopesOf
<1>9. MemFits(t, f, d, bd, cd, M, sd)
  BY <1>6, <1>7, <1>8 DEF MemFits
<1> QED BY <1>9 DEF sd

\* The common part of the steps that leave the destinations alone.
LEMMA MemMoves ==
    ASSUME GenInv, todo # << >>, NEW M, NEW sc,
           MemFits(todo, fn, cleanups, breakDests, continueDests, M, sc),
           NEW fs \in Seq(Frames), fs # << >> => fs[1].op # "branch", todo' = fs \o Tail(todo),
           UNCHANGED <<breakDests, continueDests>>, fn.n <= fn'.n, fn'.n \in Nat,
           NEW N, KeepsStarts(fn, M, N), Traced(fn', N, Live(cleanups')),
           NEW cs, Refits(todo, fs, cleanups, sc, cleanups', cs, N),
           \A i \in DOMAIN fs : ~EndsLoop(fs[i])
    PROVE  MemInv'
<1>1. Sound(fn) /\ StackFits(todo, fn) /\ continueDests \in Seq(Dests)
      /\ DOMAIN breakDests = DOMAIN continueDests
  BY DEF GenInv, DestsFit
<1>2. Replaces(todo, fs, todo')
  BY <1>1, PushReplaces DEF StackFits
<1>3. Redirects(todo, fn, fs, cleanups, breakDests, continueDests, breakDests, continueDests, fn', N)
  BY <1>1 DEF Redirects, EndsAt
<1>4. \E sd : MemFits(todo', fn', cleanups', breakDests, continueDests, N, sd)
  BY <1>1, <1>2, <1>3, MemReplaced
<1>5. PICK sd : MemFits(todo', fn', cleanups', breakDests', continueDests', N, sd)
  BY <1>4
<1> QED BY <1>5, MemGoes

\* No frame in place of the first.
LEMMA RefitsNone ==
    ASSUME NEW t, NEW c, NEW sc, NEW d \in Scopes, NEW N, 2 \in DOMAIN t => sc[2] = d
    PROVE  Refits(t, << >>, c, sc, d, << >>, N)
<1> DEFINE fs == << >>
<1>1. fs = << >> /\ DOMAIN fs = {} /\ fs \in [DOMAIN fs -> Scopes]
  OBVIOUS
<1> HIDE DEF fs
<1>2. Refits(t, fs, c, sc, d, fs, N)
  BY <1>1 DEF Refits
<1> QED BY <1>2 DEF fs

\* One frame.
LEMMA RefitsOne ==
    ASSUME NEW t, NEW c, NEW sc, NEW d \in Scopes, NEW N, NEW fr, FrameScope(fr, d, N), Below(c, d),
           EndsLoop(fr) => d = c, \A nx, e : After(t[1], nx, c, e) => After(fr, nx, d, e)
    PROVE  Refits(t, <<fr>>, c, sc, d, <<d>>, N)
<1> DEFINE fs == <<fr>>
           cs == <<d>>
<1>1. /\ fs # << >> /\ Len(fs) = 1 /\ DOMAIN fs = {1} /\ fs[1] = fr
      /\ cs \in [{1} -> Scopes] /\ cs[1] = d /\ 1 + 1 # 1
  OBVIOUS
<1> HIDE DEF fs, cs
<1>2. Refits(t, fs, c, sc, d, cs, N)
  BY <1>1 DEF Refits
<1> QED BY <1>2 DEF fs, cs

\* Two frames.
LEMMA RefitsTwo ==
    ASSUME NEW t, NEW c, NEW sc, NEW d \in Scopes, NEW e \in Scopes, NEW N, NEW fr, NEW gr,
           FrameScope(fr, d, N), FrameScope(gr, e, N), Below(c, d), Below(c, e), After(fr, gr, d, e),
           EndsLoop(fr) => d = c, EndsLoop(gr) => e = c,
           \A nx, x : After(t[1], nx, c, x) => After(gr, nx, e, x)
    PROVE  Refits(t, <<fr, gr>>, c, sc, d, <<d, e>>, N)
<1> DEFINE fs == <<fr, gr>>
           cs == <<d, e>>
<1>1. /\ fs # << >> /\ Len(fs) = 2 /\ DOMAIN fs = {1, 2} /\ fs[1] = fr /\ fs[2] = gr
      /\ cs \in [{1, 2} -> Scopes] /\ cs[1] = d /\ cs[2] = e /\ 1 + 1 = 2 /\ 2 + 1 \notin {1, 2}
  OBVIOUS
<1> HIDE DEF fs, cs
<1>2. Refits(t, fs, c, sc, d, cs, N)
  BY <1>1 DEF Refits
<1> QED BY <1>2 DEF fs, cs

\* The stack and the destinations in another account that keeps the starts.
LEMMA MemKept ==
    ASSUME NEW t, NEW f, StackFits(t, f), Sound(f), NEW c, NEW bd, NEW cd \in Seq(Dests),
           DOMAIN bd = DOMAIN cd, NEW M, NEW sc, MemFits(t, f, c, bd, cd, M, sc),
           NEW g, g.n = f.n, NEW N, KeepsStarts(f, M, N)
    PROVE  MemFits(t, g, c, bd, cd, N, sc)
<1>1. \A i \in DOMAIN t : FrameScope(t[i], sc[i], M) /\ FrameFits(t[i], f) /\ Owned(t[i]) \subseteq Pending(f)
  BY DEF MemFits, StackFits, FramesFit, Ownership
<1>2. \A i \in DOMAIN t : FrameScope(t[i], sc[i], N)
  BY <1>1, FrameScopeKept
<1>3. ASSUME NEW j \in DOMAIN bd PROVE DestScope(t, sc, bd[j], cd[j], N, g.n)
  <2>1. DestScope(t, sc, bd[j], cd[j], M, f.n)
    BY DEF MemFits
  <2>2. cd[j] \in Dests
    OBVIOUS
  <2>3. cd[j].block \in Block /\ cd[j].block \in 1 .. f.n
    BY <2>1, <2>2 DEF Dests, DestScope
  <2>4. N[cd[j].block][1] = M[cd[j].block][1]
    BY <2>3, SoundCounts DEF KeepsStarts
  <2> QED BY <2>1, <2>4 DEF DestScope
<1> QED BY <1>2, <1>3 DEF MemFits

\* The first frame of a stack that frames were pushed on.
LEMMA PushFirst ==
    ASSUME NEW t \in Seq(Frames), t # << >>, NEW fs \in Seq(Frames), fs # << >>
    PROVE  fs \o Tail(t) # << >> /\ (fs \o Tail(t))[1] = fs[1]
<1> DEFINE u == fs \o Tail(t)
<1>1. Replaces(t, fs, u)
  BY PushReplaces
<1> HIDE DEF u
<1>2. 1 \in 1 .. Len(fs)
  OBVIOUS
<1>3. 1 \in DOMAIN u /\ u[1] = fs[1] /\ u \in Seq(Frames)
  BY <1>1, <1>2 DEF Replaces
<1>4. u # << >>
  BY <1>3
<1> QED BY <1>3, <1>4 DEF u

\* Where nothing more is emitted, an account is enough.
LEMMA LostTraced ==
    ASSUME NEW g, ~HasValidIP(g), NEW N, Accounts(g.insts, N), NEW c
    PROVE  Traced(g, N, Live(c))
BY LiveMem DEF Traced

\* Accounts that agree on every block agree on those there are.
LEMMA StartsKept ==
    ASSUME NEW M, NEW N, SameStarts(M, N), NEW f
    PROVE  KeepsStarts(f, M, N)
BY DEF SameStarts, KeepsStarts

\* What a declaration declares.
LEMMA DeclaredScope ==
    ASSUME NEW s \in LoopStmt, NEW c \in Scopes, May(s, c), NEW vs \in Seq(Name),
           IsInjective(vs), ToSet(vs) \subseteq Declares[s]
    PROVE  LET d == c \o vs
           IN  /\ vs \in Seq(Var) /\ d \in Scopes /\ ToSet(d) = ToSet(c) \cup ToSet(vs) /\ Below(c, d)
               /\ \A n \in 0 .. Len(c) : Begin(d, n) = Begin(c, n) /\ n <= Len(d)
<1>1. Declares[s] \subseteq Var
  BY ScopeAssumption
<1>2. vs \in Seq(Var)
  <2>1. \A i \in DOMAIN vs : vs[i] \in Var
    BY <1>1 DEF ToSet
  <2>2. vs \in [1 .. Len(vs) -> Var] /\ Len(vs) \in Nat
    BY <2>1
  <2> QED BY <2>2
<1>3. ToSet(vs) \cap ToSet(c) = {}
  BY DEF May
<1> QED BY <1>2, <1>3, MoreScope

-----------------------------------------------------------------------------
(* The visitors *)

\* An expression statement.
LEMMA VisitExprTraces ==
    ASSUME GenInv, MemInv, VisitExpr
    PROVE  MemInv'
<1> DEFINE fs == << >>
<1>1. /\ todo # << >> /\ todo[1] = Head(todo) /\ todo[1] \in Frames
      /\ todo[1].op = "visit" /\ todo[1].stmt.kind = "call" /\ todo[1].op # "branch"
  BY GenInvParts DEF VisitExpr, Visiting, Running
<1>2. Stmt.id \in Name
  BY <1>1, FrameFields, StatementParts DEF Stmt
<1>3. fn' = Emit(fn, "apply", Stmt.id) /\ todo' = fs \o Tail(todo)
      /\ UNCHANGED <<cleanups, breakDests, continueDests>>
  BY DEF VisitExpr, Then, SameCleanups, SameDests
<1>4. PICK M, sc : /\ MemFits(todo, fn, cleanups, breakDests, continueDests, M, sc)
                   /\ Traced(fn, M, Live(cleanups))
  BY <1>1, MemAt
<1>5. fn \in FunctionType /\ Counted(fn) /\ fn.n \in Nat
  BY <1>4, MemParts
<1>6. PICK N : Traced(fn', N, Live(cleanups)) /\ SameStarts(M, N)
  <2>1. "apply" \in PlainOps /\ Live(cleanups) \in Mem
    BY LiveMem DEF PlainOps
  <2>2. Executes(Plain("apply", Stmt.id), Live(cleanups), Live(cleanups))
    BY DEF Executes, Plain, Needs
  <2> QED BY <1>2, <1>3, <1>4, <1>5, <2>1, <2>2, EmitTraced
<1>7. fn'.n = fn.n /\ fn.n <= fn'.n /\ fn'.n \in Nat
  BY <1>3, <1>5, Counts
<1>8. Neutral(todo[1]) /\ fs \in Seq(Frames) /\ DOMAIN fs = {} /\ fs = << >>
  BY <1>1 DEF Neutral, Binds
<1> HIDE DEF fs
<1> QED BY <1>1, <1>3, <1>4, <1>6, <1>7, <1>8, StartsKept, MemStays

\* A pattern binding.
LEMMA VisitPatternBindingTraces ==
    ASSUME GenInv, MemInv, VisitPatternBinding
    PROVE  MemInv'
<1> DEFINE to == Bind(Stmt.vars)
<1>1. /\ todo # << >> /\ todo[1] = Head(todo) /\ todo[1] \in Frames
      /\ todo[1].op = "visit" /\ todo[1].stmt.kind = "var" /\ todo[1].op # "branch"
  BY GenInvParts DEF VisitPatternBinding, Visiting, Running
<1>2. Stmt = todo[1].stmt /\ Stmt \in LoopStmt /\ Stmt.vars \in Seq(Name)
  BY <1>1, FrameFields, StatementParts DEF Stmt
<1>3. to \in Frames /\ to.op = "bind" /\ to.vars = Stmt.vars
  BY <1>2, FrameForms DEF Bind
<1>4. todo' = <<to>> \o Tail(todo) /\ UNCHANGED <<fn, cleanups, breakDests, continueDests>>
  BY DEF VisitPatternBinding, Then, SameCleanups, SameDests
<1>5. PICK M, sc : /\ MemFits(todo, fn, cleanups, breakDests, continueDests, M, sc)
                   /\ Traced(fn, M, Live(cleanups))
  BY <1>1, MemAt
<1>6. /\ cleanups \in Scopes /\ Below(cleanups, cleanups) /\ FrameScope(todo[1], cleanups, M)
      /\ fn.n \in Nat
  BY <1>1, <1>5, MemParts
<1> HIDE DEF to
<1>7. Refits(todo, <<to>>, cleanups, sc, cleanups, <<cleanups>>, M)
  <2>1. May(Stmt, cleanups) /\ IsInjective(Stmt.vars) /\ ToSet(Stmt.vars) \subseteq Declares[Stmt]
    BY <1>1, <1>2, <1>6, ScopeAssumption DEF FrameScope, DeclaresOnce
  <2>2. cleanups \o Stmt.vars \in Scopes
    BY <1>2, <1>6, <2>1, DeclaredScope
  <2>3. FrameScope(to, cleanups, M)
    BY <1>3, <2>2 DEF FrameScope, Owned
  <2>4. \A nx, e : After(todo[1], nx, cleanups, e) => After(to, nx, cleanups, e)
    BY <1>1, <1>2, <1>3 DEF After, Binds, Bound
  <2>5. ~EndsLoop(to)
    BY <1>3 DEF EndsLoop
  <2> QED BY <1>6, <2>3, <2>4, <2>5, RefitsOne
<1>8. <<to>> \in Seq(Frames) /\ <<to>>[1].op # "branch" /\ \A i \in DOMAIN <<to>> : ~EndsLoop(<<to>>[i])
  BY <1>3 DEF EndsLoop
<1>9. /\ fn.n <= fn'.n /\ fn'.n \in Nat /\ KeepsStarts(fn, M, M) /\ cleanups' = cleanups
      /\ Traced(fn', M, Live(cleanups'))
  BY <1>4, <1>5, <1>6 DEF KeepsStarts
<1>10. Refits(todo, <<to>>, cleanups, sc, cleanups', <<cleanups>>, M)
  BY <1>7, <1>9
<1> QED BY <1>1, <1>4, <1>5, <1>8, <1>9, <1>10, MemMoves

\* The variable that a pattern binds next comes into the scope.
LEMMA BoundScope ==
    ASSUME NEW c \in Scopes, NEW vs \in Seq(Name), vs # << >>, c \o vs \in Scopes
    PROVE  LET v == Head(vs)
               d == Append(c, v)
           IN  /\ v \in Var /\ v \notin ToSet(c) /\ ToSet(d) = ToSet(c) \cup {v}
               /\ d \in Scopes /\ Below(c, d) /\ d \o Tail(vs) = c \o vs
<1> DEFINE v == Head(vs)
           d == Append(c, v)
           e == c \o vs
           k0 == Len(c)
<1>1. c \in Seq(Var) /\ k0 \in Nat /\ DOMAIN c = 1 .. k0 /\ \A i, j \in DOMAIN c : c[i] = c[j] => i = j
  BY DEF Scopes, IsInjective
<1>2. /\ Len(e) = k0 + Len(vs) /\ Len(vs) \in Nat \ {0} /\ \A i \in 1 .. k0 : e[i] = c[i]
      /\ e[k0 + 1] = v /\ DOMAIN e = 1 .. k0 + Len(vs)
  BY <1>1
<1>3. d \o Tail(vs) = e
  <2>1. c \in Seq(Name)
    BY <1>1, VarNames
  <2> QED BY <2>1, BindLast
<1>4. k0 + 1 \in 0 .. Len(e) /\ k0 + 1 \in 1 .. Len(e) /\ k0 \in 0 .. Len(e) /\ (k0 + 1) - 1 = k0
  BY <1>1, <1>2
<1> HIDE DEF e
<1>5. e \in Scopes
  BY DEF e
<1>6. e[k0 + 1] \in Var /\ Begin(e, k0 + 1) \in Scopes
      /\ Len(Begin(e, k0 + 1)) = k0 + 1 /\ \A i \in 1 .. k0 + 1 : Begin(e, k0 + 1)[i] = e[i]
  BY <1>4, <1>5, BeginScope, ScopeLast
<1>7. /\ v \in Var /\ d \in Seq(Var) /\ Len(d) = k0 + 1 /\ \A i \in 1 .. k0 : d[i] = c[i]
      /\ d[k0 + 1] = v /\ DOMAIN d = 1 .. k0 + 1
  BY <1>1, <1>2, <1>6
<1> HIDE DEF d, v
<1>8. d = Begin(e, k0 + 1)
  <2> DEFINE r == Begin(e, k0 + 1)
  <2>1. r \in Seq(Var) /\ Len(r) = k0 + 1 /\ \A i \in 1 .. k0 + 1 : r[i] = e[i]
    BY <1>6 DEF Scopes
  <2> HIDE DEF r
  <2>2. \A i \in 1 .. k0 + 1 : d[i] = r[i]
    BY <1>1, <1>2, <1>7, <2>1
  <2>3. d = r
    BY <1>7, <2>1, <2>2, SeqEqual
  <2> QED BY <2>3 DEF r
<1>9. ToSet(d) = ToSet(c) \cup {v}
  <2>1. DOMAIN d = DOMAIN c \cup {k0 + 1}
    BY <1>1, <1>7
  <2> QED BY <1>1, <1>7, <2>1 DEF ToSet
<1>10. v \notin ToSet(c)
  <2>1. \A i, j \in DOMAIN d : d[i] = d[j] => i = j
    BY <1>6, <1>8 DEF Scopes, IsInjective
  <2>2. ASSUME NEW i \in DOMAIN c, c[i] = v PROVE FALSE
    <3>1. i \in DOMAIN d /\ k0 + 1 \in DOMAIN d /\ d[i] = d[k0 + 1] /\ i # k0 + 1
      BY <1>1, <1>7, <2>2
    <3> QED BY <2>1, <3>1
  <2> QED BY <2>2 DEF ToSet
<1>11. Below(c, d)
  BY <1>1, <1>7 DEF Below
<1> QED BY <1>3, <1>6, <1>7, <1>8, <1>9, <1>10, <1>11 DEF d, v, e

\* The variables of a pattern come into the scope one after the other.
LEMMA BindVarTraces ==
    ASSUME GenInv, MemInv, BindVar
    PROVE  MemInv'
<1>1. /\ todo # << >> /\ todo[1] = Head(todo) /\ todo[1] \in Frames
      /\ todo[1].op = "bind" /\ todo[1].op # "branch"
  BY GenInvParts DEF BindVar, Running
<1>2. Frame = todo[1] /\ Frame.vars \in Seq(Name)
  BY <1>1, FrameFields DEF Frame
<1>3. UNCHANGED <<breakDests, continueDests>>
  BY DEF BindVar, SameDests
<1>4. PICK M, sc : /\ MemFits(todo, fn, cleanups, breakDests, continueDests, M, sc)
                   /\ Traced(fn, M, Live(cleanups))
  BY <1>1, MemAt
<1>5. /\ cleanups \in Scopes /\ Below(cleanups, cleanups) /\ FrameScope(todo[1], cleanups, M)
      /\ fn.n \in Nat /\ Counted(fn) /\ sc[1] = cleanups /\ 1 \in DOMAIN todo
      /\ cleanups \in Seq(Var)
  BY <1>1, <1>4, MemParts
<1>6. cleanups \o Frame.vars \in Scopes
  BY <1>1, <1>2, <1>5 DEF FrameScope
<1>7. CASE Frame.vars = << >> /\ Then(<< >>) /\ UNCHANGED fn /\ SameCleanups
  <2>1. todo' = << >> \o Tail(todo) /\ fn' = fn /\ cleanups' = cleanups
    BY <1>7 DEF Then, SameCleanups
  <2>2. 2 \in DOMAIN todo => sc[2] = cleanups
    <3>1. ASSUME 2 \in DOMAIN todo PROVE After(todo[1], todo[2], cleanups, sc[2])
      <4>1. 1 + 1 = 2
        OBVIOUS
      <4> QED BY <1>4, <1>5, <3>1, <4>1 DEF MemFits, ScopesOf
    <3>2. cleanups \o << >> = cleanups
      BY <1>5
    <3> QED BY <1>1, <1>2, <1>7, <3>1, <3>2 DEF After, Binds, Bound
  <2>3. Refits(todo, << >>, cleanups, sc, cleanups, << >>, M)
    BY <1>5, <2>2, RefitsNone
  <2>4. << >> \in Seq(Frames) /\ DOMAIN << >> = {} /\ KeepsStarts(fn, M, M) /\ fn.n <= fn.n
    BY <1>5 DEF KeepsStarts
  <2> QED BY <1>1, <1>3, <1>4, <1>5, <2>1, <2>3, <2>4, MemMoves
<1>8. CASE /\ Frame.vars # << >>
           /\ LET v == Head(Frame.vars) IN
                /\ fn' = Emit(Emit(fn, "alloc", v), "init", v)
                /\ cleanups' = Append(cleanups, v)
           /\ Then(<<Bind(Tail(Frame.vars))>>)
  <2> DEFINE v == Head(Frame.vars)
             d == Append(cleanups, v)
             to == Bind(Tail(Frame.vars))
  <2>1. /\ todo' = <<to>> \o Tail(todo) /\ fn' = Emit(Emit(fn, "alloc", v), "init", v)
        /\ cleanups' = d
    BY <1>8 DEF Then
  <2>2. /\ v \in Var /\ v \notin ToSet(cleanups) /\ ToSet(d) = ToSet(cleanups) \cup {v}
        /\ d \in Scopes /\ Below(cleanups, d) /\ d \o Tail(Frame.vars) = cleanups \o Frame.vars
    BY <1>2, <1>5, <1>6, <1>8, BoundScope
  <2>3. to \in Frames /\ to.op = "bind" /\ to.vars = Tail(Frame.vars)
    <3>1. Tail(Frame.vars) \in Seq(Name)
      BY <1>2, <1>8
    <3> QED BY <3>1, FrameForms DEF Bind
  <2> HIDE DEF to, v, d
  <2>4. PICK N : Traced(fn', N, Live(d)) /\ SameStarts(M, N)
    <3>1. fn \in FunctionType
      BY <1>4, MemParts
    <3> QED BY <1>4, <2>1, <2>2, <3>1, BindTraced
  <2>5. fn.n <= fn'.n /\ fn'.n \in Nat
    <3> DEFINE g == Emit(fn, "alloc", v)
    <3>1. Counted(g) /\ g.n = fn.n
      BY <1>5, Counts
    <3> HIDE DEF g
    <3>2. Emit(g, "init", v).n = fn.n
      BY <3>1, Counts
    <3> QED BY <1>5, <2>1, <3>2 DEF g
  <2>6. Refits(todo, <<to>>, cleanups, sc, d, <<d>>, N)
    <3>1. FrameScope(to, d, N)
      BY <1>6, <2>2, <2>3 DEF FrameScope, Owned
    <3>2. \A nx, e : After(todo[1], nx, cleanups, e) => After(to, nx, d, e)
      BY <1>1, <1>2, <2>2, <2>3 DEF After, Binds, Bound
    <3>3. ~EndsLoop(to)
      BY <2>3 DEF EndsLoop
    <3> QED BY <2>2, <3>1, <3>2, <3>3, RefitsOne
  <2>7. <<to>> \in Seq(Frames) /\ <<to>>[1].op # "branch" /\ \A i \in DOMAIN <<to>> : ~EndsLoop(<<to>>[i])
    BY <2>3 DEF EndsLoop
  <2>8. KeepsStarts(fn, M, N) /\ Traced(fn', N, Live(cleanups')) /\ Refits(todo, <<to>>, cleanups, sc, cleanups', <<d>>, N)
    BY <2>1, <2>4, <2>6, StartsKept
  <2> QED BY <1>1, <1>3, <1>4, <2>1, <2>5, <2>7, <2>8, MemMoves
<1> QED BY <1>7, <1>8 DEF BindVar

\* A brace opens a scope.
LEMMA VisitBraceTraces ==
    ASSUME GenInv, MemInv, VisitBrace
    PROVE  MemInv'
<1> DEFINE to == [op |-> "brace", rest |-> Stmt.body, first |-> TRUE]
           end == [op |-> "endScope", depth |-> Depth]
           c == cleanups
<1>1. /\ todo # << >> /\ todo[1] = Head(todo) /\ todo[1] \in Frames
      /\ todo[1].op = "visit" /\ todo[1].stmt.kind = "brace" /\ todo[1].op # "branch"
  BY GenInvParts DEF VisitBrace, Visiting, Running
<1>2. Stmt = todo[1].stmt /\ Stmt \in LoopStmt /\ Stmt.body \in Seq(LoopStmt)
  BY <1>1, FrameFields, StatementParts DEF Stmt
<1>3. PICK M, sc : /\ MemFits(todo, fn, cleanups, breakDests, continueDests, M, sc)
                   /\ Traced(fn, M, Live(cleanups))
  BY <1>1, MemAt
<1>4. /\ c \in Scopes /\ Below(c, c) /\ FrameScope(todo[1], c, M)
      /\ fn.n \in Nat /\ Len(c) \in Nat /\ Begin(c, Len(c)) = c
  BY <1>1, <1>3, MemParts
<1>5. /\ to \in Frames /\ to.op = "brace" /\ to.rest = Stmt.body
      /\ end \in Frames /\ end.op = "endScope" /\ end.depth = Len(c)
  BY <1>2, <1>4, FrameForms DEF Depth
<1>6. todo' = <<to, end>> \o Tail(todo) /\ UNCHANGED <<fn, cleanups, breakDests, continueDests>>
  <2>1. <<to>> \o <<end>> = <<to, end>>
    BY PairOf
  <2> QED BY <2>1 DEF VisitBrace, Then, Scoped, SameCleanups, SameDests
<1> HIDE DEF to, end
<1>7. RestFits(Stmt.body, c)
  <2>1. May(Stmt, c) /\ DeclaresOnce(Stmt)
    BY <1>1, <1>2, <1>4, ScopeAssumption DEF FrameScope
  <2>2. \A i \in DOMAIN Stmt.body :
          /\ Declares[Stmt.body[i]] \subseteq Declares[Stmt]
          /\ Stmt.body[i].kind = "var" =>
                \A j \in i + 1 .. Len(Stmt.body) :
                    ToSet(Stmt.body[i].vars) \cap Declares[Stmt.body[j]] = {}
    BY <1>1, <1>2, <2>1 DEF DeclaresOnce
  <2>3. \A i, j \in DOMAIN Stmt.body : i < j => j \in i + 1 .. Len(Stmt.body)
    BY <1>2
  <2>4. \A i \in DOMAIN Stmt.body : May(Stmt.body[i], c)
    BY <2>1, <2>2 DEF May
  <2> QED BY <2>2, <2>3, <2>4 DEF RestFits
<1>8. Refits(todo, <<to, end>>, c, sc, c, <<c, c>>, M)
  <2>1. FrameScope(to, c, M) /\ FrameScope(end, c, M)
    BY <1>4, <1>5, <1>7 DEF FrameScope, Owned
  <2>2. After(to, end, c, c)
    BY <1>4, <1>5 DEF After, Binds
  <2>3. \A nx, e : After(todo[1], nx, c, e) => After(end, nx, c, e)
    BY <1>1, <1>4, <1>5 DEF After, Binds
  <2>4. ~EndsLoop(to) /\ ~EndsLoop(end)
    BY <1>5 DEF EndsLoop
  <2> QED BY <1>4, <2>1, <2>2, <2>3, <2>4, RefitsTwo
<1>9. <<to, end>> \in Seq(Frames) /\ <<to, end>>[1].op # "branch"
      /\ \A i \in DOMAIN <<to, end>> : ~EndsLoop(<<to, end>>[i])
  BY <1>5 DEF EndsLoop
<1>10. /\ fn.n <= fn'.n /\ fn'.n \in Nat /\ KeepsStarts(fn, M, M)
       /\ Traced(fn', M, Live(cleanups')) /\ Refits(todo, <<to, end>>, cleanups, sc, cleanups', <<c, c>>, M)
  BY <1>3, <1>4, <1>6, <1>8 DEF KeepsStarts
<1> QED BY <1>1, <1>3, <1>6, <1>9, <1>10, MemMoves

\* An assertion that trips leaves everything as it was.
LEMMA AbortTraces ==
    ASSUME MemInv, NEW what, Abort(what)
    PROVE  MemInv'
<1>1. UNCHANGED <<fn, todo, cleanups, breakDests, continueDests>>
  BY DEF Abort
<1> QED BY <1>1 DEF MemInv

\* The elements of a brace, until one leaves no insertion point: the scope the rest
\* would have had is of no concern to the frame that pops it.
LEMMA BraceElementTraces ==
    ASSUME GenInv, MemInv, BraceElement
    PROVE  MemInv'
<1> DEFINE to == Visit(Head(Frame.rest))
           next == [op |-> "brace", rest |-> Tail(Frame.rest), first |-> FALSE]
           c == cleanups
<1>1. /\ todo # << >> /\ todo[1] = Head(todo) /\ todo[1] \in Frames /\ todo[1].op = "brace"
      /\ todo[1].op # "branch" /\ ~Binds(todo[1])
  BY GenInvParts DEF BraceElement, Running, Binds
<1>2. Frame = todo[1] /\ Frame.rest \in Seq(LoopStmt)
  BY <1>1, FrameFields DEF Frame
<1>3. PICK M, sc : /\ MemFits(todo, fn, cleanups, breakDests, continueDests, M, sc)
                   /\ Traced(fn, M, Live(cleanups))
  BY <1>1, MemAt
<1>4. /\ c \in Scopes /\ Below(c, c) /\ FrameScope(todo[1], c, M) /\ StackFits(todo, fn) /\ Sound(fn)
      /\ fn.n \in Nat /\ Len(c) \in Nat /\ sc[1] = c /\ 1 \in DOMAIN todo /\ todo \in Seq(Frames)
  BY <1>1, <1>3, MemParts
<1>5. CASE BraceEnds /\ Then(<< >>) /\ Fine /\ UNCHANGED <<fn, cleanups>> /\ SameDests
  <2> DEFINE fs == << >>
             u == fs \o Tail(todo)
  <2>1. todo' = u /\ UNCHANGED <<fn, cleanups, breakDests, continueDests>>
    BY <1>5 DEF Then, SameDests
  <2>2. fs \in Seq(Frames) /\ fs = << >> /\ DOMAIN fs = {} /\ Len(fs) = 0
    OBVIOUS
  <2> HIDE DEF u, fs
  <2>3. Replaces(todo, fs, u)
    BY <1>1, <1>4, <2>2, PushReplaces DEF u
  <2>4. \E sd : MemFits(u, fn, c, breakDests, continueDests, M, sd)
    <3>1. continueDests \in Seq(Dests) /\ DOMAIN breakDests = DOMAIN continueDests
      BY DEF GenInv, DestsFit
    <3>2. KeepsStarts(fn, M, M) /\ fn.n <= fn.n
      BY <1>4 DEF KeepsStarts
    <3>3. Redirects(todo, fn, fs, c, breakDests, continueDests, breakDests, continueDests, fn, M)
      BY <2>2, <3>1 DEF Redirects
    <3>4. CASE 2 \in DOMAIN todo
      <4> DEFINE d == sc[2]
      <4>1. d \in Scopes /\ Len(d) \in Nat
        <5>1. sc \in [DOMAIN todo -> Scopes]
          BY <1>3 DEF MemFits, ScopesOf
        <5> QED BY <3>4, <5>1 DEF Scopes
      <4>2. After(todo[1], todo[2], c, d)
        <5>1. 1 + 1 = 2
          OBVIOUS
        <5> QED BY <1>3, <1>4, <3>4, <5>1 DEF MemFits, ScopesOf
      <4>3. /\ todo[2].op = "endScope" /\ todo[2].depth <= Len(c) /\ todo[2].depth <= Len(d)
            /\ Begin(c, todo[2].depth) = Begin(d, todo[2].depth)
        BY <1>1, <4>2 DEF After
      <4>4. todo[2].depth \in Nat
        <5>1. todo[2] \in Frames
          BY <1>4, <3>4
        <5> QED BY <4>3, <5>1, FrameFields
      <4>5. Refits(todo, fs, c, sc, d, << >>, M)
        BY <2>2, <4>1, RefitsNone
      <4> HIDE DEF d
      <4>6. PICK sd : MemFits(u, fn, d, breakDests, continueDests, M, sd)
        BY <1>3, <1>4, <2>3, <3>1, <3>2, <3>3, <4>5, MemReplaced
      <4>7. /\ u \in Seq(Frames) /\ u # << >> /\ 1 \in DOMAIN u /\ u[1] = todo[2]
        <5>1. Len(u) = Len(todo) - 1 /\ Len(u) \in Nat /\ Len(todo) \in Nat /\ 2 \in 2 .. Len(todo)
          BY <1>4, <2>2, <2>3, <3>4 DEF Replaces
        <5>2. 2 + Len(fs) - 1 = 1 /\ 2 + Len(fs) - 1 \in DOMAIN u /\ u[2 + Len(fs) - 1] = todo[2]
          BY <2>2, <2>3, <5>1 DEF Replaces
        <5> QED BY <2>3, <5>1, <5>2 DEF Replaces
      <4>8. u[1].depth \in 0 .. Len(c) /\ Begin(c, u[1].depth) = Begin(d, u[1].depth)
        BY <1>4, <4>3, <4>4, <4>7
      <4>9. MemFits(u, fn, c, breakDests, continueDests, M, [sd EXCEPT ![1] = c])
        BY <1>4, <4>3, <4>6, <4>7, <4>8, MemRescoped
      <4> QED BY <4>9
    <3>5. CASE 2 \notin DOMAIN todo
      <4>1. Refits(todo, fs, c, sc, c, << >>, M)
        BY <1>4, <2>2, <3>5, RefitsNone
      <4> QED BY <1>3, <1>4, <2>3, <3>1, <3>2, <3>3, <4>1, MemReplaced
    <3> QED BY <3>4, <3>5
  <2>5. PICK sd : MemFits(todo', fn', cleanups', breakDests', continueDests', M, sd)
    BY <2>1, <2>4
  <2>6. Traced(fn', M, Live(cleanups')) /\ todo' = fs \o Tail(todo)
    BY <1>3, <2>1 DEF u
  <2> QED BY <1>1, <2>2, <2>5, <2>6, MemGoes
<1>6. CASE /\ ~BraceEnds /\ Then(<<to, next>>)
           /\ UNCHANGED fn /\ SameCleanups /\ SameDests /\ Fine
  <2> DEFINE s == Head(Frame.rest)
             d == IF s.kind = "var" THEN c \o s.vars ELSE c
  <2>1. todo' = <<to, next>> \o Tail(todo) /\ UNCHANGED <<fn, cleanups, breakDests, continueDests>>
    BY <1>6 DEF Then, Fine, SameDests, SameCleanups
  <2>2. Frame.rest # << >> /\ s \in LoopStmt /\ Tail(Frame.rest) \in Seq(LoopStmt)
        /\ 1 \in DOMAIN Frame.rest /\ s = Frame.rest[1]
        /\ \A i \in DOMAIN Tail(Frame.rest) : /\ i + 1 \in DOMAIN Frame.rest /\ 1 < i + 1 /\ i \in Nat
                                              /\ Tail(Frame.rest)[i] = Frame.rest[i + 1]
    BY <1>2, <1>6 DEF BraceEnds
  <2>3. /\ to \in Frames /\ next \in Frames /\ to.op = "visit" /\ to.stmt = s /\ next.op = "brace"
        /\ next.rest = Tail(Frame.rest)
    BY <2>2, FrameForms DEF Visit
  <2> HIDE DEF to, next, s
  <2>4. RestFits(Frame.rest, c) /\ May(s, c)
    BY <1>1, <1>2, <1>4, <2>2 DEF FrameScope, RestFits
  <2>5. /\ d \in Scopes /\ Below(c, d) /\ \A n \in 0 .. Len(c) : Begin(d, n) = Begin(c, n) /\ n <= Len(d)
        /\ ToSet(d) = IF s.kind = "var" THEN ToSet(c) \cup ToSet(s.vars) ELSE ToSet(c)
    <3>1. CASE s.kind = "var"
      <4>1. IsInjective(s.vars) /\ ToSet(s.vars) \subseteq Declares[s] /\ s.vars \in Seq(Name)
        BY <2>2, <3>1, ScopeAssumption, StatementParts DEF DeclaresOnce
      <4> QED BY <1>4, <2>2, <2>4, <3>1, <4>1, DeclaredScope
    <3>2. CASE s.kind # "var"
      BY <1>4, <3>2
    <3> QED BY <3>1, <3>2
  <2>6. RestFits(Tail(Frame.rest), d)
    <3> DEFINE r == Tail(Frame.rest)
    <3>1. ASSUME NEW i \in DOMAIN r PROVE May(r[i], d)
      <4>1. /\ i + 1 \in DOMAIN Frame.rest /\ 1 < i + 1 /\ r[i] = Frame.rest[i + 1]
            /\ 1 \in DOMAIN Frame.rest /\ Frame.rest[1] = s
        BY <2>2
      <4>2. May(r[i], c) /\ (s.kind = "var" => ToSet(s.vars) \cap Declares[r[i]] = {})
        BY <2>4, <4>1 DEF RestFits
      <4> QED BY <2>5, <4>2 DEF May
    <3>2. ASSUME NEW i \in DOMAIN r, NEW j \in DOMAIN r, i < j, r[i].kind = "var"
          PROVE  ToSet(r[i].vars) \cap Declares[r[j]] = {}
      <4>1. /\ i + 1 \in DOMAIN Frame.rest /\ r[i] = Frame.rest[i + 1] /\ i \in Nat
            /\ j + 1 \in DOMAIN Frame.rest /\ r[j] = Frame.rest[j + 1] /\ j \in Nat
        BY <2>2
      <4>2. i + 1 < j + 1
        BY <3>2, <4>1
      <4> QED BY <2>4, <3>2, <4>1, <4>2 DEF RestFits
    <3> QED BY <3>1, <3>2 DEF RestFits
  <2>7. Refits(todo, <<to, next>>, c, sc, c, <<c, d>>, M)
    <3>1. FrameScope(to, c, M) /\ FrameScope(next, d, M)
      BY <2>3, <2>4, <2>6 DEF FrameScope, Owned
    <3>2. After(to, next, c, d)
      BY <2>3 DEF After, Binds, Bound
    <3>3. ASSUME NEW nx, NEW e, After(todo[1], nx, c, e) PROVE After(next, nx, d, e)
      <4>1. /\ nx.op = "endScope" /\ nx.depth \in 0 .. Len(c) /\ nx.depth <= Len(e)
            /\ Begin(c, nx.depth) = Begin(e, nx.depth)
        BY <1>1, <3>3 DEF After
      <4> QED BY <1>4, <2>3, <2>5, <4>1 DEF After, Binds
    <3>4. ~EndsLoop(to) /\ ~EndsLoop(next)
      BY <2>3 DEF EndsLoop
    <3> HIDE DEF d
    <3> QED BY <1>4, <2>5, <3>1, <3>2, <3>3, <3>4, RefitsTwo
  <2> HIDE DEF d
  <2>8. <<to, next>> \in Seq(Frames) /\ <<to, next>>[1].op # "branch"
        /\ \A i \in DOMAIN <<to, next>> : ~EndsLoop(<<to, next>>[i])
    BY <2>3 DEF EndsLoop
  <2>9. /\ fn.n <= fn'.n /\ fn'.n \in Nat /\ KeepsStarts(fn, M, M)
        /\ Traced(fn', M, Live(cleanups')) /\ Refits(todo, <<to, next>>, cleanups, sc, cleanups', <<c, d>>, M)
    BY <1>3, <1>4, <2>1, <2>7 DEF KeepsStarts
  <2> QED BY <1>1, <1>3, <2>1, <2>8, <2>9, MemMoves
<1>7. CASE Abort("brace element without insertion point")
  BY <1>7, AbortTraces
<1> QED BY <1>5, <1>6, <1>7 DEF BraceElement, Require

\* The end of a scope emits a cleanup for each of its variables.
LEMMA EndScopeTraces ==
    ASSUME GenInv, MemInv, EndScope
    PROVE  MemInv'
<1> DEFINE c == cleanups
           n == Len(cleanups)
<1>1. /\ todo # << >> /\ todo[1] = Head(todo) /\ todo[1] \in Frames
      /\ todo[1].op = "endScope" /\ todo[1].op # "branch" /\ ~Binds(todo[1])
  BY GenInvParts DEF EndScope, Running, Binds
<1>2. Frame = todo[1] /\ Frame.depth \in Nat /\ Depth = n
  BY <1>1, FrameFields DEF Frame, Depth
<1>3. UNCHANGED <<breakDests, continueDests>>
  BY DEF EndScope, SameDests
<1>4. PICK M, sc : /\ MemFits(todo, fn, cleanups, breakDests, continueDests, M, sc)
                   /\ Traced(fn, M, Live(cleanups))
  BY <1>1, MemAt
<1>5. /\ c \in Scopes /\ FrameScope(todo[1], c, M) /\ StackFits(todo, fn) /\ Sound(fn)
      /\ fn.n \in Nat /\ n \in Nat /\ Begin(c, n) = c /\ sc[1] = c /\ 1 \in DOMAIN todo
      /\ todo \in Seq(Frames)
  BY <1>1, <1>4, MemParts
<1>6. CASE Depth = Frame.depth /\ Then(<< >>) /\ UNCHANGED fn /\ SameCleanups
  <2>1. todo' = << >> \o Tail(todo) /\ fn' = fn /\ cleanups' = cleanups
    BY <1>6 DEF Then, SameCleanups
  <2>2. 2 \in DOMAIN todo => sc[2] = cleanups
    <3>1. ASSUME 2 \in DOMAIN todo PROVE After(todo[1], todo[2], cleanups, sc[2])
      <4>1. 1 + 1 = 2
        OBVIOUS
      <4> QED BY <1>4, <1>5, <3>1, <4>1 DEF MemFits, ScopesOf
    <3> QED BY <1>1, <1>2, <1>5, <1>6, <3>1 DEF After
  <2>3. Refits(todo, << >>, cleanups, sc, cleanups, << >>, M)
    BY <1>5, <2>2, RefitsNone
  <2>4. << >> \in Seq(Frames) /\ DOMAIN << >> = {} /\ KeepsStarts(fn, M, M) /\ fn.n <= fn.n
    BY <1>5 DEF KeepsStarts
  <2> QED BY <1>1, <1>3, <1>4, <1>5, <2>1, <2>3, <2>4, MemMoves
<1>7. CASE /\ Depth > Frame.depth
           /\ fn' = EmitCleanup(fn, cleanups[Depth])
           /\ cleanups' = SubSeq(cleanups, 1, Depth - 1)
           /\ UNCHANGED todo
  <2> DEFINE d == Begin(c, n - 1)
  <2>1. fn' = EmitCleanup(fn, c[n]) /\ cleanups' = d /\ todo' = todo
    BY <1>2, <1>7 DEF Begin
  <2>2. n \in 1 .. Len(c) /\ n - 1 \in 0 .. Len(c) /\ Frame.depth <= n - 1
    BY <1>2, <1>5, <1>7
  <2>3. /\ d \in Scopes /\ Len(d) = n - 1 /\ Below(d, c)
    BY <1>5, <2>2, BeginScope, BeginBelow
  <2>4. fn'.n = fn.n /\ \E N : Traced(fn', N, Live(d)) /\ SameStarts(M, N)
    <3>1. Traced(fn, M, Live(Begin(c, n)))
      BY <1>4, <1>5
    <3> QED BY <1>5, <2>1, <2>2, <3>1, SoundFields, CleanupTraced
  <2>5. PICK N : Traced(fn', N, Live(d)) /\ SameStarts(M, N)
    BY <2>4
  <2> DEFINE k0 == Frame.depth
             r == Begin(d, k0)
             q == Begin(c, k0)
  <2>6. r = q
    <3> HIDE DEF d
    <3>1. k0 \in 0 .. Len(d) /\ k0 \in 0 .. Len(c) /\ 1 .. k0 \subseteq DOMAIN d
      BY <1>2, <1>5, <2>2, <2>3 DEF Scopes
    <3>2. /\ r \in Scopes /\ Len(r) = k0 /\ \A i \in 1 .. k0 : r[i] = d[i]
          /\ q \in Scopes /\ Len(q) = k0 /\ \A i \in 1 .. k0 : q[i] = c[i]
      BY <1>5, <2>3, <3>1, BeginScope
    <3>3. r \in Seq(Var) /\ q \in Seq(Var) /\ \A i \in 1 .. k0 : r[i] = q[i]
      BY <2>3, <3>1, <3>2 DEF Scopes, Below
    <3> HIDE DEF r, q
    <3> QED BY <3>2, <3>3, SeqEqual
  <2>7. continueDests \in Seq(Dests) /\ DOMAIN breakDests = DOMAIN continueDests
    BY DEF GenInv, DestsFit
  <2>8. MemFits(todo, fn', c, breakDests, continueDests, N, sc)
    BY <1>4, <1>5, <2>4, <2>5, <2>7, StartsKept, MemKept
  <2>9. todo[1].depth \in 0 .. Len(d) /\ Begin(d, todo[1].depth) = Begin(c, todo[1].depth)
    <3> HIDE DEF d
    <3> QED BY <1>2, <1>5, <2>2, <2>3, <2>6
  <2> HIDE DEF d
  <2>10. MemFits(todo, fn', d, breakDests, continueDests, N, [sc EXCEPT ![1] = d])
    BY <1>1, <1>5, <2>3, <2>8, <2>9, MemRescoped
  <2>11. PICK sd : MemFits(todo', fn', cleanups', breakDests', continueDests', N, sd)
    BY <1>3, <2>1, <2>10
  <2>12. Here(todo', cleanups') = Live(cleanups') /\ BranchScope(todo', cleanups', N)
    BY <1>1, <2>1 DEF Here, BranchScope
  <2> QED BY <2>1, <2>5, <2>11, <2>12 DEF MemInv
<1> QED BY <1>6, <1>7 DEF EndScope

\* A return leaves nothing to account for.
LEMMA VisitReturnTraces ==
    ASSUME GenInv, MemInv, VisitReturn
    PROVE  MemInv'
<1> DEFINE fs == << >>
<1>1. /\ todo # << >> /\ todo[1] = Head(todo) /\ todo[1] \in Frames /\ HasValidIP(fn)
      /\ todo[1].op = "visit" /\ todo[1].stmt.kind = "return" /\ todo[1].op # "branch"
  BY GenInvParts DEF VisitReturn, Visiting, Running, NeedsIP
<1>2. Stmt.id \in Name
  BY <1>1, FrameFields, StatementParts DEF Stmt
<1>3. CASE /\ fn' = CreateExit(fn, "return", Stmt.id) /\ Then(fs)
           /\ SameCleanups /\ SameDests
  <2>1. todo' = fs \o Tail(todo) /\ UNCHANGED <<cleanups, breakDests, continueDests>>
    BY <1>3 DEF Then, SameCleanups, SameDests
  <2>2. PICK M, sc : /\ MemFits(todo, fn, cleanups, breakDests, continueDests, M, sc)
                     /\ Traced(fn, M, Live(cleanups))
    BY <1>1, MemAt
  <2>3. fn \in FunctionType /\ Counted(fn) /\ fn.n \in Nat
    BY <2>2, MemParts
  <2>4. /\ ~HasValidIP(fn') /\ fn'.n = fn.n
        /\ \E N : Accounts(fn'.insts, N) /\ SameStarts(M, N)
    BY <1>1, <1>2, <1>3, <2>2, <2>3, ExitTraced
  <2>5. PICK N : Traced(fn', N, Live(cleanups)) /\ SameStarts(M, N)
    BY <2>4, LostTraced
  <2>6. Neutral(todo[1]) /\ fs \in Seq(Frames) /\ DOMAIN fs = {} /\ fs = << >> /\ fn.n <= fn'.n /\ fn'.n \in Nat
    BY <1>1, <2>3, <2>4 DEF Neutral, Binds
  <2> HIDE DEF fs
  <2> QED BY <1>1, <2>1, <2>2, <2>5, <2>6, StartsKept, MemStays
<1>4. CASE Abort("null return value")
  BY <1>4, AbortTraces
<1> QED BY <1>3, <1>4 DEF VisitReturn

\* The destination of a break or a continue starts with the memory of a scope that is
\* still open.
LEMMA DestMemory ==
    ASSUME GenInv, todo # << >>, todo[1].op = "visit", todo[1].stmt.kind \in {"break", "continue"},
           NEW M, NEW sc, MemFits(todo, fn, cleanups, breakDests, continueDests, M, sc),
           NEW dests \in {breakDests, continueDests}
    PROVE  LET dest == dests[Len(dests)]
           IN  /\ dest \in Dests /\ dest.depth <= Len(cleanups)
               /\ M[dest.block][1] = Live(Begin(cleanups, dest.depth))
<1> DEFINE top == Len(breakDests)
           bd == breakDests[top]
           cd == continueDests[top]
<1>1. /\ todo \in Seq(Frames) /\ 1 \in DOMAIN todo /\ DOMAIN todo = 1 .. Len(todo)
      /\ breakDests \in Seq(Dests) /\ continueDests \in Seq(Dests)
      /\ Len(breakDests) = Len(continueDests)
      /\ DestsMatch(todo, breakDests) /\ LoopsFit(todo) /\ Ownership(todo, fn)
  BY DEF GenInv, StackFits, DestsFit
<1>2. MayJump(todo[1])
  BY FreeParts DEF MayJump
<1>3. PICK d \in DOMAIN todo : EndsLoop(todo[d])
  BY <1>1, <1>2 DEF LoopsFit
<1>4. PICK j \in DOMAIN breakDests : breakDests[j].block = EndOf(todo[d])
  BY <1>1, <1>3 DEF DestsMatch
<1>5. top \in DOMAIN breakDests /\ top \in DOMAIN continueDests
  BY <1>1, <1>4
<1>6. PICK e \in DOMAIN todo : EndsAt(todo, e, bd.block)
  BY <1>1, <1>5 DEF DestsMatch
<1>7. DestScope(todo, sc, bd, cd, M, fn.n)
  BY <1>5 DEF MemFits
<1> HIDE DEF bd, cd, top
<1>8. bd.depth = Len(sc[e]) /\ cd.depth = Len(sc[e]) /\ M[cd.block][1] = Live(sc[e])
  BY <1>6, <1>7 DEF DestScope
<1>9. M[bd.block][1] = Live(sc[e])
  <2>1. bd.block \in Owned(todo[e])
    BY <1>1, <1>6, EndOwned DEF EndsAt
  <2>2. FrameScope(todo[e], sc[e], M)
    BY DEF MemFits
  <2> QED BY <2>1, <2>2 DEF FrameScope
<1>10. sc[e] \in Scopes /\ cleanups \in Scopes /\ Below(sc[e], cleanups)
  <2>1. 1 <= e /\ EndsLoop(todo[e]) /\ sc[1] = cleanups
    BY <1>1, <1>6, MemParts DEF EndsAt
  <2> QED BY <1>1, <2>1 DEF MemFits, ScopesOf
<1>11. Len(sc[e]) \in 0 .. Len(cleanups) /\ Begin(cleanups, Len(sc[e])) = sc[e]
  BY <1>10, BelowScopes
<1>12. bd \in Dests /\ cd \in Dests
  BY <1>1, <1>5 DEF bd, cd
<1>13. dests[Len(dests)] \in {bd, cd}
  BY <1>1 DEF bd, cd, top
<1>14. Len(sc[e]) <= Len(cleanups)
  BY <1>10, <1>11 DEF Scopes
<1> QED BY <1>8, <1>9, <1>11, <1>12, <1>13, <1>14

\* A branch that goes on, or begins, on top of the stack.
LEMMA BranchGoes ==
    ASSUME GenInv, todo # << >>, NEW M, NEW sc,
           MemFits(todo, fn, cleanups, breakDests, continueDests, M, sc), Neutral(todo[1]),
           NEW to \in Frames, to.op = "branch", todo' = <<to>> \o Tail(todo),
           UNCHANGED <<cleanups, breakDests, continueDests>>, fn'.n = fn.n,
           NEW N, KeepsStarts(fn, M, N), Traced(fn', N, Live(Begin(cleanups, to.top))),
           to.dest.depth <= to.top, N[to.dest.block][1] = Live(Begin(cleanups, to.dest.depth))
    PROVE  MemInv'
<1>1. <<to>> \in Seq(Frames) /\ <<to>> # << >> /\ <<to>>[1] = to /\ \A i \in DOMAIN <<to>> : <<to>>[i] = to
  OBVIOUS
<1>2. Neutral(to) /\ FrameScope(to, cleanups, N) /\ ~EndsLoop(to)
  BY DEF Neutral, Binds, FrameScope, Owned, EndsLoop
<1>3. fn.n <= fn'.n /\ fn'.n \in Nat /\ todo \in Seq(Frames)
  BY MemParts
<1>4. PICK sd : MemFits(<<to>> \o Tail(todo), fn', cleanups, breakDests, continueDests, N, sd)
  BY <1>1, <1>2, <1>3, MemSame
<1>5. MemFits(todo', fn', cleanups', breakDests', continueDests', N, sd)
  BY <1>4
<1>6. todo' # << >> /\ todo'[1] = to
  BY <1>1, <1>3, PushFirst
<1>7. Here(todo', cleanups') = Live(Begin(cleanups, to.top)) /\ BranchScope(todo', cleanups', N)
  BY <1>6 DEF Here, BranchScope
<1> QED BY <1>5, <1>7 DEF MemInv

\* A break or a continue has all the variables of its scopes still to pop.
LEMMA VisitJumpTraces ==
    ASSUME GenInv, MemInv, VisitJump
    PROVE  MemInv'
<1> DEFINE dests == IF Stmt.kind = "break" THEN breakDests ELSE continueDests
           dest == dests[Len(dests)]
           to == [op |-> "branch", dest |-> dest, top |-> Depth]
<1>1. /\ todo # << >> /\ todo[1] = Head(todo) /\ todo[1] \in Frames
      /\ todo[1].op = "visit" /\ todo[1].stmt.kind \in {"break", "continue"}
      /\ todo[1].op # "branch" /\ Depth = Len(cleanups)
  BY GenInvParts DEF VisitJump, Visiting, Running, Depth
<1>2. PICK M, sc : /\ MemFits(todo, fn, cleanups, breakDests, continueDests, M, sc)
                   /\ Traced(fn, M, Live(cleanups))
  BY <1>1, MemAt
<1>3. /\ dest \in Dests /\ dest.depth <= Depth /\ M[dest.block][1] = Live(Begin(cleanups, dest.depth))
  <2>1. dests \in {breakDests, continueDests}
    OBVIOUS
  <2> HIDE DEF dests
  <2> QED BY <1>1, <1>2, <2>1, DestMemory
<1>4. Begin(cleanups, Depth) = cleanups /\ Depth \in Nat
  BY <1>1, <1>2, MemParts
<1>5. CASE Then(<<to>>) /\ UNCHANGED fn /\ SameCleanups /\ SameDests
  <2>1. todo' = <<to>> \o Tail(todo) /\ fn' = fn /\ UNCHANGED <<cleanups, breakDests, continueDests>>
    BY <1>5 DEF Then, SameCleanups, SameDests
  <2>2. to \in Frames /\ to.op = "branch" /\ to.dest = dest /\ to.top = Depth
    <3> HIDE DEF dest
    <3> QED BY <1>3, <1>4, FrameForms
  <2>3. Neutral(todo[1]) /\ KeepsStarts(fn, M, M)
    BY <1>1 DEF Neutral, Binds, KeepsStarts
  <2> HIDE DEF to, dest
  <2>4. /\ Traced(fn', M, Live(Begin(cleanups, to.top))) /\ fn'.n = fn.n
        /\ to.dest.depth <= to.top /\ M[to.dest.block][1] = Live(Begin(cleanups, to.dest.depth))
    BY <1>2, <1>3, <1>4, <2>1, <2>2
  <2> QED BY <1>1, <1>2, <2>1, <2>2, <2>3, <2>4, BranchGoes
<1>6. CASE Abort("branch without insertion point")
  BY <1>6, AbortTraces
<1> QED BY <1>5, <1>6 DEF VisitJump, Require

\* Each cleanup that a branch passes pops a variable in its account, and no other is
\* left when it gets to its destination.
LEMMA ThreadCleanupTraces ==
    ASSUME GenInv, MemInv, ThreadCleanup
    PROVE  MemInv'
<1> DEFINE c == cleanups
<1>1. /\ todo # << >> /\ todo[1] = Head(todo) /\ todo[1] \in Frames /\ HasValidIP(fn)
      /\ todo[1].op = "branch" /\ BranchFits(todo, fn, cleanups) /\ Sound(fn)
  BY GenInvParts DEF ThreadCleanup, Running, NeedsIP, GenInv
<1>2. /\ Frame = todo[1] /\ Frame.dest \in Dests /\ Frame.dest.depth \in Nat /\ Frame.top \in Nat
      /\ Frame.dest.block \in Block /\ Frame.top <= Len(c)
      /\ Frame = [op |-> "branch", dest |-> Frame.dest, top |-> Frame.top]
  BY <1>1, FrameFields DEF Frame, BranchFits, Dests
<1>3. UNCHANGED <<cleanups, breakDests, continueDests>> /\ Neutral(todo[1])
  BY <1>1 DEF ThreadCleanup, SameDests, SameCleanups, Neutral, Binds
<1>4. PICK M, sc : /\ MemFits(todo, fn, c, breakDests, continueDests, M, sc)
                   /\ Traced(fn, M, Live(Begin(c, Frame.top)))
                   /\ Frame.dest.depth <= Frame.top
                   /\ M[Frame.dest.block][1] = Live(Begin(c, Frame.dest.depth))
  BY <1>1, <1>2 DEF MemInv, Here, BranchScope
<1>5. c \in Scopes /\ fn \in FunctionType /\ fn.n \in Nat /\ Len(c) \in Nat
  BY <1>4, MemParts
<1>6. CASE /\ Frame.top > Frame.dest.depth
           /\ fn' = EmitCleanup(fn, cleanups[Frame.top])
           /\ Then(<<[Frame EXCEPT !.top = @ - 1]>>)
  <2> DEFINE to == [op |-> "branch", dest |-> Frame.dest, top |-> Frame.top - 1]
  <2>1. todo' = <<to>> \o Tail(todo)
    <3>1. [Frame EXCEPT !.top = @ - 1] = to
      BY <1>2
    <3> QED BY <1>6, <3>1 DEF Then
  <2>2. Frame.top \in 1 .. Len(c) /\ Frame.top - 1 \in Nat /\ Frame.dest.depth <= Frame.top - 1
    BY <1>2, <1>5, <1>6
  <2>3. to \in Frames /\ to.op = "branch" /\ to.dest = Frame.dest /\ to.top = Frame.top - 1
    BY <1>2, <2>2, FrameForms
  <2>4. /\ fn'.n = fn.n
        /\ \E N : Traced(fn', N, Live(Begin(c, Frame.top - 1))) /\ SameStarts(M, N)
    BY <1>4, <1>5, <1>6, <2>2, CleanupTraced
  <2>5. PICK N : Traced(fn', N, Live(Begin(c, Frame.top - 1))) /\ SameStarts(M, N)
    BY <2>4
  <2> HIDE DEF to
  <2>6. /\ KeepsStarts(fn, M, N) /\ N[to.dest.block][1] = Live(Begin(cleanups, to.dest.depth))
        /\ Traced(fn', N, Live(Begin(cleanups, to.top))) /\ to.dest.depth <= to.top
    <3>1. KeepsStarts(fn, M, N)
      BY <2>5, StartsKept
    <3>2. N[Frame.dest.block][1] = M[Frame.dest.block][1]
      BY <1>2, <2>5 DEF SameStarts
    <3> QED BY <1>4, <2>2, <2>3, <2>5, <3>1, <3>2
  <2> QED BY <1>1, <1>3, <1>4, <2>1, <2>3, <2>4, <2>6, BranchGoes
<1>7. CASE /\ Frame.top <= Frame.dest.depth
           /\ fn' = Jump(fn, Frame.dest.block) /\ Then(<< >>)
  <2> DEFINE fs == << >>
  <2>1. todo' = fs \o Tail(todo)
    BY <1>7 DEF Then
  <2>2. Frame.top = Frame.dest.depth
    BY <1>2, <1>4, <1>7
  <2>3. M[Frame.dest.block][1] = Live(Begin(c, Frame.top))
    BY <1>4, <2>2
  <2>4. /\ ~HasValidIP(fn') /\ fn'.n = fn.n
        /\ \E N : Accounts(fn'.insts, N) /\ SameStarts(M, N)
    BY <1>1, <1>2, <1>4, <1>5, <1>7, <2>3, JumpTraced
  <2>5. PICK N : Traced(fn', N, Live(cleanups)) /\ SameStarts(M, N)
    BY <2>4, LostTraced
  <2>6. fs \in Seq(Frames) /\ DOMAIN fs = {} /\ fs = << >> /\ fn.n <= fn'.n /\ fn'.n \in Nat
    BY <1>5, <2>4
  <2> HIDE DEF fs
  <2> QED BY <1>1, <1>3, <1>4, <2>1, <2>5, <2>6, StartsKept, MemStays
<1> QED BY <1>6, <1>7 DEF ThreadCleanup

\* The jump back finds the memory the loop started with.
LEMMA LoopBackTraces ==
    ASSUME GenInv, MemInv, LoopBack
    PROVE  MemInv'
<1> DEFINE fs == << >>
           g == IF HasValidIP(fn) THEN Jump(fn, Frame.loop) ELSE fn
<1>1. /\ todo # << >> /\ todo[1] = Head(todo) /\ todo[1] \in Frames
      /\ todo[1].op = "loopBack" /\ todo[1].op # "branch" /\ Frame = todo[1]
  BY GenInvParts DEF LoopBack, Running, Frame
<1>2. Frame.loop \in Block
  BY <1>1, FrameFields
<1>3. todo' = fs \o Tail(todo) /\ UNCHANGED <<cleanups, breakDests, continueDests>>
  BY DEF LoopBack, Then, SameDests, SameCleanups
<1>4. PICK M, sc : /\ MemFits(todo, fn, cleanups, breakDests, continueDests, M, sc)
                   /\ Traced(fn, M, Live(cleanups))
  BY <1>1, MemAt
<1>5. fn \in FunctionType /\ fn.n \in Nat /\ M[Frame.loop][1] = Live(cleanups)
  <2>1. FrameScope(todo[1], cleanups, M)
    BY <1>1, <1>4, MemParts
  <2> QED BY <1>1, <1>4, <2>1, MemParts DEF FrameScope
<1>6. ~HasValidIP(g) /\ g.n = fn.n /\ \E N : Accounts(g.insts, N) /\ SameStarts(M, N)
  <2>1. CASE HasValidIP(fn)
    BY <1>2, <1>4, <1>5, <2>1, JumpTraced
  <2>2. CASE ~HasValidIP(fn)
    BY <1>4, <2>2 DEF Traced, SameStarts
  <2> QED BY <2>1, <2>2
<1>7. fn' = g
  <2>1. fn' = ExitTrue(g, Frame.cond)
    BY DEF LoopBack
  <2> HIDE DEF g
  <2> QED BY <1>6, <2>1 DEF ExitTrue
<1> HIDE DEF g
<1>8. PICK N : Traced(fn', N, Live(cleanups)) /\ SameStarts(M, N)
  BY <1>6, <1>7, LostTraced
<1>9. /\ Neutral(todo[1]) /\ fs \in Seq(Frames) /\ DOMAIN fs = {} /\ fs = << >>
      /\ fn.n <= fn'.n /\ fn'.n \in Nat
  BY <1>1, <1>5, <1>6, <1>7 DEF Neutral, Binds
<1> HIDE DEF fs
<1> QED BY <1>1, <1>3, <1>4, <1>8, <1>9, StartsKept, MemStays

\* exitTrue leaves by the join, if the end of the arm can be reached.
LEMMA ExitTrueTraced ==
    ASSUME NEW f, Sound(f), NEW M, NEW c, Traced(f, M, Live(c)),
           NEW cond, cond.cont # NoBlock => cond.cont \in f.linked /\ M[cond.cont][1] = Live(c)
    PROVE  LET g == ExitTrue(f, cond)
           IN  /\ Sound(g) /\ g.n = f.n /\ g.linked = f.linked /\ g.emitted = f.emitted
               /\ \E N : Traced(g, N, Live(c)) /\ SameStarts(M, N)
<1> DEFINE g == ExitTrue(f, cond)
<1>1. CASE cond.cont = NoBlock \/ ~HasValidIP(f)
  <2>1. g = f
    BY <1>1 DEF ExitTrue
  <2> QED BY <2>1 DEF SameStarts
<1>2. CASE cond.cont # NoBlock /\ HasValidIP(f)
  <2>1. g = Jump(f, cond.cont)
    BY <1>2 DEF ExitTrue
  <2>2. f \in FunctionType /\ cond.cont \in Block
    BY <1>2, SoundFields
  <2> HIDE DEF g
  <2>3. /\ ~HasValidIP(g) /\ g.n = f.n /\ \E N : Accounts(g.insts, N) /\ SameStarts(M, N)
    BY <1>2, <2>1, <2>2, JumpTraced
  <2>4. \E N : Traced(g, N, Live(c)) /\ SameStarts(M, N)
    BY <2>3, LostTraced
  <2>5. Sound(g) /\ g.linked = f.linked /\ g.emitted = f.emitted
    BY <1>2, <2>1, JumpSound
  <2> QED BY <2>3, <2>4, <2>5 DEF g
<1> QED BY <1>1, <1>2

\* One frame that is pushed.
LEMMA PushedOne ==
    ASSUME NEW a \in Frames, a.op # "branch", Neutral(a), ~EndsLoop(a), NEW c, NEW N, FrameScope(a, c, N)
    PROVE  /\ <<a>> \in Seq(Frames) /\ <<a>>[1].op # "branch"
           /\ \A i \in DOMAIN <<a>> : /\ Neutral(<<a>>[i]) /\ FrameScope(<<a>>[i], c, N)
                                      /\ ~EndsLoop(<<a>>[i])
<1>1. \A i \in DOMAIN <<a>> : <<a>>[i] = a
  OBVIOUS
<1> QED BY <1>1

\* Two frames that are pushed.
LEMMA PushedTwo ==
    ASSUME NEW a \in Frames, a.op # "branch", Neutral(a), ~EndsLoop(a),
           NEW b \in Frames, Neutral(b), ~EndsLoop(b), NEW c, NEW N, FrameScope(a, c, N), FrameScope(b, c, N)
    PROVE  /\ <<a, b>> \in Seq(Frames) /\ <<a, b>>[1].op # "branch"
           /\ \A i \in DOMAIN <<a, b>> : /\ Neutral(<<a, b>>[i]) /\ FrameScope(<<a, b>>[i], c, N)
                                         /\ ~EndsLoop(<<a, b>>[i])
<1>1. \A i \in DOMAIN <<a, b>> : <<a, b>>[i] \in {a, b}
  OBVIOUS
<1> QED BY <1>1

\* After the true arm: the join, and the false block, start with the memory there was
\* at the condition.
LEMMA IfTrueExitTraces ==
    ASSUME GenInv, MemInv, IfTrueExit
    PROVE  MemInv'
<1> DEFINE c == Frame.cond
           f == ExitTrue(fn, c)
           a == Visit(Frame.else)
           b == [op |-> "ifFalseExit", cond |-> c]
           d == [op |-> "complete", cond |-> c]
<1>1. /\ todo # << >> /\ todo[1] = Head(todo) /\ todo[1] \in Frames
      /\ todo[1].op = "ifTrueExit" /\ todo[1].op # "branch" /\ Frame = todo[1]
      /\ FrameFits(todo[1], fn) /\ Owned(todo[1]) \subseteq Pending(fn) /\ Sound(fn)
  BY GenInvParts DEF IfTrueExit, Running, Frame
<1>2. /\ c \in CondRecs /\ c.cont # NoBlock /\ c.cont \in Block
      /\ c.false # NoBlock => Frame.else \in LoopStmt
      /\ Owned(todo[1]) = {c.cont, c.false} \ {NoBlock}
  BY <1>1, FrameFields DEF FrameFits, Owned, CondRecs
<1>3. c.cont \in fn.linked /\ (c.false # NoBlock => c.false \in fn.linked \ fn.emitted)
  BY <1>1, <1>2 DEF Pending
<1>4. PICK M, sc : /\ MemFits(todo, fn, cleanups, breakDests, continueDests, M, sc)
                   /\ Traced(fn, M, Live(cleanups))
  BY <1>1, MemAt
<1>5. /\ fn.n \in Nat /\ M[c.cont][1] = Live(cleanups)
      /\ c.false # NoBlock => /\ M[c.false][1] = Live(cleanups) /\ c.false \in Block
                              /\ Frame.else.kind # "var" /\ May(Frame.else, cleanups)
  <2>1. FrameScope(todo[1], cleanups, M) /\ fn.n \in Nat
    BY <1>1, <1>4, MemParts
  <2>2. c = todo[1].cond
    BY <1>1
  <2>3. c.false # NoBlock => c.false \in Block
    BY <1>2 DEF CondRecs
  <2> QED BY <1>1, <1>2, <2>1, <2>2, <2>3 DEF FrameScope
<1>6. /\ Sound(f) /\ f.n = fn.n /\ f.linked = fn.linked /\ f.emitted = fn.emitted
      /\ \E N : Traced(f, N, Live(cleanups)) /\ SameStarts(M, N)
  BY <1>1, <1>3, <1>4, <1>5, ExitTrueTraced
<1>7. PICK N1 : Traced(f, N1, Live(cleanups)) /\ SameStarts(M, N1)
  BY <1>6
<1>8. Neutral(todo[1])
  BY <1>1 DEF Neutral, Binds
<1> HIDE DEF f
<1>9. CASE c.false # NoBlock /\ fn' = Start(f, c.false) /\ Then(<<a, b>>) /\ SameCleanups /\ SameDests
  <2>1. todo' = <<a, b>> \o Tail(todo) /\ UNCHANGED <<cleanups, breakDests, continueDests>>
    BY <1>9 DEF Then, SameCleanups, SameDests
  <2>2. N1[c.false][1] = Live(cleanups) /\ c.false \in f.linked \ f.emitted
    BY <1>3, <1>5, <1>6, <1>7, <1>9 DEF SameStarts
  <2>3. PICK N : Traced(fn', N, Live(cleanups)) /\ SameStarts(N1, N)
    BY <1>6, <1>7, <1>9, <2>2, ReadyStart
  <2>4. /\ fn'.n = f.n /\ fn.n <= fn'.n /\ fn'.n \in Nat
    BY <1>5, <1>6, <1>9, SoundCounts, Counts
  <2>5. KeepsStarts(fn, M, N) /\ N[c.cont][1] = Live(cleanups)
    <3>1. SameStarts(M, N)
      BY <1>7, <2>3 DEF SameStarts
    <3>2. N[c.cont][1] = Live(cleanups)
      BY <1>2, <1>5, <3>1 DEF SameStarts
    <3> QED BY <3>1, <3>2, StartsKept
  <2>6. /\ a \in Frames /\ a.op = "visit" /\ a.stmt = Frame.else
        /\ b \in Frames /\ b.op = "ifFalseExit" /\ b.cond = c
    <3> HIDE DEF c
    <3> QED BY <1>2, <1>9, FrameForms DEF Visit
  <2> HIDE DEF a, b, c
  <2>7. /\ Neutral(a) /\ ~EndsLoop(a) /\ a.op # "branch" /\ FrameScope(a, cleanups, N)
        /\ Neutral(b) /\ ~EndsLoop(b) /\ FrameScope(b, cleanups, N)
    BY <1>5, <1>9, <2>5, <2>6 DEF Neutral, Binds, EndsLoop, FrameScope, Owned
  <2>8. /\ <<a, b>> \in Seq(Frames) /\ <<a, b>>[1].op # "branch"
        /\ \A i \in DOMAIN <<a, b>> : /\ Neutral(<<a, b>>[i]) /\ FrameScope(<<a, b>>[i], cleanups, N)
                                      /\ ~EndsLoop(<<a, b>>[i])
    BY <2>6, <2>7, PushedTwo
  <2> DEFINE fs == <<a, b>>
  <2> HIDE DEF fs
  <2>9. /\ fs \in Seq(Frames) /\ fs[1].op # "branch" /\ todo' = fs \o Tail(todo)
        /\ \A i \in DOMAIN fs : Neutral(fs[i]) /\ FrameScope(fs[i], cleanups, N) /\ ~EndsLoop(fs[i])
    BY <2>1, <2>8 DEF fs
  <2> QED BY <1>1, <1>4, <1>8, <2>1, <2>3, <2>4, <2>5, <2>9, MemStays
<1>10. CASE fn' = f /\ Then(<<d>>) /\ SameCleanups /\ SameDests
  <2>1. todo' = <<d>> \o Tail(todo) /\ UNCHANGED <<cleanups, breakDests, continueDests>>
    BY <1>10 DEF Then, SameCleanups, SameDests
  <2>2. /\ fn.n <= fn'.n /\ fn'.n \in Nat /\ Traced(fn', N1, Live(cleanups))
        /\ KeepsStarts(fn, M, N1) /\ N1[c.cont][1] = Live(cleanups)
    BY <1>2, <1>5, <1>6, <1>7, <1>10, StartsKept DEF SameStarts
  <2>3. d \in Frames /\ d.op = "complete" /\ d.cond = c
    <3> HIDE DEF c
    <3> QED BY <1>2, FrameForms
  <2> HIDE DEF d, c
  <2>4. Neutral(d) /\ ~EndsLoop(d) /\ d.op # "branch" /\ FrameScope(d, cleanups, N1)
    BY <1>5, <2>2, <2>3 DEF Neutral, Binds, EndsLoop, FrameScope, Owned
  <2>5. /\ <<d>> \in Seq(Frames) /\ <<d>>[1].op # "branch"
        /\ \A i \in DOMAIN <<d>> : /\ Neutral(<<d>>[i]) /\ FrameScope(<<d>>[i], cleanups, N1)
                                   /\ ~EndsLoop(<<d>>[i])
    BY <2>3, <2>4, PushedOne
  <2> QED BY <1>1, <1>4, <1>8, <2>1, <2>2, <2>5, MemStays
<1>11. CASE Abort("continuation block used")
  BY <1>11, AbortTraces, ZenonT(60)
<1> QED BY <1>9, <1>10, <1>11 DEF IfTrueExit, Require, f

\* After the false arm: a branch taken back leaves the memory the join starts with.
LEMMA IfFalseExitTraces ==
    ASSUME GenInv, MemInv, IfFalseExit
    PROVE  MemInv'
<1> DEFINE c == Frame.cond
           pred == Head(fn.preds[c.cont])
           zapped == [EraseTerminator(fn, pred) EXCEPT !.ip = pred]
           d == [op |-> "complete", cond |-> c]
           done == Then(<<d>>) /\ SameCleanups /\ SameDests /\ Fine
<1>1. /\ todo # << >> /\ todo[1] = Head(todo) /\ todo[1] \in Frames
      /\ todo[1].op = "ifFalseExit" /\ todo[1].op # "branch" /\ Frame = todo[1]
      /\ FrameFits(todo[1], fn) /\ Owned(todo[1]) \subseteq Pending(fn) /\ Sound(fn)
  BY GenInvParts, ZenonT(60) DEF IfFalseExit, Running, Frame
<1>2. /\ c \in CondRecs /\ c.cont # NoBlock /\ c.cont \in Block /\ OneJump(fn, c.cont)
      /\ Owned(todo[1]) = {c.cont}
  BY <1>1, FrameFields DEF FrameFits, Owned, CondRecs
<1>3. c.cont \in fn.linked /\ c = todo[1].cond
  BY <1>1, <1>2 DEF Pending
<1>4. PICK M, sc : /\ MemFits(todo, fn, cleanups, breakDests, continueDests, M, sc)
                   /\ Traced(fn, M, Live(cleanups))
  BY <1>1, MemAt
<1>5. /\ fn.n \in Nat /\ M[c.cont][1] = Live(cleanups)
  <2>1. FrameScope(todo[1], cleanups, M) /\ fn.n \in Nat
    BY <1>1, <1>4, MemParts
  <2> QED BY <1>2, <2>1 DEF FrameScope
<1>6. Neutral(todo[1])
  BY <1>1 DEF Neutral, Binds
<1>7. ASSUME done, fn'.n = fn.n, \E N : Traced(fn', N, Live(cleanups)) /\ SameStarts(M, N) PROVE MemInv'
  <2>1. todo' = <<d>> \o Tail(todo) /\ UNCHANGED <<cleanups, breakDests, continueDests>>
    BY <1>7 DEF Then, SameCleanups, SameDests
  <2>2. PICK N : Traced(fn', N, Live(cleanups)) /\ SameStarts(M, N)
    BY <1>7
  <2>3. /\ fn.n <= fn'.n /\ fn'.n \in Nat /\ KeepsStarts(fn, M, N) /\ N[c.cont][1] = Live(cleanups)
    BY <1>2, <1>5, <1>7, <2>2, StartsKept DEF SameStarts
  <2>4. d \in Frames /\ d.op = "complete" /\ d.cond = c
    <3> HIDE DEF c
    <3> QED BY <1>2, FrameForms
  <2> HIDE DEF d, c
  <2>5. Neutral(d) /\ ~EndsLoop(d) /\ d.op # "branch" /\ FrameScope(d, cleanups, N)
    BY <2>3, <2>4 DEF Neutral, Binds, EndsLoop, FrameScope, Owned
  <2>6. /\ <<d>> \in Seq(Frames) /\ <<d>>[1].op # "branch"
        /\ \A i \in DOMAIN <<d>> : /\ Neutral(<<d>>[i]) /\ FrameScope(<<d>>[i], cleanups, N)
                                   /\ ~EndsLoop(<<d>>[i])
    BY <2>4, <2>5, PushedOne
  <2> QED BY <1>1, <1>4, <1>6, <2>1, <2>2, <2>3, <2>6, MemStays
<1>8. CASE PredEmpty(fn, c.cont) /\ UNCHANGED fn /\ done
  BY <1>4, <1>7, <1>8 DEF SameStarts
<1>9. CASE ~PredEmpty(fn, c.cont) /\ ~HasValidIP(fn) /\ fn' = zapped /\ done
  <2>1. \E N : Traced(fn', N, Live(cleanups)) /\ SameStarts(M, N)
    <3> HIDE DEF c
    <3> QED BY <1>1, <1>2, <1>4, <1>5, <1>9, ZapTraced
  <2>2. fn'.n = fn.n
    <3> DEFINE g == EraseTerminator(fn, pred)
    <3>1. Counted(g) /\ g.n = fn.n
      BY <1>1, SoundCounts DEF EraseTerminator, Counted
    <3> HIDE DEF g
    <3>2. [g EXCEPT !.ip = pred].n = fn.n
      BY <3>1 DEF Counted
    <3> QED BY <1>9, <3>2, SMTT(30) DEF g
  <2> QED BY <1>7, <1>9, <2>1, <2>2
<1>10. CASE HasValidIP(fn) /\ fn' = Jump(fn, c.cont) /\ done
  <2>1. fn' = ExitTrue(fn, c)
    BY <1>2, <1>10 DEF ExitTrue
  <2>2. fn'.n = fn.n /\ \E N : Traced(fn', N, Live(cleanups)) /\ SameStarts(M, N)
    BY <1>1, <1>3, <1>4, <1>5, <2>1, ExitTrueTraced
  <2> QED BY <1>7, <1>10, <2>2
<1>11. CASE Abort("zapped branch keeps block alive")
  BY <1>11, AbortTraces
<1> QED BY <1>8, <1>9, <1>10, <1>11, ZenonT(60) DEF IfFalseExit, Require

\* The join is emitted, or goes.
LEMMA CompleteTraces ==
    ASSUME GenInv, MemInv, Complete
    PROVE  MemInv'
<1> DEFINE cont == Frame.cond.cont
           fs == << >>
           done == Then(fs) /\ SameCleanups /\ SameDests /\ Fine
<1>1. /\ todo # << >> /\ todo[1] = Head(todo) /\ todo[1] \in Frames /\ Sound(fn)
      /\ todo[1].op = "complete" /\ todo[1].op # "branch" /\ Frame = todo[1]
      /\ Owned(todo[1]) \subseteq Pending(fn)
  BY GenInvParts DEF Complete, Running, Frame
<1>2. Owned(todo[1]) = {cont} \ {NoBlock} /\ Neutral(todo[1])
  BY <1>1 DEF Owned, Neutral, Binds
<1>3. PICK M, sc : /\ MemFits(todo, fn, cleanups, breakDests, continueDests, M, sc)
                   /\ Traced(fn, M, Live(cleanups))
  BY <1>1, MemAt
<1>4. fn.n \in Nat /\ fn \in FunctionType /\ Counted(fn) /\ FrameScope(todo[1], cleanups, M)
  BY <1>1, <1>3, MemParts
<1>5. cont # NoBlock => cont \in fn.linked \ fn.emitted /\ M[cont][1] = Live(cleanups)
  BY <1>1, <1>2, <1>4 DEF FrameScope, Pending
<1>6. ASSUME done, fn'.n = fn.n, \E N : Traced(fn', N, Live(cleanups)) /\ SameStarts(M, N) PROVE MemInv'
  <2>1. todo' = fs \o Tail(todo) /\ UNCHANGED <<cleanups, breakDests, continueDests>>
    BY <1>6 DEF Then, SameCleanups, SameDests
  <2>2. PICK N : Traced(fn', N, Live(cleanups)) /\ SameStarts(M, N)
    BY <1>6
  <2>3. fs \in Seq(Frames) /\ DOMAIN fs = {} /\ fs = << >> /\ fn.n <= fn'.n /\ fn'.n \in Nat
    BY <1>4, <1>6
  <2> HIDE DEF fs
  <2> QED BY <1>1, <1>2, <1>3, <2>1, <2>2, <2>3, StartsKept, MemStays
<1>7. CASE UNCHANGED fn /\ done
  BY <1>3, <1>6, <1>7 DEF SameStarts
<1>8. CASE fn' = EraseBlock(fn, cont) /\ done
  <2>1. Traced(fn', M, Live(cleanups)) /\ fn'.n = fn.n
    BY <1>3, <1>4, <1>8, EraseTraced, Counts
  <2> QED BY <1>6, <1>8, <2>1 DEF SameStarts
<1>9. CASE cont # NoBlock /\ fn' = Start(fn, cont) /\ done
  <2>1. fn'.n = fn.n /\ \E N : Traced(fn', N, Live(cleanups)) /\ SameStarts(M, N)
    BY <1>1, <1>3, <1>4, <1>5, <1>9, ReadyStart, Counts
  <2> QED BY <1>6, <1>9, <2>1
<1>10. ASSUME NEW what, Abort(what) PROVE MemInv'
  BY <1>10, AbortTraces
<1> QED BY <1>7, <1>8, <1>9, <1>10 DEF Complete, Require

\* A condition is emitted: the new blocks start with the memory at hand.
LEMMA ConditionOpened ==
    ASSUME NEW f, Sound(f), NEW M, NEW m, Traced(f, M, m), HasValidIP(f), NEW cond \in Name,
           NEW hasFalse \in BOOLEAN, NEW invert \in BOOLEAN,
           f.n + (IF hasFalse THEN 3 ELSE 2) <= MaxBlock
    PROVE  LET g == EnterTrue(EmitCondition(f, cond, hasFalse, invert), CondBlocks(f, hasFalse))
           IN  /\ g.n = f.n + (IF hasFalse THEN 3 ELSE 2)
               /\ \E N : /\ Traced(g, N, m) /\ KeepsStarts(f, M, N)
                         /\ \A b \in Block : b > f.n => N[b][1] = m
<1> DEFINE c == CondBlocks(f, hasFalse)
           e == EmitCondition(f, cond, hasFalse, invert)
           g == EnterTrue(e, c)
<1>1. Counted(f) /\ f.n \in Nat
  BY SoundCounts
<1>2. Counted(e) /\ e.n = f.n + (IF hasFalse THEN 3 ELSE 2)
  <2> DEFINE one == NewBlock(f)
             two == NewBlock(one)
             all == IF hasFalse THEN NewBlock(two) ELSE two
  <2>1. Counted(one) /\ one.n = f.n + 1
    BY <1>1, Counts
  <2> HIDE DEF one
  <2>2. Counted(two) /\ two.n = f.n + 2
    BY <1>1, <2>1, Counts
  <2> HIDE DEF two
  <2>3. Counted(all) /\ all.n = f.n + (IF hasFalse THEN 3 ELSE 2)
    BY <1>1, <2>2, Counts
  <2>4. PICK inst : e = Terminate(all, inst)
    BY DEF EmitCondition, CreateCondBranch, one, two
  <2> HIDE DEF all, e
  <2> QED BY <2>3, <2>4, Counts
<1> HIDE DEF e
<1>3. g.n = f.n + (IF hasFalse THEN 3 ELSE 2)
  BY <1>2, Counts DEF EnterTrue
<1>4. PICK N0 : Ready(f, N0, m) /\ KeepsStarts(f, M, N0)
  BY MakeReady
<1>5. PICK N : Traced(g, N, m) /\ SameStarts(N0, N)
  BY <1>4, ReadyCondition DEF g, c, e
<1>6. KeepsStarts(f, M, N) /\ \A b \in Block : b > f.n => N[b][1] = m
  BY <1>4, <1>5 DEF KeepsStarts, SameStarts, Ready
<1> HIDE DEF g
<1>7. \E P : Traced(g, P, m) /\ KeepsStarts(f, M, P) /\ \A b \in Block : b > f.n => P[b][1] = m
  BY <1>5, <1>6
<1> QED BY <1>3, <1>7 DEF g, e, c

\* The arms of an if, and its join, start with the memory there is at the condition.
LEMMA VisitIfTraces ==
    ASSUME GenInv, MemInv, VisitIf
    PROVE  MemInv'
<1> DEFINE hasFalse == Stmt.else # NoStmt
           c == CondBlocks(fn, hasFalse)
           g == EnterTrue(EmitCondition(fn, Stmt.cond, hasFalse, FALSE), c)
           a == Visit(Stmt.then)
           b == [op |-> "ifTrueExit", cond |-> c, else |-> Stmt.else]
<1>1. /\ todo # << >> /\ todo[1] = Head(todo) /\ todo[1] \in Frames /\ HasValidIP(fn)
      /\ todo[1].op = "visit" /\ todo[1].stmt.kind = "if" /\ todo[1].op # "branch" /\ Sound(fn)
  BY GenInvParts DEF VisitIf, Visiting, Running, NeedsIP
<1>2. /\ Stmt = todo[1].stmt /\ Stmt \in LoopStmt /\ Stmt.cond \in Name
      /\ Stmt.then \in LoopStmt /\ Stmt.else \in LoopStmt \cup {NoStmt} /\ hasFalse \in BOOLEAN
  BY <1>1, FrameFields, StatementParts DEF Stmt
<1>3. CASE /\ fn.n + (IF hasFalse THEN 3 ELSE 2) <= MaxBlock /\ fn' = g
           /\ Then(<<a, b>>) /\ SameCleanups /\ SameDests
  <2>1. /\ todo' = <<a, b>> \o Tail(todo) /\ UNCHANGED <<cleanups, breakDests, continueDests>>
    BY <1>3 DEF Then, SameCleanups, SameDests
  <2>2. PICK M, sc : /\ MemFits(todo, fn, cleanups, breakDests, continueDests, M, sc)
                     /\ Traced(fn, M, Live(cleanups))
    BY <1>1, MemAt
  <2>3. FrameScope(todo[1], cleanups, M) /\ fn.n \in Nat /\ fn.linked \subseteq 1 .. fn.n
    BY <1>1, <2>2, MemParts DEF Sound
  <2>4. /\ c \in CondRecs /\ c.cont \in Block /\ c.cont > fn.n
        /\ c.false # NoBlock => c.false \in Block /\ c.false > fn.n /\ hasFalse
    <3>1. fn.n + 1 \in Block /\ fn.n + 2 \in Block /\ (hasFalse => fn.n + 3 \in Block) /\ NoBlock \notin Block
      BY <1>3, <2>3, MaxBlockAssumption DEF Block, NoBlock
    <3>2. c.cont = fn.n + 1 /\ c.false = (IF hasFalse THEN fn.n + 3 ELSE NoBlock) /\ c \in CondRecs
      BY <3>1 DEF CondBlocks, CondRecs
    <3> HIDE DEF c
    <3>3. c.cont \in Block /\ c.cont > fn.n
      BY <2>3, <3>1, <3>2
    <3>4. c.false # NoBlock => c.false \in Block /\ c.false > fn.n /\ hasFalse
      BY <2>3, <3>1, <3>2
    <3> QED BY <3>2, <3>3, <3>4
  <2>5. fn'.n >= fn.n /\ \E N : /\ Traced(fn', N, Live(cleanups)) /\ KeepsStarts(fn, M, N)
                                /\ \A d \in Block : d > fn.n => N[d][1] = Live(cleanups)
    <3> DEFINE no == FALSE
               h == EnterTrue(EmitCondition(fn, Stmt.cond, hasFalse, no), CondBlocks(fn, hasFalse))
    <3>1. no \in BOOLEAN /\ hasFalse \in BOOLEAN /\ fn.n + (IF hasFalse THEN 3 ELSE 2) <= MaxBlock
      BY <1>3
    <3>2. fn' = h
      BY <1>3
    <3> HIDE DEF no, hasFalse
    <3>3. /\ h.n = fn.n + (IF hasFalse THEN 3 ELSE 2)
          /\ \E N : /\ Traced(h, N, Live(cleanups)) /\ KeepsStarts(fn, M, N)
                    /\ \A d \in Block : d > fn.n => N[d][1] = Live(cleanups)
      BY <1>1, <1>2, <2>2, <3>1, ConditionOpened
    <3> HIDE DEF h
    <3>4. h.n >= fn.n
      BY <2>3, <3>3
    <3> QED BY <3>2, <3>3, <3>4
  <2>6. PICK N : /\ Traced(fn', N, Live(cleanups)) /\ KeepsStarts(fn, M, N)
                 /\ \A d \in Block : d > fn.n => N[d][1] = Live(cleanups)
    BY <2>5
  <2>7. /\ a \in Frames /\ a.op = "visit" /\ a.stmt = Stmt.then
        /\ b \in Frames /\ b.op = "ifTrueExit" /\ b.cond = c /\ b.else = Stmt.else
    <3> HIDE DEF c
    <3> QED BY <1>2, <2>4, FrameForms DEF Visit
  <2>8. /\ Stmt.then.kind # "var" /\ May(Stmt.then, cleanups)
        /\ hasFalse => Stmt.else.kind # "var" /\ May(Stmt.else, cleanups)
    <3>1. May(Stmt, cleanups) /\ DeclaresOnce(Stmt)
      BY <1>1, <1>2, <2>3, ScopeAssumption DEF FrameScope
    <3>2. Inside(Stmt.then, Stmt, << >>) /\ (hasFalse => Inside(Stmt.else, Stmt, << >>))
      BY <1>1, <1>2, <3>1 DEF DeclaresOnce
    <3> QED BY <3>1, <3>2 DEF Inside, May
  <2> HIDE DEF a, b, c, g
  <2>10. /\ Neutral(a) /\ ~EndsLoop(a) /\ a.op # "branch" /\ FrameScope(a, cleanups, N)
         /\ Neutral(b) /\ ~EndsLoop(b)
    BY <2>7, <2>8 DEF Neutral, Binds, EndsLoop, FrameScope, Owned
  <2>11. FrameScope(b, cleanups, N)
    <3>1. \A d \in Owned(b) : d \in Block /\ d > fn.n
      BY <2>4, <2>7 DEF Owned
    <3> QED BY <2>4, <2>6, <2>7, <2>8, <3>1 DEF FrameScope
  <2> DEFINE fs == <<a, b>>
  <2>12. /\ fs \in Seq(Frames) /\ fs[1].op # "branch"
         /\ \A i \in DOMAIN fs : /\ Neutral(fs[i]) /\ FrameScope(fs[i], cleanups, N) /\ ~EndsLoop(fs[i])
    BY <2>7, <2>10, <2>11, PushedTwo
  <2>13. /\ todo' = fs \o Tail(todo) /\ Neutral(todo[1]) /\ fn.n <= fn'.n /\ fn'.n \in Nat
    <3>1. Sound(fn')
      <4> DEFINE no == FALSE
      <4>1. no \in BOOLEAN /\ hasFalse \in BOOLEAN /\ fn.n + (IF hasFalse THEN 3 ELSE 2) <= MaxBlock
            /\ fn' = EnterTrue(EmitCondition(fn, Stmt.cond, hasFalse, no), CondBlocks(fn, hasFalse))
        BY <1>3 DEF g, c
      <4> HIDE DEF no, hasFalse
      <4> QED BY <1>1, <1>2, <4>1, ConditionSound
    <3>2. fn'.n \in Nat
      BY <3>1, SoundCounts
    <3> QED BY <1>1, <2>1, <2>3, <2>5, <3>2 DEF Neutral, Binds
  <2> HIDE DEF fs
  <2> QED BY <1>1, <2>1, <2>2, <2>6, <2>12, <2>13, MemStays
<1>4. CASE Abort("condition without insertion point")
  BY <1>4, AbortTraces
<1> QED BY <1>3, <1>4 DEF VisitIf, Require

\* g is f after a condition without false code, with blocks c, has been opened.
Opens(f, g, c, M, m) ==
    /\ g.n = f.n + 2 /\ c \in CondRecs /\ c.cont \in Block /\ c.cont > f.n
    /\ c.false = NoBlock /\ c.cont # NoBlock
    /\ \E N : /\ Traced(g, N, m) /\ KeepsStarts(f, M, N)
              /\ \A b \in Block : b > f.n => N[b][1] = m

\* The same for a condition without false code, as loops have.
LEMMA LoopConditionOpened ==
    ASSUME NEW f, Sound(f), NEW M, NEW m, Traced(f, M, m), HasValidIP(f), NEW cond \in Name,
           NEW invert \in BOOLEAN, f.n + 2 <= MaxBlock
    PROVE  Opens(f, EnterTrue(EmitCondition(f, cond, FALSE, invert), CondBlocks(f, FALSE)),
                 CondBlocks(f, FALSE), M, m)
<1> DEFINE no == FALSE
           c == CondBlocks(f, no)
           g == EnterTrue(EmitCondition(f, cond, no, invert), CondBlocks(f, no))
<1>1. no \in BOOLEAN /\ ~no /\ f.n + (IF no THEN 3 ELSE 2) <= MaxBlock /\ f.n \in Nat
  BY SoundCounts
<1>2. f.n + (IF no THEN 3 ELSE 2) = f.n + 2
  OBVIOUS
<1>3. /\ c \in CondRecs /\ c.cont \in Block /\ c.cont > f.n /\ c.false = NoBlock /\ c.cont # NoBlock
  <2>1. f.n + 1 \in Block /\ f.n + 2 \in Block /\ NoBlock \notin Block
    BY <1>1, MaxBlockAssumption DEF Block, NoBlock
  <2>2. c.cont = f.n + 1 /\ c.false = NoBlock /\ c \in CondRecs
    BY <2>1 DEF CondBlocks, CondRecs
  <2> HIDE DEF c
  <2> QED BY <1>1, <2>1, <2>2
<1> HIDE DEF no, c
<1>4. /\ g.n = f.n + (IF no THEN 3 ELSE 2)
      /\ \E N : /\ Traced(g, N, m) /\ KeepsStarts(f, M, N)
                /\ \A b \in Block : b > f.n => N[b][1] = m
  BY <1>1, ConditionOpened
<1> HIDE DEF g
<1>5. g.n = f.n + 2
  BY <1>2, <1>4
<1>6. Opens(f, g, c, M, m)
  BY <1>3, <1>4, <1>5 DEF Opens
<1> QED BY <1>6 DEF g, c, no

\* The condition of a do-while finds the memory its loop started with.
LEMMA DoConditionTraces ==
    ASSUME GenInv, MemInv, DoCondition
    PROVE  MemInv'
<1> DEFINE c == CondBlocks(fn, FALSE)
           enter == EnterTrue(EmitCondition(fn, Frame.cond, FALSE, FALSE), c)
           end == Frame.loop + 1
           a == [op |-> "complete", cond |-> c]
           b == [op |-> "endLoop", end |-> end]
<1>1. /\ todo # << >> /\ todo[1] = Head(todo) /\ todo[1] \in Frames /\ Sound(fn)
      /\ todo[1].op = "doCondition" /\ todo[1].op # "branch" /\ Frame = todo[1]
      /\ FrameFits(todo[1], fn) /\ Owned(todo[1]) \subseteq Pending(fn) /\ Pending(fn) \subseteq Block
  BY GenInvParts DEF DoCondition, Running, Frame
<1>2. /\ Owned(todo[1]) = {end} /\ end \in Block /\ EndsLoop(todo[1]) /\ EndOf(todo[1]) = end
      /\ Frame.cond \in Name /\ Frame.loop \in Block /\ Frame.loop \in fn.linked
  BY <1>1, FrameFields DEF Owned, FrameFits, EndsLoop, EndOf, Sound
<1>3. UNCHANGED <<cleanups, breakDests, continueDests>> /\ Neutral(todo[1])
  BY <1>1 DEF DoCondition, SameCleanups, SameDests, Neutral, Binds
<1>4. PICK M, sc : /\ MemFits(todo, fn, cleanups, breakDests, continueDests, M, sc)
                   /\ Traced(fn, M, Live(cleanups))
  BY <1>1, MemAt
<1>5. /\ fn.n \in Nat /\ M[end][1] = Live(cleanups) /\ M[Frame.loop][1] = Live(cleanups)
  <2>1. FrameScope(todo[1], cleanups, M) /\ fn.n \in Nat
    BY <1>1, <1>4, MemParts
  <2> QED BY <1>1, <1>2, <2>1 DEF FrameScope
<1>6. b \in Frames /\ b.op = "endLoop" /\ b.end = end
  <2> HIDE DEF end
  <2> QED BY <1>2, FrameForms
<1>7. Frame.loop <= fn.n /\ end <= fn.n
  <2>1. end \in fn.linked /\ Frame.loop \in fn.linked /\ fn.linked \subseteq 1 .. fn.n
    BY <1>1, <1>2 DEF Pending, Sound
  <2> QED BY <1>5, <2>1
<1> HIDE DEF end, b
<1>8. Owned(b) = {end} /\ Neutral(b) /\ EndsLoop(b) /\ EndOf(b) = end
  BY <1>6 DEF Owned, Neutral, Binds, EndsLoop, EndOf
<1>9. ASSUME NEW N, N[end][1] = Live(cleanups) PROVE FrameScope(b, cleanups, N)
  BY <1>6, <1>8, <1>9 DEF FrameScope
<1>10. CASE ~HasValidIP(fn) /\ UNCHANGED fn /\ Then(<<b>>)
  <2> DEFINE fs == <<b>>
  <2>1. todo' = fs \o Tail(todo) /\ fn.n <= fn'.n /\ fn'.n \in Nat /\ KeepsStarts(fn, M, M)
        /\ Traced(fn', M, Live(cleanups))
    BY <1>4, <1>5, <1>10 DEF Then, KeepsStarts
  <2>2. fs \in Seq(Frames) /\ \A i \in DOMAIN fs : fs[i] = b /\ fs[1] = b
    BY <1>6
  <2> HIDE DEF fs
  <2>3. /\ fs # << >> => fs[1].op # "branch"
        /\ \A i \in DOMAIN fs : /\ Neutral(fs[i]) /\ FrameScope(fs[i], cleanups, M)
                                /\ EndsLoop(fs[i]) => EndsLoop(todo[1]) /\ EndOf(fs[i]) = EndOf(todo[1])
    <3>1. fs # << >> => 1 \in DOMAIN fs
      BY <2>2
    <3> QED BY <1>2, <1>5, <1>6, <1>8, <1>9, <2>2, <3>1
  <2> QED BY <1>1, <1>3, <1>4, <2>1, <2>2, <2>3, MemStays
<1>11. CASE /\ HasValidIP(fn) /\ fn.n + 2 <= MaxBlock
            /\ fn' = ExitTrue(Jump(enter, Frame.loop), c) /\ Then(<<a, b>>)
  <2> DEFINE fs == <<a, b>>
             g == Jump(enter, Frame.loop)
  <2>1. todo' = fs \o Tail(todo)
    BY <1>11 DEF Then
  <2>2. FALSE \in BOOLEAN /\ fn.n + 2 <= MaxBlock /\ HasValidIP(fn)
    BY <1>11
  <2>3. Opens(fn, enter, c, M, Live(cleanups))
    BY <1>1, <1>2, <1>4, <2>2, LoopConditionOpened
  <2>4. Sound(enter) /\ enter.ip = c.true /\ c.true # NoBlock /\ c.cont # NoBlock
    BY <1>1, <1>2, <2>2, LoopConditionSound
  <2>5. a \in Frames /\ a.op = "complete" /\ a.cond = c
    <3> HIDE DEF c, enter
    <3> QED BY <2>3, FrameForms DEF Opens
  <2>6. HasValidIP(enter) /\ enter \in FunctionType
    BY <2>4, SoundFields DEF HasValidIP
  <2> HIDE DEF a, c, enter, fs
  <2>7. PICK N1 : /\ Traced(enter, N1, Live(cleanups)) /\ KeepsStarts(fn, M, N1)
                  /\ \A d \in Block : d > fn.n => N1[d][1] = Live(cleanups)
    BY <2>3 DEF Opens
  <2>8. N1[Frame.loop][1] = Live(cleanups) /\ N1[end][1] = Live(cleanups) /\ N1[c.cont][1] = Live(cleanups)
    BY <1>2, <1>5, <1>7, <2>3, <2>7 DEF KeepsStarts, Opens
  <2>9. ~HasValidIP(g) /\ g.n = enter.n /\ \E N : Accounts(g.insts, N) /\ SameStarts(N1, N)
    BY <1>2, <2>6, <2>7, <2>8, JumpTraced
  <2> HIDE DEF g
  <2>10. fn' = g
    <3>1. fn' = ExitTrue(g, c)
      BY <1>11 DEF g
    <3> QED BY <2>9, <3>1 DEF ExitTrue
  <2>11. PICK N : Traced(fn', N, Live(cleanups)) /\ SameStarts(N1, N)
    BY <2>9, <2>10, LostTraced
  <2>12. /\ KeepsStarts(fn, M, N) /\ N[end][1] = Live(cleanups) /\ N[c.cont][1] = Live(cleanups)
    BY <1>2, <2>3, <2>7, <2>8, <2>11 DEF KeepsStarts, SameStarts, Opens
  <2>13. fn.n <= fn'.n /\ fn'.n \in Nat
    BY <1>5, <2>3, <2>9, <2>10 DEF Opens
  <2>14. Neutral(a) /\ ~EndsLoop(a) /\ a.op # "branch" /\ FrameScope(a, cleanups, N)
    BY <2>5, <2>12 DEF Neutral, Binds, EndsLoop, FrameScope, Owned
  <2>15. /\ fs \in Seq(Frames) /\ (\A i \in DOMAIN fs : fs[i] \in {a, b}) /\ fs[1] = a
    BY <1>6, <2>5 DEF fs
  <2>16. /\ fs # << >> => fs[1].op # "branch"
         /\ \A i \in DOMAIN fs : /\ Neutral(fs[i]) /\ FrameScope(fs[i], cleanups, N)
                                 /\ EndsLoop(fs[i]) => EndsLoop(todo[1]) /\ EndOf(fs[i]) = EndOf(todo[1])
    BY <1>2, <1>8, <1>9, <2>12, <2>14, <2>15
  <2> QED BY <1>1, <1>3, <1>4, <2>1, <2>11, <2>12, <2>13, <2>15, <2>16, MemStays
<1> QED BY <1>10, <1>11 DEF DoCondition, Finally, b, end

\* The end of a loop takes the destinations of the loop away.
LEMMA EndLoopTraces ==
    ASSUME GenInv, MemInv, EndLoop
    PROVE  MemInv'
<1> DEFINE fs == << >>
           bdn == SubSeq(breakDests, 1, Len(breakDests) - 1)
           cdn == SubSeq(continueDests, 1, Len(continueDests) - 1)
           u == fs \o Tail(todo)
<1>1. /\ todo # << >> /\ todo[1] = Head(todo) /\ todo[1] \in Frames /\ Sound(fn)
      /\ todo[1].op = "endLoop" /\ todo[1].op # "branch" /\ Frame = todo[1]
      /\ Owned(todo[1]) \subseteq Pending(fn) /\ Pending(fn) \subseteq Block
      /\ StackFits(todo, fn) /\ todo \in Seq(Frames)
  BY GenInvParts DEF EndLoop, Running, Frame, GenInv
<1>2. Owned(todo[1]) = {Frame.end} /\ Neutral(todo[1])
  BY <1>1 DEF Owned, Neutral, Binds
<1>3. PICK M, sc : /\ MemFits(todo, fn, cleanups, breakDests, continueDests, M, sc)
                   /\ Traced(fn, M, Live(cleanups))
  BY <1>1, MemAt
<1>4. /\ fn.n \in Nat /\ Counted(fn) /\ cleanups \in Scopes /\ sc[1] = cleanups /\ 1 \in DOMAIN todo
      /\ M[Frame.end][1] = Live(cleanups) /\ Frame.end \in Pending(fn)
  <2>1. FrameScope(todo[1], cleanups, M) /\ fn.n \in Nat
    BY <1>1, <1>3, MemParts
  <2> QED BY <1>1, <1>2, <1>3, <2>1, MemParts DEF FrameScope
<1>5. todo' = u /\ cleanups' = cleanups /\ breakDests' = bdn /\ continueDests' = cdn
      /\ fn' = EmitOrDelete(fn, Frame.end)
  BY DEF EndLoop, Then, SameCleanups
<1>6. PICK N : Traced(fn', N, Live(cleanups)) /\ SameStarts(M, N)
  BY <1>1, <1>3, <1>4, <1>5, EmitOrDeleteTraced
<1>7. KeepsStarts(fn, M, N) /\ fn'.n = fn.n /\ fn.n <= fn'.n /\ fn'.n \in Nat
  BY <1>4, <1>5, <1>6, StartsKept, Counts DEF EmitOrDelete
<1>8. fs \in Seq(Frames) /\ fs = << >> /\ DOMAIN fs = {}
  OBVIOUS
<1>9. Refits(todo, fs, cleanups, sc, cleanups, fs, N)
  <2>1. 2 \in DOMAIN todo => sc[2] = cleanups
    <3>1. ASSUME 2 \in DOMAIN todo PROVE After(todo[1], todo[2], cleanups, sc[2])
      <4>1. 1 + 1 = 2
        OBVIOUS
      <4> QED BY <1>3, <1>4, <3>1, <4>1 DEF MemFits, ScopesOf
    <3> QED BY <1>2, <3>1, NeutralAfter
  <2> QED BY <1>4, <2>1, RefitsNone
<1>10. /\ breakDests \in Seq(Dests) /\ continueDests \in Seq(Dests) /\ Len(breakDests) = Len(continueDests)
       /\ breakDests # << >>
  <2>1. DestsMatch(todo, breakDests) /\ EndsLoop(todo[1]) /\ DOMAIN todo \subseteq Nat \ {0}
        /\ breakDests \in Seq(Dests)
    BY <1>1 DEF GenInv, DestsFit, EndsLoop
  <2> QED BY <1>4, <2>1, InnermostEnds DEF GenInv, DestsFit
<1>11. \A j \in DOMAIN bdn : /\ j \in DOMAIN breakDests /\ j \in DOMAIN continueDests
                             /\ bdn[j] = breakDests[j] /\ cdn[j] = continueDests[j]
  <2> DEFINE n == Len(breakDests) - 1
  <2>1. n \in 0 .. Len(breakDests) /\ n \in 0 .. Len(continueDests) /\ n \in Nat
    BY <1>10
  <2>2. /\ DOMAIN SubSeq(breakDests, 1, n) = 1 .. n
        /\ \A i \in 1 .. n : SubSeq(breakDests, 1, n)[i] = breakDests[i]
    BY <1>10, <2>1, BeginningOf
  <2>3. \A i \in 1 .. n : SubSeq(continueDests, 1, n)[i] = continueDests[i]
    BY <1>10, <2>1, BeginningOf
  <2>4. bdn = SubSeq(breakDests, 1, n) /\ cdn = SubSeq(continueDests, 1, n)
    BY <1>10
  <2>5. \A i \in 1 .. n : i \in DOMAIN breakDests /\ i \in DOMAIN continueDests
    BY <1>10
  <2> HIDE DEF bdn, cdn, n
  <2> QED BY <2>2, <2>3, <2>4, <2>5
<1> HIDE DEF bdn, cdn, u, fs
<1>12. Redirects(todo, fn, fs, cleanups, breakDests, continueDests, bdn, cdn, fn', N)
  BY <1>8, <1>11 DEF Redirects
<1>13. Replaces(todo, fs, u)
  BY <1>1, <1>8, PushReplaces DEF u
<1>14. PICK sd : MemFits(u, fn', cleanups, bdn, cdn, N, sd)
  BY <1>1, <1>3, <1>7, <1>9, <1>10, <1>12, <1>13, MemReplaced
<1>15. MemFits(todo', fn', cleanups', breakDests', continueDests', N, sd) /\ Traced(fn', N, Live(cleanups'))
  BY <1>5, <1>6, <1>14
<1> QED BY <1>1, <1>5, <1>8, <1>15, MemGoes DEF u

-----------------------------------------------------------------------------
(* Loops *)

\* Frames in the scope of the frame they replace.
LEMMA RefitsSame ==
    ASSUME NEW t, NEW c \in Scopes, NEW sc, NEW N, NEW fs \in Seq(Frames), fs # << >>, Neutral(t[1]),
           \A i \in DOMAIN fs : Neutral(fs[i]) /\ FrameScope(fs[i], c, N)
    PROVE  Refits(t, fs, c, sc, c, [i \in DOMAIN fs |-> c], N)
<1> DEFINE cs == [i \in DOMAIN fs |-> c]
<1>1. cs \in [DOMAIN fs -> Scopes] /\ \A i \in DOMAIN fs : cs[i] = c
  OBVIOUS
<1> HIDE DEF cs
<1>2. 1 \in DOMAIN fs /\ Len(fs) \in DOMAIN fs /\ Below(c, c)
  BY BelowScopes
<1>3. \A i \in DOMAIN fs : i + 1 \in DOMAIN fs => After(fs[i], fs[i + 1], cs[i], cs[i + 1])
  BY <1>1, NeutralAfter
<1>4. \A nx, e : After(t[1], nx, c, e) => After(fs[Len(fs)], nx, cs[Len(fs)], e)
  BY <1>1, <1>2, NeutralAfter
<1>5. Refits(t, fs, c, sc, c, cs, N)
  BY <1>1, <1>2, <1>3, <1>4 DEF Refits
<1> QED BY <1>5 DEF cs

\* The common part of the steps that open a loop.
LEMMA MemOpens ==
    ASSUME GenInv, todo # << >>, NEW M, NEW sc,
           MemFits(todo, fn, cleanups, breakDests, continueDests, M, sc),
           NEW fs \in Seq(Frames), fs # << >> => fs[1].op # "branch", todo' = fs \o Tail(todo),
           UNCHANGED cleanups, fn.n <= fn'.n, fn'.n \in Nat,
           NEW N, KeepsStarts(fn, M, N), Traced(fn', N, Live(cleanups)),
           NEW end, end \notin fn.linked, NEW dest, dest \in 1 .. fn'.n, PushDests(end, dest),
           N[dest][1] = Live(cleanups), NEW cs, Refits(todo, fs, cleanups, sc, cleanups, cs, N),
           \A i \in DOMAIN fs : EndsLoop(fs[i]) => EndOf(fs[i]) = end
    PROVE  MemInv'
<1> DEFINE b == [block |-> end, depth |-> Depth]
           d == [block |-> dest, depth |-> Depth]
           bdn == Append(breakDests, b)
           cdn == Append(continueDests, d)
<1>1. /\ breakDests' = bdn /\ continueDests' = cdn
      /\ b.block = end /\ d.block = dest /\ b.depth = Len(cleanups) /\ d.depth = Len(cleanups)
  BY DEF PushDests, Depth
<1> HIDE DEF b, d
<1>2. /\ Sound(fn) /\ StackFits(todo, fn) /\ continueDests \in Seq(Dests) /\ breakDests \in Seq(Dests)
      /\ Len(breakDests) = Len(continueDests) /\ DestsMatch(todo, breakDests)
  BY DEF GenInv, DestsFit
<1>3. \A j \in DOMAIN bdn : \/ /\ j \in DOMAIN breakDests /\ j \in DOMAIN continueDests
                               /\ bdn[j] = breakDests[j] /\ cdn[j] = continueDests[j]
                            \/ bdn[j] = b /\ cdn[j] = d
  BY <1>2
<1> HIDE DEF bdn, cdn
<1>4. ASSUME NEW j \in DOMAIN breakDests, NEW i \in DOMAIN fs, EndsAt(fs, i, breakDests[j].block)
      PROVE  FALSE
  <2>1. breakDests[j].block = end
    BY <1>4 DEF EndsAt
  <2>2. PICK e \in DOMAIN todo : EndsAt(todo, e, breakDests[j].block)
    BY <1>2 DEF DestsMatch
  <2>3. EndOf(todo[e]) \in Pending(fn)
    BY <1>2, <2>2, EndOwned DEF StackFits, EndsAt
  <2> QED BY <2>1, <2>2, <2>3 DEF Pending, EndsAt
<1>5. Redirects(todo, fn, fs, cleanups, breakDests, continueDests, bdn, cdn, fn', N)
  BY <1>1, <1>3, <1>4 DEF Redirects
<1>6. Replaces(todo, fs, todo')
  BY <1>2, PushReplaces DEF StackFits
<1>7. \E sd : MemFits(todo', fn', cleanups, bdn, cdn, N, sd)
  BY <1>2, <1>5, <1>6, MemReplaced
<1>8. PICK sd : MemFits(todo', fn', cleanups', breakDests', continueDests', N, sd)
  BY <1>1, <1>7
<1> QED BY <1>8, MemGoes

\* fn' is fn after the head of a loop and its condition, with blocks c.
OpensLoop(g, c, M, m, n) ==
    /\ g.n = fn.n + n + 3 /\ c.cont \in Block /\ c.cont > fn.n
    /\ \E N : /\ Traced(g, N, m) /\ KeepsStarts(fn, M, N)
              /\ \A b \in Block : b > fn.n => N[b][1] = m

\* The head of a loop and its condition.
LEMMA HeadOpened ==
    ASSUME Sound(fn), NEW M, NEW m, Traced(fn, M, m), NEW n \in {1, 2}, NEW cond \in Name,
           NEW invert \in BOOLEAN, fn.n + n + 3 <= MaxBlock
    PROVE  OpensLoop(EnterTrue(EmitCondition(LoopHead(n), cond, FALSE, invert),
                               CondBlocks(LoopHead(n), FALSE)),
                     CondBlocks(LoopHead(n), FALSE), M, m, n)
<1> DEFINE head == LoopHead(n)
           c == CondBlocks(head, FALSE)
           g == EnterTrue(EmitCondition(head, cond, FALSE, invert), c)
<1>1. /\ fn.n \in Nat /\ n \in Nat /\ fn.n + n + 1 <= MaxBlock /\ MaxBlock \in Nat /\ Block \subseteq Nat
  BY SoundCounts, MaxBlockAssumption DEF Block
<1>2. Sound(head) /\ head.n = fn.n + n + 1 /\ head.ip = fn.n + 1
  BY <1>1, LoopHeadSound
<1>3. PICK N1 : Ready(fn, N1, m) /\ KeepsStarts(fn, M, N1)
  BY MakeReady
<1>4. PICK N2 : Ready(head, N2, m) /\ SameStarts(N1, N2)
  BY <1>1, <1>3, ReadyHead
<1> HIDE DEF head
<1>5. HasValidIP(head) /\ head.n + 2 <= MaxBlock /\ Traced(head, N2, m)
  BY <1>1, <1>2, <1>4 DEF HasValidIP, NoBlock, Ready
<1>6. Opens(head, g, c, N2, m)
  BY <1>2, <1>5, LoopConditionOpened
<1> HIDE DEF g, c
<1>7. PICK N : /\ Traced(g, N, m) /\ KeepsStarts(head, N2, N)
               /\ \A b \in Block : b > head.n => N[b][1] = m
  BY <1>6 DEF Opens
<1>8. KeepsStarts(fn, M, N)
  <2>1. \A b \in Block : b <= fn.n => b <= head.n
    BY <1>1, <1>2
  <2> QED BY <1>3, <1>4, <1>7, <2>1 DEF KeepsStarts, SameStarts
<1>9. ASSUME NEW b \in Block, b > fn.n PROVE N[b][1] = m
  <2>1. CASE b > head.n
    BY <1>7, <2>1
  <2>2. CASE b <= head.n
    BY <1>3, <1>4, <1>7, <1>9, <2>2 DEF KeepsStarts, SameStarts, Ready
  <2> QED BY <1>1, <1>2, <2>1, <2>2
<1>10. g.n = fn.n + n + 3 /\ c.cont \in Block /\ c.cont > fn.n
  <2>1. g.n = head.n + 2 /\ c.cont \in Block /\ c.cont > head.n /\ c.cont \in Nat
    BY <1>1, <1>6 DEF Opens
  <2> QED BY <1>1, <1>2, <2>1
<1>11. OpensLoop(g, c, M, m, n)
  BY <1>7, <1>8, <1>9, <1>10 DEF OpensLoop
<1> QED BY <1>11 DEF g, c, head

\* The frames that are pushed are those of both parts.
LEMMA PushedBoth ==
    ASSUME NEW p \in Seq(Frames), p # << >>, NEW q \in Seq(Frames), NEW S,
           \A i \in DOMAIN p : p[i] \in S, \A i \in DOMAIN q : q[i] \in S
    PROVE  /\ p \o q \in Seq(Frames) /\ p \o q # << >> /\ (p \o q)[1] = p[1]
           /\ \A i \in DOMAIN (p \o q) : (p \o q)[i] \in S
<1> DEFINE r == p \o q
<1>1. /\ r \in Seq(Frames) /\ Len(r) = Len(p) + Len(q) /\ DOMAIN r = 1 .. Len(r)
      /\ \A i \in 1 .. Len(p) : r[i] = p[i]
      /\ \A i \in 1 .. Len(q) : r[Len(p) + i] = q[i]
  BY Concatenated
<1>2. /\ Len(p) \in Nat \ {0} /\ Len(q) \in Nat /\ DOMAIN p = 1 .. Len(p) /\ DOMAIN q = 1 .. Len(q)
  OBVIOUS
<1> HIDE DEF r
<1>3. 1 \in 1 .. Len(p) /\ r[1] = p[1] /\ r # << >>
  BY <1>1, <1>2
<1>4. ASSUME NEW i \in DOMAIN r PROVE r[i] \in S
  <2>1. CASE i \in 1 .. Len(p)
    BY <1>1, <1>2, <2>1
  <2>2. CASE i \notin 1 .. Len(p)
    <3>1. i - Len(p) \in 1 .. Len(q) /\ Len(p) + (i - Len(p)) = i
      BY <1>1, <1>2, <2>2
    <3>2. r[Len(p) + (i - Len(p))] = q[i - Len(p)]
      BY <1>1, <3>1
    <3> QED BY <1>2, <3>1, <3>2
  <2> QED BY <2>1, <2>2
<1> QED BY <1>1, <1>3, <1>4 DEF r

\* The frames of the end of a loop.
LEMMA TailScope ==
    ASSUME NEW c, NEW N, NEW loop, NEW end, NEW cond, N[loop][1] = Live(c), N[end][1] = Live(c),
           cond.cont # NoBlock => N[cond.cont][1] = Live(c),
           NEW x \in { [op |-> "loopBack", loop |-> loop, cond |-> cond],
                       [op |-> "complete", cond |-> cond], [op |-> "endLoop", end |-> end] }
    PROVE  Neutral(x) /\ FrameScope(x, c, N) /\ (EndsLoop(x) => EndOf(x) = end)
<1>1. CASE x = [op |-> "loopBack", loop |-> loop, cond |-> cond]
  <2>1. x.op = "loopBack" /\ x.loop = loop
    BY <1>1
  <2> QED BY <2>1 DEF Neutral, Binds, EndsLoop, FrameScope, Owned
<1>2. CASE x = [op |-> "complete", cond |-> cond]
  <2>1. x.op = "complete" /\ x.cond = cond
    BY <1>2
  <2> QED BY <2>1 DEF Neutral, Binds, EndsLoop, FrameScope, Owned
<1>3. CASE x = [op |-> "endLoop", end |-> end]
  <2>1. x.op = "endLoop" /\ x.end = end
    BY <1>3
  <2> QED BY <2>1 DEF Neutral, Binds, EndsLoop, EndOf, FrameScope, Owned
<1> QED BY <1>1, <1>2, <1>3

\* The frame of the body of a loop, or of an arm.
LEMMA PartScope ==
    ASSUME NEW s \in LoopStmt, NEW t \in LoopStmt, NEW vs, Inside(t, s, vs), NEW c, NEW d,
           ToSet(d) \subseteq ToSet(c) \cup ToSet(vs), May(s, c), NEW N
    PROVE  Neutral(Visit(t)) /\ FrameScope(Visit(t), d, N) /\ ~EndsLoop(Visit(t)) /\ May(t, d)
<1> DEFINE x == Visit(t)
<1>1. x.op = "visit" /\ x.stmt = t /\ t.kind # "var"
  BY DEF Visit, Inside
<1>2. May(t, d)
  BY DEF Inside, May
<1> HIDE DEF x
<1>3. Neutral(x) /\ FrameScope(x, d, N) /\ ~EndsLoop(x)
  BY <1>1, <1>2 DEF Neutral, Binds, FrameScope, Owned, EndsLoop
<1> QED BY <1>2, <1>3 DEF x

\* A while loop: its header, and its end, start with the memory there was before it.
LEMMA VisitWhileTraces ==
    ASSUME GenInv, MemInv, VisitWhile
    PROVE  MemInv'
<1> DEFINE loop == fn.n + 1
           end == loop + 1
           c == CondBlocks(LoopHead(1), FALSE)
           b1 == Visit(Stmt.body)
           b2 == [op |-> "loopBack", loop |-> loop, cond |-> c]
           b3 == [op |-> "complete", cond |-> c]
           b4 == [op |-> "endLoop", end |-> end]
           p == <<b1, b2>>
           q == <<b3, b4>>
           fs == p \o q
           cs == [i \in DOMAIN fs |-> cleanups]
<1>1. /\ todo # << >> /\ todo[1] = Head(todo) /\ todo[1] \in Frames /\ HasValidIP(fn)
      /\ todo[1].op = "visit" /\ todo[1].stmt.kind = "while" /\ todo[1].op # "branch"
      /\ Sound(fn) /\ fn.n \in Nat
  BY GenInvParts, SoundCounts DEF VisitWhile, Visiting, Running, NeedsIP
<1>2. /\ Stmt = todo[1].stmt /\ Stmt \in LoopStmt /\ Stmt.body \in LoopStmt /\ Stmt.cond \in Name
      /\ Inside(Stmt.body, Stmt, << >>)
  BY <1>1, FrameFields, StatementParts, ScopeAssumption DEF Stmt, DeclaresOnce
<1>3. /\ fn.n + 4 <= MaxBlock /\ UNCHANGED cleanups /\ PushDests(end, loop)
      /\ fn' = EnterTrue(EmitCondition(LoopHead(1), Stmt.cond, FALSE, FALSE), c)
      /\ todo' = fs \o Tail(todo)
  BY DEF VisitWhile, NextBlock, Then, Finally, SameCleanups
<1>4. PICK M, sc : /\ MemFits(todo, fn, cleanups, breakDests, continueDests, M, sc)
                   /\ Traced(fn, M, Live(cleanups))
  BY <1>1, MemAt
<1>5. OpensLoop(fn', c, M, Live(cleanups), 1)
  <2>1. FALSE \in BOOLEAN /\ 1 \in {1, 2} /\ fn.n + 1 + 3 <= MaxBlock
    BY <1>1, <1>3
  <2>2. OpensLoop(EnterTrue(EmitCondition(LoopHead(1), Stmt.cond, FALSE, FALSE), CondBlocks(LoopHead(1), FALSE)),
                  CondBlocks(LoopHead(1), FALSE), M, Live(cleanups), 1)
    BY <1>1, <1>2, <1>4, <2>1, HeadOpened
  <2> QED BY <1>3, <2>2
<1>6. c \in CondRecs
  <2>1. FALSE \in BOOLEAN /\ 1 \in {1, 2} /\ fn.n + 1 + 3 <= MaxBlock
    BY <1>1, <1>3
  <2> HIDE DEF c
  <2> QED BY <1>1, <1>2, <2>1, HeadCondition DEF c
<1> HIDE DEF c
<1>7. PICK N : /\ Traced(fn', N, Live(cleanups)) /\ KeepsStarts(fn, M, N)
               /\ \A b \in Block : b > fn.n => N[b][1] = Live(cleanups)
  BY <1>5 DEF OpensLoop
<1>8. /\ fn'.n = fn.n + 4 /\ fn.n <= fn'.n /\ fn'.n \in Nat /\ c.cont \in Block /\ c.cont > fn.n
      /\ loop > fn.n /\ end > fn.n /\ loop \in 1 .. fn'.n /\ loop \in Block /\ end \in Block
      /\ end \notin fn.linked
  <2>1. fn'.n = fn.n + 1 + 3 /\ c.cont \in Block /\ c.cont > fn.n /\ fn.linked \subseteq 1 .. fn.n
    BY <1>1, <1>5 DEF OpensLoop, Sound
  <2>2. fn'.n = fn.n + 4
    BY <1>1, <2>1
  <2>3. loop \in Block /\ end \in Block
    BY <1>1, <1>3, MaxBlockAssumption DEF Block
  <2> QED BY <1>1, <2>1, <2>2, <2>3
<1> HIDE DEF loop, end
<1>9. N[loop][1] = Live(cleanups) /\ N[end][1] = Live(cleanups) /\ N[c.cont][1] = Live(cleanups)
  BY <1>7, <1>8
<1>10. /\ b1 \in Frames /\ b1.op # "branch" /\ b2 \in Frames /\ b3 \in Frames /\ b4 \in Frames
  <2>1. b1.op # "branch"
    BY DEF Visit
  <2> QED BY <1>2, <1>6, <1>8, <2>1, FrameForms
<1>11. /\ Neutral(b1) /\ FrameScope(b1, cleanups, N) /\ ~EndsLoop(b1)
  <2>1. May(Stmt, cleanups) /\ ToSet(cleanups) \subseteq ToSet(cleanups) \cup ToSet(<< >>)
    <3>1. FrameScope(todo[1], cleanups, M)
      BY <1>1, <1>4, MemParts
    <3> QED BY <1>1, <1>2, <3>1 DEF FrameScope
  <2> QED BY <1>2, <2>1, PartScope
<1>12. \A x \in {b2, b3, b4} : Neutral(x) /\ FrameScope(x, cleanups, N) /\ (EndsLoop(x) => EndOf(x) = end)
  BY <1>9, TailScope
<1> HIDE DEF b1, b2, b3, b4
<1>13. /\ p \in Seq(Frames) /\ p # << >> /\ p[1] = b1 /\ q \in Seq(Frames)
       /\ \A i \in DOMAIN p : p[i] \in {b1, b2, b3, b4}
       /\ \A i \in DOMAIN q : q[i] \in {b1, b2, b3, b4}
  BY <1>10
<1> HIDE DEF p, q
<1>14. /\ fs \in Seq(Frames) /\ fs # << >> /\ fs[1] = b1 /\ \A i \in DOMAIN fs : fs[i] \in {b1, b2, b3, b4}
  BY <1>13, PushedBoth
<1> HIDE DEF fs
<1>15. \A i \in DOMAIN fs : /\ Neutral(fs[i]) /\ FrameScope(fs[i], cleanups, N)
                            /\ EndsLoop(fs[i]) => EndOf(fs[i]) = end
  BY <1>11, <1>12, <1>14
<1>16. Refits(todo, fs, cleanups, sc, cleanups, cs, N)
  <2>1. cleanups \in Scopes /\ Neutral(todo[1])
    BY <1>1, <1>4, MemParts DEF Neutral, Binds
  <2> QED BY <1>14, <1>15, <2>1, RefitsSame
<1> HIDE DEF cs
<1>17. fs[1].op # "branch"
  BY <1>10, <1>14
<1> QED BY <1>1, <1>3, <1>4, <1>7, <1>8, <1>9, <1>14, <1>15, <1>16, <1>17, MemOpens, ZenonT(60)

\* The head of a loop that has no condition there.
LEMMA BareHeadOpened ==
    ASSUME Sound(fn), NEW M, NEW m, Traced(fn, M, m), NEW n \in {1, 2}, fn.n + n + 1 <= MaxBlock
    PROVE  /\ LoopHead(n).n = fn.n + n + 1
           /\ \E N : /\ Traced(LoopHead(n), N, m) /\ KeepsStarts(fn, M, N)
                     /\ \A b \in Block : b > fn.n => N[b][1] = m
<1>1. LoopHead(n).n = fn.n + n + 1
  BY LoopHeadSound
<1>2. PICK N1 : Ready(fn, N1, m) /\ KeepsStarts(fn, M, N1)
  BY MakeReady
<1>3. PICK N : Ready(LoopHead(n), N, m) /\ SameStarts(N1, N)
  BY <1>2, ReadyHead
<1>4. Traced(LoopHead(n), N, m)
  BY <1>3 DEF Ready
<1>5. KeepsStarts(fn, M, N) /\ \A b \in Block : b > fn.n => N[b][1] = m
  BY <1>2, <1>3 DEF KeepsStarts, SameStarts, Ready
<1> QED BY <1>1, <1>4, <1>5

\* A do-while loop.
LEMMA VisitDoWhileTraces ==
    ASSUME GenInv, MemInv, VisitDoWhile
    PROVE  MemInv'
<1> DEFINE loop == fn.n + 1
           end == loop + 1
           b1 == Visit(Stmt.body)
           b2 == [op |-> "doCondition", loop |-> loop, cond |-> Stmt.cond]
           fs == <<b1, b2>>
           cs == [i \in DOMAIN fs |-> cleanups]
<1>1. /\ todo # << >> /\ todo[1] = Head(todo) /\ todo[1] \in Frames
      /\ todo[1].op = "visit" /\ todo[1].stmt.kind = "dowhile" /\ todo[1].op # "branch"
      /\ Sound(fn) /\ fn.n \in Nat
  BY GenInvParts, SoundCounts DEF VisitDoWhile, Visiting, Running
<1>2. /\ Stmt = todo[1].stmt /\ Stmt \in LoopStmt /\ Stmt.body \in LoopStmt /\ Stmt.cond \in Name
      /\ Inside(Stmt.body, Stmt, << >>)
  BY <1>1, FrameFields, StatementParts, ScopeAssumption DEF Stmt, DeclaresOnce
<1>3. /\ fn.n + 2 <= MaxBlock /\ UNCHANGED cleanups /\ PushDests(end, loop)
      /\ fn' = LoopHead(1) /\ todo' = fs \o Tail(todo)
  BY DEF VisitDoWhile, NextBlock, LoopHead, Then, SameCleanups
<1>4. PICK M, sc : /\ MemFits(todo, fn, cleanups, breakDests, continueDests, M, sc)
                   /\ Traced(fn, M, Live(cleanups))
  BY <1>1, MemAt
<1>5. /\ LoopHead(1).n = fn.n + 1 + 1
      /\ \E N : /\ Traced(LoopHead(1), N, Live(cleanups)) /\ KeepsStarts(fn, M, N)
                /\ \A b \in Block : b > fn.n => N[b][1] = Live(cleanups)
  <2>1. 1 \in {1, 2} /\ fn.n + 1 + 1 <= MaxBlock
    BY <1>1, <1>3
  <2> QED BY <1>1, <1>4, <2>1, BareHeadOpened
<1>6. PICK N : /\ Traced(fn', N, Live(cleanups)) /\ KeepsStarts(fn, M, N)
               /\ \A b \in Block : b > fn.n => N[b][1] = Live(cleanups)
  BY <1>3, <1>5
<1>7. fn'.n = fn.n + 1 + 1
  BY <1>3, <1>5
<1>8. /\ fn.n <= fn'.n /\ fn'.n \in Nat /\ loop > fn.n /\ end > fn.n /\ loop \in 1 .. fn'.n
      /\ loop \in Block /\ end \in Block /\ end \notin fn.linked
  <2>1. loop \in Block /\ end \in Block
    BY <1>1, <1>3, MaxBlockAssumption DEF Block
  <2>2. fn.linked \subseteq 1 .. fn.n
    BY <1>1 DEF Sound
  <2> QED BY <1>1, <1>7, <2>1, <2>2
<1>9. N[loop][1] = Live(cleanups) /\ N[loop + 1][1] = Live(cleanups)
  BY <1>6, <1>8
<1> HIDE DEF loop
<1>10. /\ b1 \in Frames /\ b1.op # "branch" /\ b2 \in Frames
  <2>1. b1.op # "branch"
    BY DEF Visit
  <2> QED BY <1>2, <1>8, <2>1, FrameForms
<1>11. /\ Neutral(b1) /\ FrameScope(b1, cleanups, N) /\ ~EndsLoop(b1)
  <2>1. May(Stmt, cleanups) /\ ToSet(cleanups) \subseteq ToSet(cleanups) \cup ToSet(<< >>)
    <3>1. FrameScope(todo[1], cleanups, M)
      BY <1>1, <1>4, MemParts
    <3> QED BY <1>1, <1>2, <3>1 DEF FrameScope
  <2> QED BY <1>2, <2>1, PartScope
<1>12. Neutral(b2) /\ FrameScope(b2, cleanups, N) /\ EndOf(b2) = end
  <2>1. b2.op = "doCondition" /\ b2.loop = loop
    OBVIOUS
  <2> HIDE DEF b2
  <2> QED BY <1>9, <2>1 DEF Neutral, Binds, EndsLoop, EndOf, FrameScope, Owned
<1> HIDE DEF b1, b2, end
<1>13. /\ fs \in Seq(Frames) /\ fs # << >> /\ fs[1] = b1 /\ \A i \in DOMAIN fs : fs[i] \in {b1, b2}
  BY <1>10
<1> HIDE DEF fs
<1>14. \A i \in DOMAIN fs : /\ Neutral(fs[i]) /\ FrameScope(fs[i], cleanups, N)
                            /\ EndsLoop(fs[i]) => EndOf(fs[i]) = end
  BY <1>11, <1>12, <1>13
<1>15. Refits(todo, fs, cleanups, sc, cleanups, cs, N)
  <2>1. cleanups \in Scopes /\ Neutral(todo[1])
    BY <1>1, <1>4, MemParts DEF Neutral, Binds
  <2> QED BY <1>13, <1>14, <2>1, RefitsSame
<1> HIDE DEF cs
<1>16. fs[1].op # "branch"
  BY <1>10, <1>13
<1> QED BY <1>1, <1>3, <1>4, <1>6, <1>8, <1>9, <1>13, <1>14, <1>15, <1>16, MemOpens

\* What the frame of a call may do in any scope.
LEMMA CallScope ==
    ASSUME NEW x, x.op = "visit", x.stmt \in LoopStmt, x.stmt.kind = "call", NEW c, NEW N
    PROVE  Neutral(x) /\ FrameScope(x, c, N) /\ ~EndsLoop(x)
<1>1. May(x.stmt, c)
  BY ScopeAssumption DEF DeclaresOnce, May
<1> QED BY <1>1 DEF Neutral, Binds, FrameScope, Owned, EndsLoop

\* The increment of a for: the block a continue goes to starts with the memory there
\* is at the end of the body.
LEMMA ForIncTraces ==
    ASSUME GenInv, MemInv, ForInc
    PROVE  MemInv'
<1> DEFINE inc == Frame.inc
           fs == IF HasValidIP(fn') THEN Maybe(Frame.call) ELSE << >>
<1>1. /\ todo # << >> /\ todo[1] = Head(todo) /\ todo[1] \in Frames /\ todo[1].op = "forInc"
      /\ todo[1].op # "branch" /\ Sound(fn) /\ Owned(todo[1]) \subseteq Pending(fn) /\ Frame = todo[1]
  BY GenInvParts DEF ForInc, Running, Frame
<1>2. /\ Owned(todo[1]) = {inc} /\ inc \in Pending(fn) /\ ~EndsLoop(todo[1]) /\ Neutral(todo[1])
      /\ Frame.call \in Callable
  BY <1>1, FrameFields DEF Owned, EndsLoop, Neutral, Binds
<1>3. /\ todo' = fs \o Tail(todo) /\ UNCHANGED <<cleanups, breakDests, continueDests>>
      /\ fn' = EmitOrDelete(fn, inc)
  BY DEF ForInc, Then, SameCleanups, SameDests
<1>4. PICK M, sc : /\ MemFits(todo, fn, cleanups, breakDests, continueDests, M, sc)
                   /\ Traced(fn, M, Live(cleanups))
  BY <1>1, MemAt
<1>5. /\ M[inc][1] = Live(cleanups) /\ fn.n \in Nat /\ Counted(fn)
  <2>1. FrameScope(todo[1], cleanups, M)
    BY <1>1, <1>4, MemParts
  <2> QED BY <1>1, <1>2, <2>1, SoundCounts DEF FrameScope
<1>6. PICK N : Traced(fn', N, Live(cleanups)) /\ SameStarts(M, N)
  BY <1>1, <1>2, <1>3, <1>4, <1>5, EmitOrDeleteTraced
<1>7. KeepsStarts(fn, M, N) /\ fn'.n = fn.n /\ fn.n <= fn'.n /\ fn'.n \in Nat
  BY <1>3, <1>5, <1>6, StartsKept, Counts DEF EmitOrDelete
<1>8. /\ fs \in Seq(Frames)
      /\ \A i \in DOMAIN fs : fs[i].op = "visit" /\ fs[i].stmt \in LoopStmt /\ fs[i].stmt.kind = "call"
  <2>1. CASE HasValidIP(fn')
    <3>1. fs = Maybe(Frame.call)
      BY <2>1
    <3> HIDE DEF fs
    <3>2. FreeStmt \subseteq LoopStmt
      BY StatementAssumption DEF Grammar
    <3> QED BY <1>2, <2>1, <3>1, <3>2, MaybeFrames
  <2>2. CASE ~HasValidIP(fn')
    <3>1. fs = << >> /\ fs \in Seq(Frames) /\ DOMAIN fs = {}
      BY <2>2
    <3> HIDE DEF fs
    <3> QED BY <3>1
  <2> QED BY <2>1, <2>2
<1> HIDE DEF fs, inc
<1>9. fs # << >> => fs[1].op # "branch"
  <2>1. fs # << >> => 1 \in DOMAIN fs
    BY <1>8
  <2> QED BY <1>8, <2>1
<1>10. \A i \in DOMAIN fs : Neutral(fs[i]) /\ FrameScope(fs[i], cleanups, N) /\ ~EndsLoop(fs[i])
  BY <1>8, CallScope
<1> QED BY <1>1, <1>2, <1>3, <1>4, <1>6, <1>7, <1>8, <1>9, <1>10, MemStays

\* The end of the function.
LEMMA FinishFunctionTraces ==
    ASSUME GenInv, MemInv, FinishFunction
    PROVE  MemInv'
<1> DEFINE op == IF prog.void THEN "return" ELSE "unreachable"
<1>1. /\ todo = << >> /\ HasValidIP(fn) /\ Sound(fn) /\ fn \in FunctionType
      /\ UNCHANGED <<todo, cleanups, breakDests, continueDests>>
      /\ fn' = CreateExit(fn, op, NoName)
  BY GenInvParts, SoundFields DEF FinishFunction, SameCleanups, SameDests
<1>2. op \in {"return", "unreachable"} /\ NoName \in Name
  BY StatementAssumption
<1> HIDE DEF op
<1>3. PICK M, sc : /\ MemFits(todo, fn, cleanups, breakDests, continueDests, M, sc)
                   /\ Traced(fn, M, Live(cleanups))
  BY <1>1 DEF MemInv, Here
<1>4. /\ ~HasValidIP(fn') /\ fn'.n = fn.n /\ \E N : Accounts(fn'.insts, N) /\ SameStarts(M, N)
  BY <1>1, <1>2, <1>3, ExitTraced
<1>5. PICK N : Traced(fn', N, Live(cleanups)) /\ SameStarts(M, N)
  BY <1>4, LostTraced
<1>6. MemFits(todo, fn', cleanups, breakDests, continueDests, N, sc)
  <2>1. /\ StackFits(todo, fn) /\ continueDests \in Seq(Dests) /\ DOMAIN breakDests = DOMAIN continueDests
    BY DEF GenInv, DestsFit
  <2> QED BY <1>1, <1>3, <1>4, <1>5, <2>1, StartsKept, MemKept
<1>7. MemFits(todo', fn', cleanups', breakDests', continueDests', N, sc) /\ todo' = << >>
  BY <1>1, <1>6
<1>8. Here(todo', cleanups') = Live(cleanups') /\ BranchScope(todo', cleanups', N)
  BY <1>7 DEF Here, BranchScope
<1>9. Traced(fn', N, Live(cleanups'))
  BY <1>1, <1>5
<1> QED BY <1>7, <1>8, <1>9 DEF MemInv

\* Frames fs pushed in scope c that open the scope d of the variables vs: they are bound first, d is left last.
ScopedFrames(fs, c, d, vs, N) ==
    /\ c \in Scopes /\ d \in Scopes /\ d = c \o vs /\ Below(c, d) /\ Begin(d, Len(c)) = c
    /\ fs \in Seq(Frames) /\ Len(fs) >= 2
    /\ fs[1].op = "bind" /\ fs[1].vars = vs
    /\ fs[Len(fs)].op = "endScope" /\ fs[Len(fs)].depth = Len(c)
    /\ \A i \in 2 .. Len(fs) - 1 : Neutral(fs[i]) /\ FrameScope(fs[i], d, N) /\ ~EndsLoop(fs[i])

\* The scopes frames fs run in when the first opens scope d in scope c.
ScopesFrom(fs, c, d) == [i \in DOMAIN fs |-> IF i = 1 THEN c ELSE d]

\* Frames in a scope of their own fit where the statement they are for did.
LEMMA RefitsScoped ==
    ASSUME NEW t, Neutral(t[1]), NEW c, NEW sc, NEW N, NEW vs, NEW d, NEW fs, ScopedFrames(fs, c, d, vs, N)
    PROVE  /\ Refits(t, fs, c, sc, c, ScopesFrom(fs, c, d), N)
           /\ \A i \in DOMAIN fs : ~EndsLoop(fs[i])
<1> DEFINE cs == ScopesFrom(fs, c, d)
           n == Len(fs)
           a == fs[1]
           z == fs[n]
<1>0. /\ c \in Scopes /\ d \in Scopes /\ d = c \o vs /\ Below(c, d) /\ Begin(d, Len(c)) = c
      /\ fs \in Seq(Frames) /\ n \in Nat /\ n >= 2 /\ Len(fs) = n /\ DOMAIN fs = 1 .. n
      /\ a.op = "bind" /\ a.vars = vs /\ z.op = "endScope" /\ z.depth = Len(c) /\ fs[1] = a /\ fs[n] = z
      /\ \A i \in 2 .. n - 1 : Neutral(fs[i]) /\ FrameScope(fs[i], d, N) /\ ~EndsLoop(fs[i])
  BY DEF ScopedFrames
<1> HIDE DEF n, a, z
<1>1. /\ cs \in [DOMAIN fs -> Scopes] /\ 1 \in DOMAIN fs /\ cs[1] = c /\ fs # << >>
      /\ \A i \in DOMAIN fs : i # 1 => cs[i] = d
      /\ \A i \in DOMAIN fs : cs[i] \in {c, d}
      /\ n \in DOMAIN fs /\ n # 1
  BY <1>0 DEF ScopesFrom
<1> HIDE DEF cs
<1>2. \A i \in DOMAIN fs : i = 1 \/ i = n \/ i \in 2 .. n - 1
  BY <1>0
<1>3. /\ ~EndsLoop(a) /\ ~EndsLoop(z) /\ Binds(a) /\ Bound(a) = vs /\ ~Binds(z)
      /\ FrameScope(a, c, N) /\ FrameScope(z, d, N)
  <2>1. Len(c) <= Len(d)
    BY <1>0 DEF Below
  <2> QED BY <1>0, <2>1 DEF EndsLoop, Binds, Bound, FrameScope, Owned
<1>4. \A i \in DOMAIN fs : FrameScope(fs[i], cs[i], N) /\ ~EndsLoop(fs[i])
  <2> TAKE i \in DOMAIN fs
  <2>1. CASE i = 1
    BY <1>0, <1>1, <1>3, <2>1
  <2>2. CASE i = n
    BY <1>0, <1>1, <1>3, <2>2
  <2>3. CASE i \in 2 .. n - 1
    <3>1. i # 1
      BY <2>3
    <3> QED BY <1>0, <1>1, <2>3, <3>1
  <2> QED BY <1>2, <2>1, <2>2, <2>3
<1>5. \A i \in DOMAIN fs : Below(c, cs[i])
  BY <1>0, <1>1, BelowScopes
<1>6. \A i \in DOMAIN fs : i + 1 \in DOMAIN fs => After(fs[i], fs[i + 1], cs[i], cs[i + 1])
  <2> SUFFICES ASSUME NEW i \in DOMAIN fs, i + 1 \in DOMAIN fs
               PROVE  After(fs[i], fs[i + 1], cs[i], cs[i + 1])
    OBVIOUS
  <2>1. i \in Nat /\ i + 1 # 1 /\ i # n
    BY <1>0
  <2>2. CASE i = 1
    <3>1. cs[i + 1] = c \o vs /\ fs[i] = a
      BY <1>0, <1>1, <2>1, <2>2
    <3> QED BY <1>3, <3>1, <1>1, <2>2 DEF After
  <2>3. CASE i \in 2 .. n - 1
    <3>1. i # 1
      BY <2>3
    <3>2. cs[i + 1] = d /\ cs[i] = d /\ Neutral(fs[i])
      BY <1>0, <1>1, <2>1, <2>3, <3>1
    <3> QED BY <3>2, NeutralAfter
  <2> QED BY <1>2, <2>1, <2>2, <2>3
<1>7. \A nx, e : After(t[1], nx, c, e) => After(fs[Len(fs)], nx, cs[Len(fs)], e)
  <2>1. cs[n] = d /\ fs[n] = z
    BY <1>0, <1>1
  <2>2. \A nx, e : After(t[1], nx, c, e) => e = c
    BY NeutralAfter
  <2>3. \A nx : After(z, nx, d, c)
    BY <1>0, <1>3 DEF After
  <2> QED BY <1>0, <2>1, <2>2, <2>3
<1>8. Refits(t, fs, c, sc, c, cs, N)
  BY <1>0, <1>1, <1>4, <1>5, <1>6, <1>7 DEF Refits
<1> QED BY <1>4, <1>8 DEF cs

\* A for: its variables, its initializer and its loop are in a scope of their own.
LEMMA VisitForTraces ==
    ASSUME GenInv, MemInv, VisitFor
    PROVE  MemInv'
<1> DEFINE a == Bind(Stmt.vars)
           m == Maybe(Stmt.init)
           h == [op |-> "forHead", stmt |-> Stmt]
           e == [op |-> "endScope", depth |-> Depth]
           fs == (<<a>> \o m \o <<h>>) \o <<e>>
           d == cleanups \o Stmt.vars
           n == Len(m) + 3
           cs == ScopesFrom(fs, cleanups, d)
<1>1. /\ todo # << >> /\ todo[1] = Head(todo) /\ todo[1] \in Frames /\ todo[1].op # "branch"
      /\ todo[1].op = "visit" /\ todo[1].stmt.kind = "for" /\ Sound(fn) /\ fn.n \in Nat
  BY GenInvParts, SoundCounts DEF VisitFor, Visiting, Running
<1>2. /\ Stmt = todo[1].stmt /\ Stmt \in LoopStmt /\ Stmt.kind = "for" /\ Stmt.body \in LoopStmt
      /\ Stmt.vars \in Seq(Name) /\ Stmt.init \in Callable
  BY <1>1, FrameFields, StatementParts, ForParts DEF Stmt
<1>3. IsInjective(Stmt.vars) /\ ToSet(Stmt.vars) \subseteq Declares[Stmt] /\ Inside(Stmt.body, Stmt, Stmt.vars)
  BY <1>2, ScopeAssumption DEF DeclaresOnce
<1>4. todo' = fs \o Tail(todo) /\ UNCHANGED <<fn, cleanups, breakDests, continueDests>>
  BY DEF VisitFor, Then, Scoped, SameCleanups, SameDests
<1>5. PICK M, sc : /\ MemFits(todo, fn, cleanups, breakDests, continueDests, M, sc)
                   /\ Traced(fn, M, Live(cleanups))
  BY <1>1, MemAt
<1>6. /\ cleanups \in Scopes /\ Len(cleanups) \in Nat /\ Begin(cleanups, Len(cleanups)) = cleanups
      /\ May(Stmt, cleanups) /\ Depth = Len(cleanups)
  <2>1. FrameScope(todo[1], cleanups, M)
    BY <1>1, <1>5, MemParts
  <2> QED BY <1>1, <1>2, <1>5, <2>1, MemParts DEF FrameScope, Depth
<1>7. /\ d \in Scopes /\ ToSet(d) = ToSet(cleanups) \cup ToSet(Stmt.vars) /\ Below(cleanups, d)
      /\ Begin(d, Len(cleanups)) = cleanups
  <2>1. /\ d \in Scopes /\ ToSet(d) = ToSet(cleanups) \cup ToSet(Stmt.vars) /\ Below(cleanups, d)
        /\ \A i \in 0 .. Len(cleanups) : Begin(d, i) = Begin(cleanups, i)
    BY <1>2, <1>3, <1>6, DeclaredScope
  <2>2. Len(cleanups) \in 0 .. Len(cleanups)
    BY <1>6
  <2> QED BY <1>6, <2>1, <2>2
<1>8. /\ a \in Frames /\ a.op = "bind" /\ a.vars = Stmt.vars /\ h \in Frames /\ h.op = "forHead" /\ h.stmt = Stmt
      /\ e \in Frames /\ e.op = "endScope" /\ e.depth = Len(cleanups)
  BY <1>2, <1>6, FrameForms DEF Bind
<1>9. /\ m \in Seq(Frames) /\ Len(m) \in {0, 1}
      /\ \A i \in DOMAIN m : /\ i = 1 /\ m[i].op = "visit" /\ m[i].stmt \in LoopStmt
                             /\ m[i].stmt.kind = "call"
  <2>1. FreeStmt \subseteq LoopStmt
    BY StatementAssumption DEF Grammar
  <2> HIDE DEF m
  <2> QED BY <1>2, <2>1, MaybeFrames DEF m
<1> HIDE DEF a, m, h, e
<1>10. /\ fs \in Seq(Frames) /\ Len(fs) = n /\ fs[1] = a /\ n \in Nat /\ n >= 2
       /\ fs[Len(m) + 2] = h /\ fs[n] = e /\ (Len(m) = 1 => fs[2] = m[1])
  <2>1. /\ <<a>> \in Seq(Frames) /\ Len(<<a>>) = 1 /\ <<a>>[1] = a
        /\ <<h>> \in Seq(Frames) /\ Len(<<h>>) = 1 /\ <<h>>[1] = h
        /\ <<e>> \in Seq(Frames) /\ Len(<<e>>) = 1 /\ <<e>>[1] = e
    BY <1>8
  <2> DEFINE p == <<a>> \o m
             q == p \o <<h>>
  <2>2. p \in Seq(Frames) /\ Len(p) = Len(m) + 1 /\ p[1] = a /\ (Len(m) = 1 => p[2] = m[1])
    BY <1>9, <2>1, ConcatProperties
  <2> HIDE DEF p
  <2>3. /\ q \in Seq(Frames) /\ Len(q) = Len(m) + 2 /\ q[1] = a /\ (Len(m) = 1 => q[2] = m[1])
        /\ q[Len(m) + 2] = h
    BY <1>9, <2>1, <2>2, ConcatProperties
  <2> HIDE DEF q
  <2>4. LET r == q \o <<e>>
        IN  /\ r \in Seq(Frames) /\ Len(r) = Len(m) + 3 /\ r[1] = a /\ (Len(m) = 1 => r[2] = m[1])
            /\ r[Len(m) + 2] = h /\ r[Len(m) + 3] = e
    BY <1>9, <2>1, <2>3, ConcatProperties
  <2> QED BY <1>9, <2>4 DEF p, q
<1> HIDE DEF fs
<1>11. Neutral(h) /\ FrameScope(h, d, M) /\ ~EndsLoop(h)
  <2>1. ToSet(d) \subseteq ToSet(cleanups) \cup ToSet(Stmt.vars)
    BY <1>7
  <2>2. May(Stmt.body, d)
    <3> HIDE DEF d
    <3> QED BY <1>2, <1>3, <1>6, <2>1, PartScope
  <2> HIDE DEF d
  <2> QED BY <1>8, <2>2 DEF Neutral, Binds, FrameScope, Owned, EndsLoop
<1>12. \A i \in 2 .. n - 1 : Neutral(fs[i]) /\ FrameScope(fs[i], d, M) /\ ~EndsLoop(fs[i])
  <2> TAKE i \in 2 .. n - 1
  <2>1. CASE i = Len(m) + 2
    BY <1>10, <1>11, <2>1
  <2>2. CASE i # Len(m) + 2
    <3>1. Len(m) = 1 /\ i = 2 /\ 1 \in DOMAIN m
      BY <1>9, <2>2
    <3>2. fs[i] = m[1]
      BY <1>10, <3>1
    <3> QED BY <1>9, <3>1, <3>2, CallScope
  <2> QED BY <2>1, <2>2
<1>13. Neutral(todo[1])
  BY <1>1 DEF Neutral, Binds
<1>14. /\ Refits(todo, fs, cleanups, sc, cleanups, cs, M)
       /\ \A i \in DOMAIN fs : ~EndsLoop(fs[i])
  <2>1. d = cleanups \o Stmt.vars
    OBVIOUS
  <2> DEFINE vs == Stmt.vars
  <2>2. ScopedFrames(fs, cleanups, d, vs, M)
    <3> HIDE DEF d, n
    <3> QED BY <1>6, <1>7, <1>8, <1>10, <1>12, <2>1 DEF ScopedFrames
  <2> HIDE DEF d, n, vs
  <2> QED BY <1>13, <2>2, RefitsScoped
<1> HIDE DEF cs, d
<1>15. fs[1].op # "branch" /\ KeepsStarts(fn, M, M) /\ fn.n <= fn'.n /\ fn'.n \in Nat
  BY <1>1, <1>4, <1>8, <1>10 DEF KeepsStarts
<1>16. Refits(todo, fs, cleanups, sc, cleanups', cs, M) /\ Traced(fn', M, Live(cleanups'))
  BY <1>4, <1>5, <1>14
<1> QED BY <1>1, <1>4, <1>5, <1>10, <1>14, <1>15, <1>16, MemMoves

\* A for-each: its range and its loop are in a scope of their own.
LEMMA VisitForEachTraces ==
    ASSUME GenInv, MemInv, VisitForEach
    PROVE  MemInv'
<1> DEFINE a == Bind(Stmt.range)
           h == [op |-> "forEachHead", stmt |-> Stmt]
           e == [op |-> "endScope", depth |-> Depth]
           p == <<a, h>>
           q == <<e>>
           fs == p \o q
           vs == Stmt.range \o Stmt.elem
           d == cleanups \o Stmt.range
           cs == ScopesFrom(fs, cleanups, d)
<1>1. /\ todo # << >> /\ todo[1] = Head(todo) /\ todo[1] \in Frames /\ todo[1].op # "branch"
      /\ todo[1].op = "visit" /\ todo[1].stmt.kind = "foreach" /\ Sound(fn) /\ fn.n \in Nat
  BY GenInvParts, SoundCounts DEF VisitForEach, Visiting, Running
<1>2. /\ Stmt = todo[1].stmt /\ Stmt \in LoopStmt /\ Stmt.kind = "foreach" /\ Stmt.body \in LoopStmt
      /\ Stmt.range \in Seq(Name) /\ Stmt.elem \in Seq(Name)
  BY <1>1, FrameFields, StatementParts DEF Stmt
<1>3. IsInjective(vs) /\ ToSet(vs) \subseteq Declares[Stmt] /\ Inside(Stmt.body, Stmt, vs)
  BY <1>2, ScopeAssumption DEF DeclaresOnce
<1>4. todo' = fs \o Tail(todo) /\ UNCHANGED <<fn, cleanups, breakDests, continueDests>>
  BY DEF VisitForEach, Then, Scoped, SameCleanups, SameDests
<1>5. PICK M, sc : /\ MemFits(todo, fn, cleanups, breakDests, continueDests, M, sc)
                   /\ Traced(fn, M, Live(cleanups))
  BY <1>1, MemAt
<1>6. /\ cleanups \in Scopes /\ Len(cleanups) \in Nat /\ Begin(cleanups, Len(cleanups)) = cleanups
      /\ May(Stmt, cleanups) /\ Depth = Len(cleanups) /\ cleanups \in Seq(Var)
  <2>1. FrameScope(todo[1], cleanups, M)
    BY <1>1, <1>5, MemParts
  <2> QED BY <1>1, <1>2, <1>5, <2>1, MemParts DEF FrameScope, Depth
<1>7. /\ IsInjective(Stmt.range) /\ ToSet(Stmt.range) \subseteq ToSet(vs) /\ vs \in Seq(Name)
  <2>1. /\ vs \in Seq(Name) /\ Len(vs) = Len(Stmt.range) + Len(Stmt.elem) /\ DOMAIN vs = 1 .. Len(vs)
        /\ \A i \in 1 .. Len(Stmt.range) : vs[i] = Stmt.range[i]
    <3> DEFINE r == Stmt.range
               x == Stmt.elem
    <3>1. r \in Seq(Name) /\ x \in Seq(Name)
      BY <1>2
    <3> HIDE DEF r, x
    <3>2. LET y == r \o x
          IN  /\ y \in Seq(Name) /\ Len(y) = Len(r) + Len(x) /\ DOMAIN y = 1 .. Len(y)
              /\ \A i \in 1 .. Len(r) : y[i] = r[i]
      BY <3>1, Concatenated
    <3> QED BY <3>2 DEF r, x
  <2> HIDE DEF vs
  <2>2. DOMAIN Stmt.range = 1 .. Len(Stmt.range) /\ Len(Stmt.range) \in Nat /\ Len(Stmt.elem) \in Nat
    <3> DEFINE r == Stmt.range
               x == Stmt.elem
    <3>1. r \in Seq(Name) /\ x \in Seq(Name)
      BY <1>2
    <3> HIDE DEF r, x
    <3>2. DOMAIN r = 1 .. Len(r) /\ Len(r) \in Nat /\ Len(x) \in Nat
      BY <3>1
    <3> QED BY <3>2 DEF r, x
  <2>3. \A i \in DOMAIN Stmt.range : i \in DOMAIN vs /\ vs[i] = Stmt.range[i]
    <3> DEFINE r == Stmt.range
               x == Len(Stmt.elem)
    <3>1. /\ Len(vs) = Len(r) + x /\ DOMAIN vs = 1 .. Len(vs) /\ DOMAIN r = 1 .. Len(r)
          /\ Len(r) \in Nat /\ x \in Nat /\ \A i \in 1 .. Len(r) : vs[i] = r[i]
      BY <2>1, <2>2
    <3> HIDE DEF r, x
    <3>2. \A i \in DOMAIN r : i \in DOMAIN vs /\ vs[i] = r[i]
      BY <3>1
    <3> QED BY <3>2 DEF r
  <2> QED BY <1>3, <2>1, <2>3 DEF IsInjective, ToSet
<1>8. /\ d \in Scopes /\ Below(cleanups, d) /\ Begin(d, Len(cleanups)) = cleanups /\ Stmt.range \in Seq(Var)
  <2>1. ToSet(Stmt.range) \subseteq Declares[Stmt]
    BY <1>3, <1>7
  <2>2. /\ d \in Scopes /\ Below(cleanups, d) /\ Stmt.range \in Seq(Var)
        /\ \A i \in 0 .. Len(cleanups) : Begin(d, i) = Begin(cleanups, i)
    BY <1>2, <1>6, <1>7, <2>1, DeclaredScope
  <2>3. Len(cleanups) \in 0 .. Len(cleanups)
    BY <1>6
  <2> QED BY <1>6, <2>2, <2>3
<1>9. d \o Stmt.elem \in Scopes /\ May(Stmt.body, d \o Stmt.elem)
  <2> DEFINE x == cleanups \o vs
  <2>1. x \in Scopes /\ ToSet(x) = ToSet(cleanups) \cup ToSet(vs) /\ vs \in Seq(Var)
    <3> HIDE DEF vs
    <3> QED BY <1>2, <1>3, <1>6, <1>7, DeclaredScope
  <2>2. x = d \o Stmt.elem
    <3>1. Stmt.elem \in Seq(Name) /\ Stmt.range \in Seq(Name) /\ cleanups \in Seq(Name)
      <4>1. \A i \in 1 .. Len(cleanups) : cleanups[i] \in Name
        BY <1>6, VarNames
      <4> QED BY <1>2, <1>6, <4>1
    <3> DEFINE c == cleanups
               r == Stmt.range
               y == Stmt.elem
    <3>2. c \in Seq(Name) /\ r \in Seq(Name) /\ y \in Seq(Name)
      BY <3>1
    <3> HIDE DEF c, r, y
    <3>3. (c \o r) \o y = c \o (r \o y)
      BY <3>2, ConcatAssociative
    <3> QED BY <3>3 DEF c, r, y
  <2> HIDE DEF vs
  <2>3. May(Stmt.body, x)
    BY <1>2, <1>3, <1>6, <2>1, PartScope
  <2> QED BY <2>1, <2>2, <2>3
<1>10. /\ a \in Frames /\ a.op = "bind" /\ a.vars = Stmt.range
       /\ h \in Frames /\ h.op = "forEachHead" /\ h.stmt = Stmt
       /\ e \in Frames /\ e.op = "endScope" /\ e.depth = Len(cleanups)
  BY <1>2, <1>6, FrameForms DEF Bind
<1> HIDE DEF a, h, e
<1>11. /\ fs \in Seq(Frames) /\ Len(fs) = 3 /\ fs[1] = a /\ fs[2] = h /\ fs[3] = e
  <2>1. /\ p \in Seq(Frames) /\ Len(p) = 2 /\ p[1] = a /\ p[2] = h
        /\ q \in Seq(Frames) /\ Len(q) = 1 /\ q[1] = e
    BY <1>10
  <2> HIDE DEF p, q
  <2>2. /\ p \o q \in Seq(Frames) /\ Len(p \o q) = 3
        /\ \A i \in 1 .. 3 : (p \o q)[i] = IF i <= 2 THEN p[i] ELSE q[i - 2]
    BY <2>1, ConcatProperties
  <2> QED BY <2>1, <2>2
<1> HIDE DEF fs
<1>12. Neutral(h) /\ FrameScope(h, d, M) /\ ~EndsLoop(h)
  <2> HIDE DEF d
  <2> QED BY <1>9, <1>10 DEF Neutral, Binds, FrameScope, Owned, EndsLoop
<1>13. \A i \in 2 .. 3 - 1 : Neutral(fs[i]) /\ FrameScope(fs[i], d, M) /\ ~EndsLoop(fs[i])
  <2>1. \A i \in 2 .. 3 - 1 : i = 2
    OBVIOUS
  <2> QED BY <1>11, <1>12, <2>1
<1>14. Neutral(todo[1]) /\ 3 \in Nat /\ 3 >= 2
  BY <1>1 DEF Neutral, Binds
<1>15. /\ Refits(todo, fs, cleanups, sc, cleanups, cs, M)
       /\ \A i \in DOMAIN fs : ~EndsLoop(fs[i])
  <2>1. d = cleanups \o Stmt.range
    OBVIOUS
  <2> DEFINE r == Stmt.range
  <2>2. ScopedFrames(fs, cleanups, d, r, M)
    <3> HIDE DEF d
    <3> QED BY <1>6, <1>8, <1>10, <1>11, <1>13, <1>14, <2>1 DEF ScopedFrames
  <2> HIDE DEF d, r
  <2> QED BY <1>14, <2>2, RefitsScoped
<1> HIDE DEF cs, d
<1>16. fs[1].op # "branch" /\ KeepsStarts(fn, M, M) /\ fn.n <= fn'.n /\ fn'.n \in Nat
  BY <1>1, <1>4, <1>10, <1>11 DEF KeepsStarts
<1>17. Refits(todo, fs, cleanups, sc, cleanups', cs, M) /\ Traced(fn', M, Live(cleanups'))
  BY <1>4, <1>5, <1>15
<1> QED BY <1>1, <1>4, <1>5, <1>11, <1>15, <1>16, <1>17, MemMoves

\* A loop that is not reached is dropped.
LEMMA DroppedTraces ==
    ASSUME GenInv, MemInv, todo # << >>, todo[1].op # "branch", Neutral(todo[1]),
           todo' = << >> \o Tail(todo), UNCHANGED <<fn, cleanups, breakDests, continueDests>>
    PROVE  MemInv'
<1> DEFINE fs == << >>
<1>1. Sound(fn) /\ fn.n \in Nat
  BY GenInvParts, SoundCounts
<1>2. PICK M, sc : /\ MemFits(todo, fn, cleanups, breakDests, continueDests, M, sc)
                   /\ Traced(fn, M, Live(cleanups))
  BY MemAt
<1>3. fs \in Seq(Frames) /\ fs = << >> /\ todo' = fs \o Tail(todo) /\ DOMAIN fs = {}
  OBVIOUS
<1> HIDE DEF fs
<1>4. /\ KeepsStarts(fn, M, M) /\ fn.n <= fn'.n /\ fn'.n \in Nat /\ Traced(fn', M, Live(cleanups))
  BY <1>1, <1>2 DEF KeepsStarts
<1> QED BY <1>2, <1>3, <1>4, MemStays

\* The loop of a for: a continue goes to the block of the increment.
LEMMA ForHeadTraces ==
    ASSUME GenInv, MemInv, ForHead
    PROVE  MemInv'
<1> DEFINE loop == fn.n + 1
           inc == loop + 1
           end == loop + 2
           c == IF Stmt.cond = NoName THEN Always(loop) ELSE CondBlocks(LoopHead(2), FALSE)
           b1 == Visit(Stmt.body)
           b2 == [op |-> "forInc", inc |-> inc, call |-> Stmt.inc]
           b3 == [op |-> "loopBack", loop |-> loop, cond |-> c]
           b4 == [op |-> "complete", cond |-> c]
           b5 == [op |-> "endLoop", end |-> end]
           p == <<b1, b2, b3>>
           q == <<b4, b5>>
           fs == p \o q
           cs == [i \in DOMAIN fs |-> cleanups]
<1>1. /\ todo # << >> /\ todo[1] = Head(todo) /\ todo[1] \in Frames /\ todo[1].op # "branch"
      /\ todo[1].op = "forHead" /\ todo[1].stmt.kind = "for" /\ Sound(fn) /\ fn.n \in Nat
      /\ Neutral(todo[1])
  BY GenInvParts, SoundCounts DEF ForHead, Running, FrameFits, Neutral, Binds
<1>2. /\ Stmt = todo[1].stmt /\ Stmt \in LoopStmt /\ Stmt.body \in LoopStmt /\ Stmt.cond \in Name
      /\ Stmt.inc \in Callable /\ Stmt.body.kind # "var"
  BY <1>1, FrameFields, StatementParts, ForParts, ScopeAssumption DEF Stmt, DeclaresOnce, Inside
<1>3. CASE ~HasValidIP(fn) /\ Then(<< >>) /\ UNCHANGED fn /\ SameDests
  <2>1. /\ UNCHANGED <<fn, cleanups, breakDests, continueDests>> /\ todo' = << >> \o Tail(todo)
    BY <1>3 DEF ForHead, SameCleanups, SameDests, Then
  <2> QED BY <1>1, <2>1, DroppedTraces
<1>4. CASE HasValidIP(fn) /\ ~(~HasValidIP(fn) /\ Then(<< >>) /\ UNCHANGED fn /\ SameDests)
  <2>1. /\ loop + 4 <= MaxBlock /\ UNCHANGED cleanups /\ PushDests(end, inc)
        /\ fn' = IF Stmt.cond = NoName THEN LoopHead(2)
                 ELSE EnterTrue(EmitCondition(LoopHead(2), Stmt.cond, FALSE, FALSE), c)
        /\ todo' = fs \o Tail(todo)
    BY <1>4 DEF ForHead, NextBlock, Then, Finally, SameCleanups
  <2>2. PICK M, sc : /\ MemFits(todo, fn, cleanups, breakDests, continueDests, M, sc)
                     /\ Traced(fn, M, Live(cleanups))
    BY <1>1, MemAt
  <2>3. 2 \in {1, 2} /\ fn.n + 2 + 3 <= MaxBlock /\ fn.n + 2 + 1 <= MaxBlock /\ FALSE \in BOOLEAN
    BY <1>1, <2>1, MaxBlockAssumption
  <2>4. /\ fn.n + 3 <= fn'.n /\ fn'.n \in Nat /\ c \in CondRecs
        /\ c.cont # NoBlock => c.cont \in Block /\ c.cont > fn.n
        /\ \E N : /\ Traced(fn', N, Live(cleanups)) /\ KeepsStarts(fn, M, N)
                  /\ \A b \in Block : b > fn.n => N[b][1] = Live(cleanups)
    <3>1. CASE Stmt.cond = NoName
      <4>1. fn' = LoopHead(2) /\ c = Always(loop)
        BY <2>1, <3>1
      <4> HIDE DEF c
      <4>2. /\ LoopHead(2).n = fn.n + 2 + 1
            /\ \E N : /\ Traced(LoopHead(2), N, Live(cleanups)) /\ KeepsStarts(fn, M, N)
                      /\ \A b \in Block : b > fn.n => N[b][1] = Live(cleanups)
        BY <1>1, <2>2, <2>3, BareHeadOpened
      <4>3. c.cont = NoBlock /\ c \in CondRecs
        <5>1. loop \in Block
          BY <1>1, <2>1, MaxBlockAssumption DEF Block
        <5> QED BY <4>1, <5>1 DEF Always, CondRecs
      <4>4. fn.n + 3 <= fn'.n /\ fn'.n \in Nat
        BY <1>1, <4>1, <4>2
      <4> QED BY <4>1, <4>2, <4>3, <4>4
    <3>2. CASE Stmt.cond # NoName
      <4> DEFINE d0 == CondBlocks(LoopHead(2), FALSE)
      <4>1. fn' = EnterTrue(EmitCondition(LoopHead(2), Stmt.cond, FALSE, FALSE), d0) /\ c = d0
        BY <2>1, <3>2
      <4> HIDE DEF c
      <4>2. OpensLoop(EnterTrue(EmitCondition(LoopHead(2), Stmt.cond, FALSE, FALSE), CondBlocks(LoopHead(2), FALSE)),
                      CondBlocks(LoopHead(2), FALSE), M, Live(cleanups), 2)
        BY <1>1, <1>2, <2>2, <2>3, HeadOpened
      <4>3. OpensLoop(fn', c, M, Live(cleanups), 2)
        BY <4>1, <4>2
      <4>4. c \in CondRecs
        <5> HIDE DEF d0
        <5> QED BY <1>1, <1>2, <2>3, <4>1, HeadCondition DEF d0
      <4>5. fn.n + 3 <= fn'.n /\ fn'.n \in Nat
        BY <1>1, <4>3 DEF OpensLoop
      <4> QED BY <4>3, <4>4, <4>5 DEF OpensLoop
    <3> QED BY <3>1, <3>2
  <2> HIDE DEF c
  <2>5. PICK N : /\ Traced(fn', N, Live(cleanups)) /\ KeepsStarts(fn, M, N)
                 /\ \A b \in Block : b > fn.n => N[b][1] = Live(cleanups)
    BY <2>4
  <2>6. /\ fn.n <= fn'.n /\ loop > fn.n /\ inc > fn.n /\ end > fn.n /\ inc \in 1 .. fn'.n
        /\ loop \in Block /\ inc \in Block /\ end \in Block /\ end \notin fn.linked
    <3>1. loop \in Block /\ inc \in Block /\ end \in Block
      BY <1>1, <2>1, MaxBlockAssumption DEF Block
    <3>2. fn.linked \subseteq 1 .. fn.n
      BY <1>1 DEF Sound
    <3> QED BY <1>1, <2>4, <3>1, <3>2, SMTT(30)
  <2> HIDE DEF loop, inc, end
  <2>7. /\ N[loop][1] = Live(cleanups) /\ N[inc][1] = Live(cleanups) /\ N[end][1] = Live(cleanups)
        /\ c.cont # NoBlock => N[c.cont][1] = Live(cleanups)
    BY <2>4, <2>5, <2>6
  <2>8. /\ b1 \in Frames /\ b1.op = "visit" /\ b1.stmt = Stmt.body /\ b2 \in Frames /\ b2.op = "forInc"
        /\ b2.inc = inc /\ b3 \in Frames /\ b4 \in Frames /\ b5 \in Frames
    BY <1>2, <2>4, <2>6, FrameForms DEF Visit
  <2>9. \A x \in {b3, b4, b5} : Neutral(x) /\ FrameScope(x, cleanups, N) /\ (EndsLoop(x) => EndOf(x) = end)
    BY <2>7, TailScope
  <2> HIDE DEF b1, b2, b3, b4, b5
  <2>10. Neutral(b1) /\ FrameScope(b1, cleanups, N) /\ ~EndsLoop(b1)
    <3>1. FrameScope(todo[1], cleanups, M)
      BY <1>1, <2>2, MemParts
    <3>2. May(Stmt.body, cleanups)
      BY <1>1, <1>2, <3>1 DEF FrameScope
    <3> QED BY <1>2, <2>8, <3>2 DEF Neutral, Binds, FrameScope, Owned, EndsLoop
  <2>11. Neutral(b2) /\ FrameScope(b2, cleanups, N) /\ ~EndsLoop(b2)
    BY <2>7, <2>8 DEF Neutral, Binds, FrameScope, Owned, EndsLoop
  <2>12. /\ p \in Seq(Frames) /\ p # << >> /\ p[1] = b1 /\ q \in Seq(Frames)
         /\ \A i \in DOMAIN p : p[i] \in {b1, b2, b3, b4, b5}
         /\ \A i \in DOMAIN q : q[i] \in {b1, b2, b3, b4, b5}
    BY <2>8
  <2> HIDE DEF p, q
  <2>13. /\ fs \in Seq(Frames) /\ fs # << >> /\ fs[1] = b1
         /\ \A i \in DOMAIN fs : fs[i] \in {b1, b2, b3, b4, b5}
    BY <2>12, PushedBoth
  <2> HIDE DEF fs
  <2>14. \A i \in DOMAIN fs : /\ Neutral(fs[i]) /\ FrameScope(fs[i], cleanups, N)
                              /\ EndsLoop(fs[i]) => EndOf(fs[i]) = end
    BY <2>9, <2>10, <2>11, <2>13
  <2>15. Refits(todo, fs, cleanups, sc, cleanups, cs, N)
    <3>1. cleanups \in Scopes
      BY <1>1, <2>2, MemParts
    <3> QED BY <1>1, <2>13, <2>14, <3>1, RefitsSame
  <2> HIDE DEF cs
  <2>16. fs[1].op # "branch"
    BY <2>8, <2>13
  <2> QED BY <1>1, <2>1, <2>2, <2>4, <2>5, <2>6, <2>7, <2>13, <2>14, <2>15, <2>16, MemOpens, ZenonT(60)
<1> QED BY <1>3, <1>4 DEF ForHead

\* A scope is the beginning of the one its variables are added to.
LEMMA WiderScope ==
    ASSUME NEW c \in Scopes, NEW vs \in Seq(Name), c \o vs \in Scopes
    PROVE  Below(c, c \o vs) /\ Begin(c \o vs, Len(c)) = c /\ Len(c) <= Len(c \o vs)
<1> DEFINE d == c \o vs
           n == Len(c)
<1>1. c \in Seq(Var) /\ n \in Nat /\ DOMAIN c = 1 .. n /\ Len(vs) \in Nat
  BY DEF Scopes
<1>2. Len(d) = n + Len(vs) /\ \A i \in 1 .. n : d[i] = c[i]
  <2>1. c \in Seq(Name)
    BY <1>1, VarNames
  <2> QED BY <2>1, Concatenated
<1>3. d \in Scopes
  OBVIOUS
<1> HIDE DEF d
<1>4. n \in 0 .. Len(d) /\ n <= Len(d)
  BY <1>1, <1>2
<1> DEFINE r == Begin(d, n)
<1>5. r \in Seq(Var) /\ Len(r) = n /\ \A i \in 1 .. n : r[i] = d[i]
  BY <1>3, <1>4, BeginScope DEF Scopes
<1> HIDE DEF r
<1>6. r = c
  BY <1>1, <1>2, <1>5, SeqEqual
<1>7. Below(c, d)
  BY <1>1, <1>2, <1>4 DEF Below
<1> QED BY <1>4, <1>6, <1>7 DEF r, d

\* The frames of the loop of a for-each fit: those of the element have a scope of their own.
LEMMA RefitsElement ==
    ASSUME NEW t, Neutral(t[1]), NEW c \in Scopes, NEW sc, NEW N, NEW vs \in Seq(Name), c \o vs \in Scopes,
           NEW fs \in Seq(Frames), fs # << >>, Len(fs) = 6, DOMAIN fs = 1 .. 6,
           fs[1].op = "bind", fs[1].vars = vs, Neutral(fs[2]), FrameScope(fs[2], c \o vs, N), ~EndsLoop(fs[2]),
           fs[3].op = "endScope", fs[3].depth = Len(c),
           \A i \in 4 .. 6 : Neutral(fs[i]) /\ FrameScope(fs[i], c, N)
    PROVE  Refits(t, fs, c, sc, c, [i \in DOMAIN fs |-> IF i \in {2, 3} THEN c \o vs ELSE c], N)
<1> DEFINE d == c \o vs
           cs == [i \in DOMAIN fs |-> IF i \in {2, 3} THEN d ELSE c]
<1>1. /\ Below(c, d) /\ Begin(d, Len(c)) = c /\ Len(c) <= Len(d) /\ d \in Scopes /\ d = c \o vs
  BY WiderScope
<1> HIDE DEF d
<1>2. /\ cs \in [DOMAIN fs -> Scopes] /\ fs # << >> /\ Len(fs) = 6
      /\ cs[1] = c /\ cs[2] = d /\ cs[3] = d /\ cs[4] = c /\ cs[5] = c /\ cs[6] = c
  <2>1. cs \in [DOMAIN fs -> Scopes] /\ \A i \in DOMAIN fs : cs[i] = IF i \in {2, 3} THEN d ELSE c
    BY <1>1
  <2> HIDE DEF cs
  <2>2. /\ 1 \in DOMAIN fs /\ 2 \in DOMAIN fs /\ 3 \in DOMAIN fs /\ 4 \in DOMAIN fs /\ 5 \in DOMAIN fs
        /\ 6 \in DOMAIN fs
    OBVIOUS
  <2> QED BY <2>1, <2>2
<1> HIDE DEF cs
<1>3. \A i \in DOMAIN fs : i = 1 \/ i = 2 \/ i = 3 \/ i = 4 \/ i = 5 \/ i = 6
  OBVIOUS
<1>4. 4 \in 4 .. 6 /\ 5 \in 4 .. 6 /\ 6 \in 4 .. 6
  OBVIOUS
<1>5. /\ ~EndsLoop(fs[1]) /\ ~EndsLoop(fs[3]) /\ Binds(fs[1]) /\ Bound(fs[1]) = vs /\ ~Binds(fs[3])
      /\ FrameScope(fs[1], c, N) /\ FrameScope(fs[3], d, N) /\ FrameScope(fs[2], d, N)
  BY <1>1 DEF EndsLoop, Binds, Bound, FrameScope, Owned
<1>6. \A i \in DOMAIN fs : FrameScope(fs[i], cs[i], N)
  BY <1>2, <1>3, <1>4, <1>5
<1>7. \A i \in DOMAIN fs : Below(c, cs[i])
  BY <1>1, <1>2, <1>3, BelowScopes
<1>8. \A i \in DOMAIN fs : EndsLoop(fs[i]) => cs[i] = c
  BY <1>2, <1>3, <1>5
<1>9. \A i \in DOMAIN fs : i + 1 \in DOMAIN fs => After(fs[i], fs[i + 1], cs[i], cs[i + 1])
  <2>1. After(fs[1], fs[2], cs[1], cs[2]) /\ After(fs[3], fs[4], cs[3], cs[4])
    BY <1>1, <1>2, <1>5 DEF After
  <2>2. After(fs[2], fs[3], cs[2], cs[3])
    BY <1>2, NeutralAfter
  <2>3. After(fs[4], fs[5], cs[4], cs[5]) /\ After(fs[5], fs[6], cs[5], cs[6])
    BY <1>2, <1>4, NeutralAfter
  <2>4. 1 + 1 = 2 /\ 2 + 1 = 3 /\ 3 + 1 = 4 /\ 4 + 1 = 5 /\ 5 + 1 = 6 /\ 6 + 1 \notin DOMAIN fs
    OBVIOUS
  <2> QED BY <1>3, <2>1, <2>2, <2>3, <2>4
<1>10. \A nx, e : After(t[1], nx, c, e) => After(fs[Len(fs)], nx, cs[Len(fs)], e)
  BY <1>2, <1>4, NeutralAfter
<1>11. Refits(t, fs, c, sc, c, cs, N)
  BY <1>2, <1>6, <1>7, <1>8, <1>9, <1>10 DEF Refits
<1> QED BY <1>11 DEF cs, d

\* The loop of a for-each: its element is bound anew in a scope around the body.
LEMMA ForEachHeadTraces ==
    ASSUME GenInv, MemInv, ForEachHead
    PROVE  MemInv'
<1> DEFINE loop == fn.n + 1
           end == loop + 1
           c == CondBlocks(LoopHead(1), FALSE)
           b1 == Bind(Stmt.elem)
           b2 == Visit(Stmt.body)
           b3 == [op |-> "endScope", depth |-> Depth]
           b4 == [op |-> "loopBack", loop |-> loop, cond |-> c]
           b5 == [op |-> "complete", cond |-> c]
           b6 == [op |-> "endLoop", end |-> end]
           fs == ((<<b1, b2>> \o <<b3>>) \o <<b4>>) \o <<b5, b6>>
           vs == Stmt.elem
           d == cleanups \o vs
           cs == [i \in DOMAIN fs |-> IF i \in {2, 3} THEN d ELSE cleanups]
<1>1. /\ todo # << >> /\ todo[1] = Head(todo) /\ todo[1] \in Frames /\ todo[1].op # "branch"
      /\ todo[1].op = "forEachHead" /\ todo[1].stmt.kind = "foreach" /\ Sound(fn) /\ fn.n \in Nat
      /\ Neutral(todo[1])
  BY GenInvParts, SoundCounts DEF ForEachHead, Running, FrameFits, Neutral, Binds
<1>2. /\ Stmt = todo[1].stmt /\ Stmt \in LoopStmt /\ Stmt.body \in LoopStmt /\ Stmt.cond \in Name
      /\ Stmt.elem \in Seq(Name) /\ Stmt.body.kind # "var"
  BY <1>1, FrameFields, StatementParts, ScopeAssumption DEF Stmt, DeclaresOnce, Inside
<1>3. CASE ~HasValidIP(fn) /\ Then(<< >>) /\ UNCHANGED fn /\ SameDests
  <2>1. /\ UNCHANGED <<fn, cleanups, breakDests, continueDests>> /\ todo' = << >> \o Tail(todo)
    BY <1>3 DEF ForEachHead, SameCleanups, SameDests, Then
  <2> QED BY <1>1, <2>1, DroppedTraces
<1>4. CASE HasValidIP(fn) /\ ~(~HasValidIP(fn) /\ Then(<< >>) /\ UNCHANGED fn /\ SameDests)
  <2>1. /\ loop + 3 <= MaxBlock /\ UNCHANGED cleanups /\ PushDests(end, loop)
        /\ fn' = EnterTrue(EmitCondition(LoopHead(1), Stmt.cond, FALSE, TRUE), c)
        /\ todo' = fs \o Tail(todo)
    BY <1>4 DEF ForEachHead, NextBlock, Then, Scoped, Finally, SameCleanups
  <2>2. PICK M, sc : /\ MemFits(todo, fn, cleanups, breakDests, continueDests, M, sc)
                     /\ Traced(fn, M, Live(cleanups))
    BY <1>1, MemAt
  <2>3. TRUE \in BOOLEAN /\ 1 \in {1, 2} /\ fn.n + 1 + 3 <= MaxBlock
    BY <1>1, <2>1, MaxBlockAssumption
  <2>4. OpensLoop(fn', c, M, Live(cleanups), 1)
    <3>1. OpensLoop(EnterTrue(EmitCondition(LoopHead(1), Stmt.cond, FALSE, TRUE), CondBlocks(LoopHead(1), FALSE)),
                    CondBlocks(LoopHead(1), FALSE), M, Live(cleanups), 1)
      BY <1>1, <1>2, <2>2, <2>3, HeadOpened
    <3> QED BY <2>1, <3>1
  <2>5. c \in CondRecs
    <3> HIDE DEF c
    <3> QED BY <1>1, <1>2, <2>3, HeadCondition DEF c
  <2> HIDE DEF c
  <2>6. PICK N : /\ Traced(fn', N, Live(cleanups)) /\ KeepsStarts(fn, M, N)
                 /\ \A b \in Block : b > fn.n => N[b][1] = Live(cleanups)
    BY <2>4 DEF OpensLoop
  <2>7. /\ fn.n <= fn'.n /\ fn'.n \in Nat /\ loop \in 1 .. fn'.n /\ c.cont \in Block /\ c.cont > fn.n
        /\ loop > fn.n /\ end > fn.n /\ loop \in Block /\ end \in Block /\ end \notin fn.linked
    <3>1. loop \in Block /\ end \in Block
      BY <1>1, <2>1, MaxBlockAssumption DEF Block
    <3>2. fn.linked \subseteq 1 .. fn.n
      BY <1>1 DEF Sound
    <3>3. fn'.n = fn.n + 1 + 3 /\ c.cont \in Block /\ c.cont > fn.n
      BY <2>4 DEF OpensLoop
    <3> QED BY <1>1, <3>1, <3>2, <3>3
  <2> HIDE DEF loop, end
  <2>8. N[loop][1] = Live(cleanups) /\ N[end][1] = Live(cleanups) /\ N[c.cont][1] = Live(cleanups)
    BY <2>6, <2>7
  <2>9. /\ cleanups \in Scopes /\ Len(cleanups) \in Nat /\ Depth = Len(cleanups)
        /\ d \in Scopes /\ May(Stmt.body, d)
    <3>1. FrameScope(todo[1], cleanups, M)
      BY <1>1, <2>2, MemParts
    <3>2. cleanups \in Scopes /\ Depth = Len(cleanups)
      BY <1>1, <2>2, MemParts DEF Depth
    <3> QED BY <1>1, <1>2, <3>1, <3>2 DEF FrameScope, Scopes
  <2>10. /\ b1 \in Frames /\ b1.op = "bind" /\ b1.vars = vs
         /\ b2 \in Frames /\ b2.op = "visit" /\ b2.stmt = Stmt.body
         /\ b3 \in Frames /\ b3.op = "endScope" /\ b3.depth = Len(cleanups)
         /\ b4 \in Frames /\ b5 \in Frames /\ b6 \in Frames
    BY <1>2, <2>5, <2>7, <2>9, FrameForms DEF Visit, Bind
  <2>11. \A x \in {b4, b5, b6} : Neutral(x) /\ FrameScope(x, cleanups, N) /\ (EndsLoop(x) => EndOf(x) = end)
    BY <2>8, TailScope
  <2> HIDE DEF b1, b2, b3, b4, b5, b6
  <2>12. Neutral(b2) /\ FrameScope(b2, d, N) /\ ~EndsLoop(b2) /\ ~EndsLoop(b1) /\ ~EndsLoop(b3)
    <3> HIDE DEF d
    <3> QED BY <1>2, <2>9, <2>10 DEF Neutral, Binds, FrameScope, Owned, EndsLoop
  <2>13. /\ fs \in Seq(Frames) /\ Len(fs) = 6 /\ DOMAIN fs = 1 .. 6 /\ fs # << >>
         /\ fs[1] = b1 /\ fs[2] = b2 /\ fs[3] = b3 /\ fs[4] = b4 /\ fs[5] = b5 /\ fs[6] = b6
    BY <2>10, SixFrames
  <2> HIDE DEF fs
  <2>14. \A i \in DOMAIN fs : i = 1 \/ i = 2 \/ i = 3 \/ i = 4 \/ i = 5 \/ i = 6
    BY <2>13
  <2>15. \A i \in DOMAIN fs : EndsLoop(fs[i]) => EndOf(fs[i]) = end
    BY <2>11, <2>12, <2>13, <2>14
  <2>16. Refits(todo, fs, cleanups, sc, cleanups, cs, N)
    <3>1. \A i \in 4 .. 6 : Neutral(fs[i]) /\ FrameScope(fs[i], cleanups, N)
      <4>1. \A i \in 4 .. 6 : i = 4 \/ i = 5 \/ i = 6
        OBVIOUS
      <4> QED BY <2>11, <2>13, <4>1
    <3>2. vs \in Seq(Name)
      BY <1>2
    <3>3. /\ Neutral(fs[2]) /\ FrameScope(fs[2], cleanups \o vs, N) /\ ~EndsLoop(fs[2]) /\ cleanups \o vs \in Scopes
          /\ fs[1].op = "bind" /\ fs[1].vars = vs /\ fs[3].op = "endScope" /\ fs[3].depth = Len(cleanups)
      BY <2>9, <2>10, <2>12, <2>13
    <3> HIDE DEF vs
    <3> QED BY <1>1, <2>9, <2>13, <3>1, <3>2, <3>3, RefitsElement
  <2> HIDE DEF cs
  <2>17. fs[1].op # "branch"
    BY <2>10, <2>13
  <2> QED BY <1>1, <2>1, <2>2, <2>6, <2>7, <2>8, <2>13, <2>15, <2>16, <2>17, MemOpens
<1> QED BY <1>3, <1>4 DEF ForEachHead

-----------------------------------------------------------------------------
\* In the empty function no variable has a value, and the parameters are the scope
\* of the body.
LEMMA MemStarts == SILGenInit => MemInv
<1> SUFFICES ASSUME SILGenInit PROVE MemInv
  OBVIOUS
<1> DEFINE b1 == Bind(prog.params)
           b2 == Visit(prog.body)
           e == << >>
           ps == prog.params
           sc == <<e, ps>>
           M == [b \in Block |-> <<Live(e)>>]
<1>1. /\ prog \in Program /\ fn = EmptyFunction /\ cleanups = e
      /\ breakDests = << >> /\ continueDests = << >> /\ todo = <<b1, b2>>
  BY DEF SILGenInit, Bind, Visit
<1>2. ps \in Seq(Name) /\ prog.body \in LoopStmt /\ IsInjective(ps) /\ ToSet(ps) \subseteq Var \ Declares[prog.body]
  BY <1>1, ProgramAssumption, FreeParts, ScopeAssumption
<1>3. e \in Scopes /\ ps \in Scopes /\ e \o ps = ps /\ e \in Seq(Name)
  <2>1. \A i \in DOMAIN ps : ps[i] \in Var
    BY <1>2 DEF ToSet
  <2>2. ps \in Seq(Var)
    <3>1. ps \in [1 .. Len(ps) -> Var] /\ Len(ps) \in Nat
      BY <1>2, <2>1
    <3> QED BY <3>1
  <2>3. e \in Seq(Var) /\ IsInjective(e)
    BY DEF IsInjective
  <2>4. e \o ps = ps
    BY <1>2
  <2> QED BY <1>2, <2>2, <2>3, <2>4 DEF Scopes
<1>4. /\ fn.ip = Entry /\ Entry \in Block /\ fn.insts = [b \in Block |-> << >>] /\ fn.n = 1
  BY <1>1, EntryBlock DEF EmptyFunction
<1>5. /\ b1.op = "bind" /\ b1.vars = ps /\ b2.op = "visit" /\ b2.stmt = prog.body
  BY DEF Bind, Visit
<1> HIDE DEF b1, b2
<1>6. /\ DOMAIN todo = {1, 2} /\ todo[1] = b1 /\ todo[2] = b2 /\ todo # << >>
      /\ DOMAIN sc = {1, 2} /\ sc[1] = e /\ sc[2] = ps /\ sc \in [{1, 2} -> Scopes]
  BY <1>1, <1>3
<1>7. Live(e) \in Mem /\ M \in [Block -> Seq(Mem)] /\ \A b \in Block : M[b] = <<Live(e)>>
  BY LiveMem
<1> HIDE DEF e, ps, sc, M
<1>8. /\ ~EndsLoop(b1) /\ ~EndsLoop(b2) /\ FrameScope(b1, e, M) /\ FrameScope(b2, ps, M)
      /\ After(b1, b2, e, ps)
  <2>1. May(prog.body, ps)
    BY <1>2 DEF May
  <2> QED BY <1>3, <1>5, <2>1 DEF EndsLoop, FrameScope, Owned, After, Binds, Bound
<1>9. ScopesOf(todo, sc, cleanups)
  <2>1. \A i \in DOMAIN todo : i + 1 \in DOMAIN todo => i = 1 /\ i + 1 = 2
    BY <1>6
  <2>2. \A i \in DOMAIN todo : ~EndsLoop(todo[i])
    BY <1>6, <1>8
  <2> QED BY <1>1, <1>3, <1>6, <1>8, <2>1, <2>2 DEF ScopesOf
<1>10. MemFits(todo, fn, cleanups, breakDests, continueDests, M, sc)
  <2>1. \A i \in DOMAIN todo : FrameScope(todo[i], sc[i], M)
    BY <1>6, <1>8
  <2>2. DOMAIN breakDests = {}
    BY <1>1
  <2> QED BY <1>9, <2>1, <2>2 DEF MemFits
<1>11. Accounts(fn.insts, M) /\ Ending(M, fn.ip) = Live(e)
  <2>1. \A b \in Block : fn.insts[b] = << >> /\ Len(M[b]) = 1 /\ M[b][1] = Live(e)
    <3> TAKE b \in Block
    <3> DEFINE x == Live(e)
    <3>1. fn.insts[b] = << >>
      BY <1>4
    <3>2. M[b] = <<x>>
      BY <1>7
    <3>3. Len(<<x>>) = 1 /\ <<x>>[1] = x
      OBVIOUS
    <3> HIDE DEF x
    <3>4. Len(M[b]) = 1 /\ M[b][1] = x
      BY <3>2, <3>3
    <3> QED BY <3>1, <3>4 DEF x
  <2>2. \A b \in Block : DOMAIN fn.insts[b] = {} /\ Len(M[b]) = Len(fn.insts[b]) + 1
    <3> TAKE b \in Block
    <3>1. fn.insts[b] = << >> /\ Len(M[b]) = 1
      BY <2>1
    <3>2. Len(<< >>) = 0 /\ DOMAIN << >> = {} /\ 0 + 1 = 1
      OBVIOUS
    <3>3. DOMAIN fn.insts[b] = {} /\ Len(fn.insts[b]) = 0
      BY <3>1, <3>2
    <3> QED BY <3>1, <3>2, <3>3
  <2>3. Ending(M, fn.ip) = Live(e) /\ M[Entry][1] = Live(<< >>)
    BY <1>4, <2>1 DEF Ending, e
  <2> QED BY <1>7, <2>2, <2>3 DEF Accounts
<1>12. Here(todo, cleanups) = Live(e) /\ BranchScope(todo, cleanups, M)
  BY <1>1, <1>5, <1>6 DEF Here, BranchScope
<1> QED BY <1>7, <1>10, <1>11, <1>12 DEF MemInv, Traced

\* One case per visitor.
LEMMA StepTraces ==
    ASSUME GenInv, MemInv, SILGenStep
    PROVE  MemInv'
BY VisitExprTraces, VisitPatternBindingTraces, BindVarTraces, VisitBraceTraces, BraceElementTraces,
   EndScopeTraces, VisitReturnTraces, VisitJumpTraces, ThreadCleanupTraces, VisitIfTraces,
   IfTrueExitTraces, IfFalseExitTraces, CompleteTraces, VisitWhileTraces, LoopBackTraces,
   EndLoopTraces, VisitDoWhileTraces, DoConditionTraces, VisitForTraces, ForHeadTraces, ForIncTraces,
   VisitForEachTraces, ForEachHeadTraces, FinishFunctionTraces
   DEF SILGenStep

-----------------------------------------------------------------------------
(* The execution *)

\* While the function is generated there is an account of it; when it runs, the
\* memory is what the account says at the instruction that is next.
MemRunInv ==
    /\ phase = "generate" => MemInv /\ mem = Live(<< >>)
    /\ phase # "generate" => \E M : Accounts(fn.insts, M) /\ mem = M[pc.block][pc.index]

\* Before anything was generated.
LEMMA MemRunStarts == Init => MemRunInv
<1> SUFFICES ASSUME Init PROVE MemRunInv
  OBVIOUS
<1>1. MemInv /\ phase = "generate" /\ mem = [v \in Var |-> "none"]
  BY MemStarts DEF Init
<1>2. ToSet(<< >>) = {}
  BY DEF ToSet
<1> QED BY <1>1, <1>2 DEF MemRunInv, Live

\* What the account says of the instruction that is next.
LEMMA AccountedNext ==
    ASSUME GenInv, AtInstruction, NEW M, Accounts(fn.insts, M), mem = M[pc.block][pc.index]
    PROVE  /\ Executes(Current, mem, M[pc.block][pc.index + 1])
           /\ \A i \in DOMAIN Current.succs : M[Current.succs[i]][1] = mem
<1>1. Sound(fn) /\ pc.block \in fn.linked /\ pc.index \in 1 .. Len(fn.insts[pc.block])
  BY DEF GenInv, AtInstruction
<1>2. pc.block \in Block /\ fn.insts \in [Block -> Seq(Inst)]
  BY <1>1, SoundFields
<1>3. pc.index \in DOMAIN fn.insts[pc.block] /\ Current = fn.insts[pc.block][pc.index]
  BY <1>1, <1>2 DEF Current
<1>4. /\ Executes(Current, mem, M[pc.block][pc.index + 1])
      /\ \A s \in SuccSet(Current) : M[s][1] = mem
  BY <1>2, <1>3 DEF Accounts
<1> QED BY <1>4 DEF SuccSet

\* One case per step of the compiler and of the two machines.
LEMMA MemRunStep ==
    ASSUME RunInv, MemRunInv, [Next]_vars
    PROVE  MemRunInv'
<1>1. CASE UNCHANGED vars
  BY <1>1 DEF MemRunInv, vars, genVars, runVars, MemInv
<1>2. CASE Generate
  <2>1. GenInv /\ MemInv /\ SILGenStep /\ phase' = "generate" /\ mem' = Live(<< >>)
    BY <1>2 DEF RunInv, MemRunInv, Generate, runVars
  <2>2. MemInv'
    BY <2>1, StepTraces
  <2> QED BY <2>1, <2>2 DEF MemRunInv
<1>3. CASE StartRun
  <2>1. /\ MemInv /\ fn' = fn /\ mem' = Live(<< >>) /\ pc' = [block |-> Entry, index |-> 1] /\ phase' = "run"
    BY <1>3 DEF RunInv, MemRunInv, StartRun, genVars
  <2>2. PICK M : Accounts(fn.insts, M)
    BY <2>1 DEF MemInv, Traced
  <2>3. M[pc'.block][pc'.index] = mem' /\ Accounts(fn'.insts, M)
    BY <2>1, <2>2 DEF Accounts
  <2> QED BY <2>1, <2>3 DEF MemRunInv
<1>4. ASSUME NEW M, Accounts(fn.insts, M), fn' = fn, phase' # "generate", mem' = M[pc'.block][pc'.index]
      PROVE  MemRunInv'
  BY <1>4 DEF MemRunInv
<1>5. CASE SourceStep \/ Finish
  <2>1. fn' = fn /\ pc' = pc /\ mem' = mem /\ phase # "generate" /\ phase' # "generate"
    BY <1>5 DEF SourceStep, Finish, Leaving, Meeting, genVars
  <2>2. PICK M : Accounts(fn.insts, M) /\ mem = M[pc.block][pc.index]
    BY <2>1 DEF MemRunInv
  <2> QED BY <1>4, <2>1, <2>2
<1>6. ASSUME MachineStep \/ Call \/ \E b \in BOOLEAN : Test(b)
      PROVE  MemRunInv'
  <2>1. /\ GenInv /\ AtInstruction /\ fn' = fn /\ phase = "run" /\ phase' = "run"
    BY <1>6 DEF RunInv, MachineStep, Call, Test, Meeting, genVars
  <2>2. PICK M : Accounts(fn.insts, M) /\ mem = M[pc.block][pc.index]
    BY <2>1 DEF MemRunInv
  <2>3. /\ Executes(Current, mem, M[pc.block][pc.index + 1])
        /\ \A i \in DOMAIN Current.succs : M[Current.succs[i]][1] = mem
    BY <2>1, <2>2, AccountedNext
  <2>4. ASSUME NEW i \in DOMAIN Current.succs, GoTo(Current.succs[i]), mem' = mem PROVE MemRunInv'
    <3>1. mem' = M[pc'.block][pc'.index]
      BY <2>3, <2>4 DEF GoTo
    <3> QED BY <1>4, <2>1, <2>2, <3>1
  <2>5. StepOver => pc'.block = pc.block /\ pc'.index = pc.index + 1
    BY DEF StepOver
  <2>6. CASE MachineStep
    <3>1. CASE Current.op = "br" /\ GoTo(Current.succs[1]) /\ UNCHANGED mem
      BY <2>1, <2>4, <3>1, TargetsExist
    <3>2. CASE /\ Current.op \in DOMAIN Needs /\ StepOver
               /\ mem' = [mem EXCEPT ![Current.id] = Leaves[Current.op]]
      <4>1. mem' = M[pc.block][pc.index + 1]
        BY <2>3, <3>2 DEF Executes
      <4> QED BY <1>4, <2>1, <2>2, <2>5, <3>2, <4>1
    <3> QED BY <2>6, <3>1, <3>2 DEF MachineStep
  <2>7. CASE Call
    <3>1. StepOver /\ mem' = mem /\ Current.op = "apply"
      BY <2>7 DEF Call, MachineEvent, Event, Silent
    <3>2. Current.op \notin DOMAIN Needs
      BY <3>1 DEF Needs
    <3>3. mem' = M[pc.block][pc.index + 1]
      BY <2>3, <3>1, <3>2 DEF Executes
    <3> QED BY <1>4, <2>1, <2>2, <2>5, <3>1, <3>3
  <2>8. ASSUME NEW b \in BOOLEAN, Test(b) PROVE MemRunInv'
    <3>1. GoTo(Current.succs[IF b THEN 1 ELSE 2]) /\ mem' = mem /\ Current.op = "condbr"
      BY <2>8 DEF Test, MachineEvent, Event, Silent
    <3>2. (IF b THEN 1 ELSE 2) \in DOMAIN Current.succs
      BY <2>1, <3>1, TargetsExist
    <3> QED BY <2>4, <3>1, <3>2
  <2> QED BY <1>6, <2>6, <2>7, <2>8
<1> QED BY <1>1, <1>2, <1>3, <1>5, <1>6 DEF Next, Stopped

\* The invariant holds of every execution.
LEMMA MemAlways == Spec => []MemRunInv
BY MemRunStarts, MemRunStep, RunAlways, PTL DEF Spec

\* Whatever the program and the outcomes of its conditions, on every path through the
\* function SILGen emits, and around every loop, each variable is allocated when
\* it has no memory, initialized once, destroyed once and deallocated after that:
\* no cleanup of a scope, break, continue or return is left out or emitted twice.
THEOREM SILGenKeepsMemory == Spec => []MemoryDiscipline
<1>1. ASSUME RunInv, MemRunInv PROVE MemoryDiscipline
  <2> SUFFICES ASSUME phase = "run", AtInstruction, Current.op \in DOMAIN Needs
               PROVE  mem[Current.id] = Needs[Current.op]
    BY DEF MemoryDiscipline
  <2>1. PICK M : Accounts(fn.insts, M) /\ mem = M[pc.block][pc.index]
    BY <1>1 DEF MemRunInv
  <2>2. Executes(Current, mem, M[pc.block][pc.index + 1])
    BY <1>1, <2>1, AccountedNext DEF RunInv
  <2> QED BY <2>2 DEF Executes
<1> QED BY <1>1, MemAlways, RunAlways, PTL
=============================================================================
