--------------------------- MODULE SILBuilderProofs ---------------------------
(***************************************************************************)
(* Whatever its clients emit, and however many blocks they create, a       *)
(* function built under the contract of SILBuilder is well formed: typed,  *)
(* terminated once per block, with complete predecessor lists, and without *)
(* a branch to an erased block.                                            *)
(***************************************************************************)
EXTENDS SILBuilder, TLAPS

\* The inductive invariant.  Only terminators have successors, and the builder
\* points at an emitted block; without the first the zapped branch could leave
\* an edge behind, without the second a fresh block could receive instructions.
WellFormed(f) ==
    /\ f \in FunctionType
    /\ EndsOnce(f)
    /\ PredsCover(f)
    /\ EdgesLinked(f)
    /\ \A b \in Block : \A i \in DOMAIN f.insts[b] :
           ~IsTerm(f.insts[b][i]) => f.insts[b][i].succs = << >>
    /\ f.ip \in f.emitted \cup {NoBlock}

LEMMA InitWellFormed == WellFormed(EmptyFunction)
BY MaxBlockAssumption
   DEF WellFormed, EmptyFunction, FunctionType, EndsOnce, PredsCover, EdgesLinked,
       Edge, Ended, IsTerm, HasValidIP, Block, NoBlock, Entry

\* What a function record is made of.
LEMMA FunctionFields ==
    ASSUME NEW f \in FunctionType
    PROVE  /\ f.n \in 0 .. MaxBlock /\ f.linked \in SUBSET Block
           /\ f.emitted \in SUBSET Block
           /\ f.insts \in [Block -> Seq(Inst)]
           /\ f.preds \in [Block -> Seq(Block \cup {NoBlock})]
           /\ f.ip \in Block \cup {NoBlock}
           /\ f = [n |-> f.n, linked |-> f.linked, emitted |-> f.emitted,
                   insts |-> f.insts, preds |-> f.preds, ip |-> f.ip]
BY DEF FunctionType

\* The instruction list of one block grows by one, at its end.
LEMMA InsertField ==
    ASSUME NEW f \in FunctionType, f.ip \in Block, NEW inst \in Inst
    PROVE  LET g == [f EXCEPT !.insts[f.ip] = Append(@, inst)]
           IN  /\ g \in FunctionType
               /\ g.preds = f.preds /\ g.linked = f.linked
               /\ g.emitted = f.emitted /\ g.ip = f.ip
               /\ Len(g.insts[f.ip]) = Len(f.insts[f.ip]) + 1
               /\ g.insts[f.ip][Len(g.insts[f.ip])] = inst
               /\ \A i \in 1 .. Len(f.insts[f.ip]) : g.insts[f.ip][i] = f.insts[f.ip][i]
               /\ g.insts[f.ip] # << >>
               /\ \A b \in Block \ {f.ip} : g.insts[b] = f.insts[b]
<1> DEFINE g == [f EXCEPT !.insts[f.ip] = Append(@, inst)]
           s == Append(f.insts[f.ip], inst)
<1>1. f.insts \in [Block -> Seq(Inst)]
  BY FunctionFields
<1>2. f.insts[f.ip] \in Seq(Inst)
  BY <1>1
<1>3. /\ s \in Seq(Inst) /\ Len(s) = Len(f.insts[f.ip]) + 1 /\ s[Len(s)] = inst
      /\ \A i \in 1 .. Len(f.insts[f.ip]) : s[i] = f.insts[f.ip][i]
      /\ s # << >>
  BY <1>2, SMTT(30)
<1>4. g \in FunctionType
  BY <1>1, <1>3 DEF FunctionType
<1>5. /\ g.preds = f.preds /\ g.linked = f.linked
      /\ g.emitted = f.emitted /\ g.ip = f.ip
      /\ g.insts[f.ip] = s /\ \A b \in Block \ {f.ip} : g.insts[b] = f.insts[b]
  BY <1>1 DEF FunctionType
<1> QED BY <1>3, <1>4, <1>5

LEMMA InsertWellFormed ==
    ASSUME NEW f, WellFormed(f), NEW inst \in Inst, ~IsTerm(inst), inst.succs = << >>
    PROVE  WellFormed(Insert(f, inst))
<1>1. CASE ~HasValidIP(f)
  BY <1>1 DEF Insert
<1>2. CASE HasValidIP(f)
  <2> DEFINE g == [f EXCEPT !.insts[f.ip] = Append(@, inst)]
  <2>1. /\ f \in FunctionType /\ f.ip \in Block /\ f.ip \in f.emitted
        /\ f.insts \in [Block -> Seq(Inst)]
    BY <1>2, FunctionFields DEF WellFormed, HasValidIP
  <2>2. /\ g \in FunctionType
        /\ g.preds = f.preds /\ g.linked = f.linked /\ g.emitted = f.emitted /\ g.ip = f.ip
        /\ Len(g.insts[f.ip]) = Len(f.insts[f.ip]) + 1
        /\ g.insts[f.ip][Len(g.insts[f.ip])] = inst
        /\ \A i \in 1 .. Len(f.insts[f.ip]) : g.insts[f.ip][i] = f.insts[f.ip][i]
        /\ g.insts[f.ip] # << >>
        /\ \A b \in Block \ {f.ip} : g.insts[b] = f.insts[b]
    BY <2>1, InsertField, ZenonT(60)
  <2> HIDE DEF g
  <2>3. EndsOnce(g)
    <3>1. \A i \in 1 .. Len(f.insts[f.ip]) : ~IsTerm(f.insts[f.ip][i])
      BY <1>2, <2>1 DEF WellFormed, EndsOnce, Ended
    <3>2. \A b \in Block : \A i \in 1 .. Len(g.insts[b]) - 1 : ~IsTerm(g.insts[b][i])
      <4> TAKE b \in Block
      <4> TAKE i \in 1 .. Len(g.insts[b]) - 1
      <4>2. CASE b = f.ip
        BY <2>1, <2>2, <3>1, <4>2
      <4>3. CASE b # f.ip
        BY <2>2, <4>3 DEF WellFormed, EndsOnce
      <4> QED BY <4>2, <4>3
    <3>3. ~Ended(g, g.ip)
      BY <2>1, <2>2 DEF Ended
    <3>4. \A b \in Block \ g.emitted : g.insts[b] = << >>
      BY <2>1, <2>2 DEF WellFormed, EndsOnce
    <3> QED BY <3>2, <3>3, <3>4 DEF EndsOnce
  <2>4. \A b \in Block : \A i \in DOMAIN g.insts[b] :
           \/ i \in DOMAIN f.insts[b] /\ g.insts[b][i] = f.insts[b][i]
           \/ g.insts[b][i] = inst
    <3> TAKE b \in Block
    <3> TAKE i \in DOMAIN g.insts[b]
    <3>1. CASE b = f.ip
      <4> DEFINE old == f.insts[b]
                 new == g.insts[b]
      <4>1. old \in Seq(Inst) /\ new \in Seq(Inst)
        BY <2>1, <2>2, FunctionFields
      <4>2. /\ Len(new) = Len(old) + 1 /\ new[Len(new)] = inst
            /\ \A j \in 1 .. Len(old) : new[j] = old[j]
        BY <2>2, <3>1
      <4>3. i \in DOMAIN new
        OBVIOUS
      <4> HIDE DEF old, new
      <4>4. i \in 1 .. Len(old) \/ i = Len(new)
        BY <4>1, <4>2, <4>3
      <4>5. (i \in DOMAIN old /\ new[i] = old[i]) \/ new[i] = inst
        BY <4>1, <4>2, <4>4
      <4> QED BY <4>5 DEF old, new
    <3>2. CASE b # f.ip
      BY <2>2, <3>2
    <3> QED BY <3>1, <3>2
  <2>5. SuccSet(inst) = {}
    BY DEF SuccSet
  <2>6. PredsCover(g)
    BY <2>2, <2>4, <2>5 DEF WellFormed, PredsCover, Edge
  <2>7. EdgesLinked(g)
    BY <2>2, <2>4, <2>5 DEF WellFormed, EdgesLinked, Edge
  <2> QED
    BY <1>2, <2>2, <2>3, <2>4, <2>6, <2>7 DEF WellFormed, Insert, g
<1> QED BY <1>1, <1>2

\* Entering a terminator in predecessor lists adds an entry for the current
\* block to the list of each target and loses none.
LEMMA SucceedField ==
    ASSUME NEW f \in FunctionType, NEW inst
    PROVE  LET h == Succeed(f, inst)
           IN  /\ h \in FunctionType
               /\ h.insts = f.insts /\ h.linked = f.linked
               /\ h.emitted = f.emitted /\ h.ip = f.ip
               /\ \A b \in Block : b \in SuccSet(inst) =>
                      \E k \in DOMAIN h.preds[b] : h.preds[b][k] = f.ip
               /\ \A b \in Block : \A j \in DOMAIN f.preds[b] :
                      \E k \in DOMAIN h.preds[b] : h.preds[b][k] = f.preds[b][j]
<1> DEFINE longer(b) == <<f.ip>> \o f.preds[b]
           lists == [b \in Block |-> IF b \in SuccSet(inst) THEN longer(b) ELSE f.preds[b]]
           h == [f EXCEPT !.preds = lists]
<1>1. f.preds \in [Block -> Seq(Block \cup {NoBlock})] /\ f.ip \in Block \cup {NoBlock}
  BY FunctionFields
<1>2. \A b \in Block :
         /\ longer(b) \in Seq(Block \cup {NoBlock})
         /\ 1 \in DOMAIN longer(b) /\ longer(b)[1] = f.ip
         /\ \A j \in DOMAIN f.preds[b] :
                j + 1 \in DOMAIN longer(b) /\ longer(b)[j + 1] = f.preds[b][j]
  BY <1>1
<1> HIDE DEF longer
<1>3. lists \in [Block -> Seq(Block \cup {NoBlock})]
  BY <1>1, <1>2
<1>4. /\ h \in FunctionType /\ h.insts = f.insts /\ h.linked = f.linked
      /\ h.emitted = f.emitted /\ h.ip = f.ip /\ h.preds = lists
  <2> HIDE DEF lists
  <2> QED BY <1>3 DEF FunctionType
<1>5. Succeed(f, inst) = h
  BY DEF Succeed, longer
<1>6. \A b \in Block : b \in SuccSet(inst) =>
         \E k \in DOMAIN lists[b] : lists[b][k] = f.ip
  BY <1>2
<1>7. \A b \in Block : \A j \in DOMAIN f.preds[b] :
         \E k \in DOMAIN lists[b] : lists[b][k] = f.preds[b][j]
  BY <1>2
<1> QED BY <1>4, <1>5, <1>6, <1>7

LEMMA TerminateWellFormed ==
    ASSUME NEW f, WellFormed(f), HasValidIP(f),
           NEW inst \in Inst, IsTerm(inst), SuccSet(inst) \subseteq f.linked
    PROVE  WellFormed(Terminate(f, inst)) /\ Terminate(f, inst).ip = NoBlock
           /\ Terminate(f, inst).linked = f.linked
           /\ Terminate(f, inst).emitted = f.emitted
           /\ \A b \in Block \ {f.ip} : Terminate(f, inst).insts[b] = f.insts[b]
<1> DEFINE h == Succeed(f, inst)
           g == [h EXCEPT !.insts[h.ip] = Append(@, inst)]
           r == [g EXCEPT !.ip = NoBlock]
<1>1. /\ f \in FunctionType /\ f.ip \in Block /\ f.ip \in f.emitted
      /\ f.insts \in [Block -> Seq(Inst)]
  BY FunctionFields DEF WellFormed, HasValidIP
<1>2. /\ h \in FunctionType
      /\ h.insts = f.insts /\ h.linked = f.linked /\ h.emitted = f.emitted /\ h.ip = f.ip
      /\ \A b \in Block : b \in SuccSet(inst) =>
             \E k \in DOMAIN h.preds[b] : h.preds[b][k] = f.ip
      /\ \A b \in Block : \A j \in DOMAIN f.preds[b] :
             \E k \in DOMAIN h.preds[b] : h.preds[b][k] = f.preds[b][j]
  <2> HIDE DEF h
  <2>1. h = Succeed(f, inst)
    BY DEF h
  <2> QED BY ONLY <1>1, <2>1, SucceedField
<1> HIDE DEF h
<1>3. /\ g \in FunctionType
      /\ g.preds = h.preds /\ g.linked = f.linked /\ g.emitted = f.emitted
      /\ Len(g.insts[f.ip]) = Len(f.insts[f.ip]) + 1
      /\ g.insts[f.ip][Len(g.insts[f.ip])] = inst
      /\ \A i \in 1 .. Len(f.insts[f.ip]) : g.insts[f.ip][i] = f.insts[f.ip][i]
      /\ \A b \in Block \ {f.ip} : g.insts[b] = f.insts[b]
  BY <1>1, <1>2, InsertField, SMTT(30)
<1>4. Terminate(f, inst) = r
  BY <1>2 DEF Terminate, Insert, h, HasValidIP
<1> HIDE DEF g
<1>5. /\ r \in FunctionType /\ r.ip = NoBlock
      /\ r.preds = h.preds /\ r.linked = f.linked /\ r.emitted = f.emitted
      /\ r.insts = g.insts
  BY <1>3 DEF FunctionType
<1> HIDE DEF r
<1>6. g.insts \in [Block -> Seq(Inst)]
  BY <1>3, FunctionFields
<1>7. \A b \in Block : \A i \in DOMAIN g.insts[b] :
         \/ i \in DOMAIN f.insts[b] /\ g.insts[b][i] = f.insts[b][i]
         \/ b = f.ip /\ g.insts[b][i] = inst
  <2> TAKE b \in Block
  <2> TAKE i \in DOMAIN g.insts[b]
  <2>1. CASE b = f.ip
    <3>1. i \in 1 .. Len(f.insts[f.ip]) + 1
      BY <1>1, <1>3, <1>6, <2>1
    <3>2. DOMAIN f.insts[f.ip] = 1 .. Len(f.insts[f.ip]) /\ Len(f.insts[f.ip]) \in Nat
      BY <1>1
    <3> QED BY <1>3, <2>1, <3>1, <3>2, SMTT(30)
  <2>2. CASE b # f.ip
    BY <1>3, <2>2
  <2> QED BY <2>1, <2>2
<1>8. EndsOnce(r)
  <2>1. \A i \in 1 .. Len(f.insts[f.ip]) : ~IsTerm(f.insts[f.ip][i])
    BY <1>1 DEF WellFormed, EndsOnce, Ended
  <2>2. \A b \in Block : \A i \in 1 .. Len(r.insts[b]) - 1 : ~IsTerm(r.insts[b][i])
    <3> TAKE b \in Block
    <3> TAKE i \in 1 .. Len(r.insts[b]) - 1
    <3>1. CASE b = f.ip
      BY <1>1, <1>3, <1>5, <2>1, <3>1
    <3>2. CASE b # f.ip
      BY <1>3, <1>5, <3>2 DEF WellFormed, EndsOnce
    <3> QED BY <3>1, <3>2
  <2>3. \A b \in Block \ r.emitted : r.insts[b] = << >>
    BY <1>1, <1>3, <1>5 DEF WellFormed, EndsOnce
  <2> QED BY <1>5, <2>2, <2>3 DEF EndsOnce, HasValidIP
<1>9. PredsCover(r)
  <2> SUFFICES ASSUME NEW b \in Block, NEW s \in Block, NEW i \in DOMAIN r.insts[b],
                      Edge(r, b, i, s)
               PROVE  \E j \in DOMAIN r.preds[s] : r.preds[s][j] = b
    BY DEF PredsCover
  <2>1. Edge(r, b, i, s)
    OBVIOUS
  <2>2. CASE i \in DOMAIN f.insts[b] /\ g.insts[b][i] = f.insts[b][i]
    <3>1. \E j \in DOMAIN f.preds[s] : f.preds[s][j] = b
      BY <1>5, <2>1, <2>2 DEF WellFormed, PredsCover, Edge
    <3> QED BY <1>2, <1>5, <3>1
  <2>3. CASE b = f.ip /\ g.insts[b][i] = inst
    BY <1>2, <1>5, <2>1, <2>3 DEF Edge
  <2> QED BY <1>5, <1>7, <2>2, <2>3
<1>10. EdgesLinked(r)
  BY <1>5, <1>7 DEF WellFormed, EdgesLinked, Edge
<1>11. \A b \in Block : \A i \in DOMAIN r.insts[b] :
          ~IsTerm(r.insts[b][i]) => r.insts[b][i].succs = << >>
  BY <1>5, <1>7 DEF WellFormed
<1> QED
  BY <1>3, <1>4, <1>5, <1>8, <1>9, <1>10, <1>11 DEF WellFormed

LEMMA NewBlockWellFormed ==
    ASSUME NEW f, WellFormed(f), f.n < MaxBlock
    PROVE  WellFormed(NewBlock(f))
<1> DEFINE g == [f EXCEPT !.n = f.n + 1, !.linked = f.linked \cup {f.n + 1}]
<1>1. NewBlock(f) = g
  BY DEF NewBlock, NextBlock
<1>2. f \in FunctionType /\ f.n \in 0 .. MaxBlock /\ f.linked \subseteq Block
  BY FunctionFields DEF WellFormed
<1>3. f.n + 1 \in Block /\ f.n + 1 \in 0 .. MaxBlock
  BY <1>2, MaxBlockAssumption DEF Block
<1>4. /\ g \in FunctionType /\ g.insts = f.insts /\ g.preds = f.preds
      /\ g.emitted = f.emitted /\ g.ip = f.ip /\ f.linked \subseteq g.linked
  BY <1>2, <1>3 DEF FunctionType
<1> HIDE DEF g
<1>5. EndsOnce(g) /\ PredsCover(g) /\ EdgesLinked(g)
  BY <1>4 DEF WellFormed, EndsOnce, Ended, HasValidIP, PredsCover, EdgesLinked, Edge
<1> QED BY <1>1, <1>4, <1>5 DEF WellFormed

LEMMA EmitWellFormed ==
    ASSUME NEW f, WellFormed(f), NEW name \in Name,
           NEW b \in Block, b \in f.linked, b \notin f.emitted
    PROVE  WellFormed(EmitBlock(f, name, b))
<1> DEFINE inst == [op |-> "br", id |-> name, succs |-> <<b>>]
           g == IF HasValidIP(f) THEN CreateBranch(f, name, b) ELSE f
           r == [g EXCEPT !.ip = b, !.emitted = g.emitted \cup {b}]
<1>1. inst \in Inst /\ IsTerm(inst) /\ SuccSet(inst) = {b}
  BY DEF Inst, IsTerm, TermOps, SuccSet
<1>2. WellFormed(g) /\ g.emitted = f.emitted /\ g.insts[b] = << >>
  <2>1. f.insts[b] = << >>
    BY DEF WellFormed, EndsOnce
  <2>2. CASE ~HasValidIP(f)
    BY <2>1, <2>2
  <2>3. CASE HasValidIP(f)
    <3>1. g = Terminate(f, inst)
      BY <2>3 DEF CreateBranch
    <3>2. b # f.ip
      BY <2>3 DEF WellFormed, HasValidIP
    <3> HIDE DEF g, inst
    <3> QED BY <1>1, <2>1, <2>3, <3>1, <3>2, TerminateWellFormed
  <2> QED BY <2>2, <2>3
<1>3. EmitBlock(f, name, b) = r
  BY DEF EmitBlock
<1> HIDE DEF g
<1>4. /\ r \in FunctionType /\ r.insts = g.insts /\ r.preds = g.preds
      /\ r.linked = g.linked /\ r.ip = b /\ r.emitted = g.emitted \cup {b}
  <2>1. g \in FunctionType /\ g.emitted \subseteq Block
    BY <1>2, FunctionFields DEF WellFormed
  <2> QED BY <2>1 DEF FunctionType
<1> HIDE DEF r
<1>5. EndsOnce(r)
  BY <1>2, <1>4 DEF WellFormed, EndsOnce, Ended, HasValidIP
<1>6. PredsCover(r) /\ EdgesLinked(r)
  BY <1>2, <1>4 DEF WellFormed, PredsCover, EdgesLinked, Edge
<1> QED BY <1>2, <1>3, <1>4, <1>5, <1>6 DEF WellFormed

\* A block without predecessors may go: no terminator names it.
LEMMA EraseWellFormed ==
    ASSUME NEW f, WellFormed(f), NEW b \in Block, PredEmpty(f, b)
    PROVE  WellFormed(EraseBlock(f, b))
<1> DEFINE g == [f EXCEPT !.linked = f.linked \ {b}]
<1>1. EraseBlock(f, b) = g
  BY DEF EraseBlock
<1>2. f \in FunctionType /\ f.linked \subseteq Block
  BY FunctionFields DEF WellFormed
<1>3. /\ g \in FunctionType /\ g.insts = f.insts /\ g.preds = f.preds
      /\ g.emitted = f.emitted /\ g.ip = f.ip /\ g.linked = f.linked \ {b}
  BY <1>2 DEF FunctionType
<1> HIDE DEF g
<1>4. EndsOnce(g) /\ PredsCover(g)
  BY <1>3 DEF WellFormed, EndsOnce, Ended, HasValidIP, PredsCover, Edge
<1>5. \A c \in Block : \A i \in DOMAIN f.insts[c] : ~Edge(f, c, i, b)
  BY DEF WellFormed, PredsCover, PredEmpty
<1>6. EdgesLinked(g)
  BY <1>3, <1>5 DEF WellFormed, EdgesLinked, Edge
<1> QED BY <1>1, <1>3, <1>4, <1>6 DEF WellFormed

\* Zapping the branch that ends p leaves no edge from p, so forgetting p in the
\* predecessor lists of its targets loses nothing.
LEMMA ZapWellFormed ==
    ASSUME NEW f, WellFormed(f), NEW p \in Block, f.insts[p] # << >>,
           NEW c \in Block, f.insts[p][Len(f.insts[p])].succs = <<c>>
    PROVE  WellFormed([EraseTerminator(f, p) EXCEPT !.ip = p])
<1> DEFINE n == Len(f.insts[p])
           t == f.insts[p][n]
           rest == SubSeq(f.insts[p], 1, n - 1)
           forget(s) == [j \in DOMAIN f.preds[s] |->
                           IF f.preds[s][j] = p THEN NoBlock ELSE f.preds[s][j]]
           lists == [s \in Block |-> IF s \in SuccSet(t) THEN forget(s) ELSE f.preds[s]]
           g == [f EXCEPT !.insts[p] = SubSeq(@, 1, Len(@) - 1), !.preds = lists]
           r == [g EXCEPT !.ip = p]
<1>1. /\ f \in FunctionType /\ f.insts \in [Block -> Seq(Inst)]
      /\ f.preds \in [Block -> Seq(Block \cup {NoBlock})]
  BY FunctionFields DEF WellFormed
<1>2. p \in f.emitted
  BY DEF WellFormed, EndsOnce
<1>3. n \in Nat \ {0} /\ DOMAIN f.insts[p] = 1 .. n
  BY <1>1
<1>4. /\ rest \in Seq(Inst) /\ Len(rest) = n - 1
      /\ \A i \in 1 .. n - 1 : rest[i] = f.insts[p][i]
  BY <1>1, <1>3
<1>5. lists \in [Block -> Seq(Block \cup {NoBlock})]
  <2>1. ASSUME NEW s \in Block
        PROVE  forget(s) \in Seq(Block \cup {NoBlock})
    <3> DEFINE S == Block \cup {NoBlock}
               q == f.preds[s]
    <3>1. q \in Seq(S) /\ p \in S /\ NoBlock \in S
      BY <1>1
    <3> HIDE DEF S, q
    <3>2. Len(q) \in Nat /\ DOMAIN q = 1 .. Len(q) /\ \A j \in DOMAIN q : q[j] \in S
      BY <3>1
    <3> DEFINE w == [j \in DOMAIN q |-> IF q[j] = p THEN NoBlock ELSE q[j]]
    <3>3. w \in [1 .. Len(q) -> S]
      BY <3>1, <3>2
    <3> HIDE DEF w
    <3>4. w \in Seq(S)
      BY <3>2, <3>3
    <3> QED BY <3>4 DEF w, q, S
  <2> HIDE DEF forget
  <2> QED BY <1>1, <2>1
<1>6. EraseTerminator(f, p) = g
  BY DEF EraseTerminator
<1>7. \A s \in Block : /\ DOMAIN lists[s] = DOMAIN f.preds[s]
                        /\ \A j \in DOMAIN f.preds[s] :
                              f.preds[s][j] # p => lists[s][j] = f.preds[s][j]
  BY <1>1
<1> HIDE DEF lists
<1>8. /\ g \in FunctionType /\ g.preds = lists /\ g.linked = f.linked
      /\ g.emitted = f.emitted /\ g.insts[p] = rest
      /\ \A b \in Block \ {p} : g.insts[b] = f.insts[b]
  BY <1>1, <1>4, <1>5 DEF FunctionType
<1> HIDE DEF g, rest
<1>9. /\ r \in FunctionType /\ r.preds = lists /\ r.linked = f.linked
      /\ r.emitted = f.emitted /\ r.insts = g.insts /\ r.ip = p
  BY <1>8 DEF FunctionType
<1> HIDE DEF r
<1>10. \A i \in 1 .. n - 1 : ~IsTerm(f.insts[p][i]) /\ f.insts[p][i].succs = << >>
  BY <1>3 DEF WellFormed, EndsOnce
<1>11. \A i \in DOMAIN r.insts[p] : ~IsTerm(r.insts[p][i]) /\ r.insts[p][i].succs = << >>
  <2>1. DOMAIN rest = 1 .. n - 1
    BY <1>3, <1>4
  <2> QED BY <1>4, <1>8, <1>9, <1>10, <2>1, SMTT(60)
<1>12. EndsOnce(r)
  <2>1. \A b \in Block : \A i \in 1 .. Len(r.insts[b]) - 1 : ~IsTerm(r.insts[b][i])
    <3> TAKE b \in Block
    <3> TAKE i \in 1 .. Len(r.insts[b]) - 1
    <3>1. CASE b = p
      BY <1>3, <1>4, <1>8, <1>9, <1>10, <3>1
    <3>2. CASE b # p
      BY <1>8, <1>9, <3>2 DEF WellFormed, EndsOnce
    <3> QED BY <3>1, <3>2
  <2>2. ~Ended(r, p)
    BY <1>3, <1>4, <1>8, <1>9, <1>10 DEF Ended
  <2>3. \A b \in Block \ r.emitted : r.insts[b] = << >>
    BY <1>2, <1>8, <1>9 DEF WellFormed, EndsOnce
  <2> QED BY <1>9, <2>1, <2>2, <2>3 DEF EndsOnce
<1>13. \A b, s \in Block : \A i \in DOMAIN r.insts[b] :
          Edge(r, b, i, s) => b # p /\ i \in DOMAIN f.insts[b] /\ Edge(f, b, i, s)
  BY <1>8, <1>9, <1>11 DEF Edge, SuccSet
<1>14. PredsCover(r)
  <2> SUFFICES ASSUME NEW b \in Block, NEW s \in Block, NEW i \in DOMAIN r.insts[b],
                      Edge(r, b, i, s)
               PROVE  \E j \in DOMAIN r.preds[s] : r.preds[s][j] = b
    BY DEF PredsCover
  <2>1. b # p /\ \E j \in DOMAIN f.preds[s] : f.preds[s][j] = b
    BY <1>13 DEF WellFormed, PredsCover
  <2> QED BY <1>7, <1>9, <2>1
<1>15. EdgesLinked(r)
  BY <1>9, <1>13 DEF WellFormed, EdgesLinked
<1>16. \A b \in Block : \A i \in DOMAIN r.insts[b] :
          ~IsTerm(r.insts[b][i]) => r.insts[b][i].succs = << >>
  BY <1>8, <1>9, <1>11 DEF WellFormed
<1> QED
  BY <1>2, <1>6, <1>9, <1>12, <1>14, <1>15, <1>16 DEF WellFormed, r

-----------------------------------------------------------------------------
\* Every builder call keeps the function well formed.
LEMMA StepWellFormed ==
    ASSUME WellFormed(fn), [BuilderNext]_fn
    PROVE  WellFormed(fn)'
<1>1. fn \in FunctionType /\ fn.linked \subseteq Block
  BY FunctionFields DEF WellFormed
<1>2. CASE UNCHANGED fn
  BY <1>2
<1>3. CASE CreateBlock
  BY <1>3, NewBlockWellFormed DEF CreateBlock
<1>4. ASSUME NEW name \in Name, NEW op \in PlainOps, InsertPlain(op, name)
      PROVE  WellFormed(fn')
  <2> DEFINE inst == [op |-> op, id |-> name, succs |-> << >>]
  <2>1. inst \in Inst /\ ~IsTerm(inst) /\ inst.succs = << >>
    BY DEF Inst, IsTerm, TermOps, PlainOps
  <2>2. fn' = Insert(fn, inst)
    BY <1>4 DEF InsertPlain
  <2> HIDE DEF inst
  <2> QED BY <2>1, <2>2, InsertWellFormed
<1>5. ASSUME NEW name \in Name, NEW b \in Block, Branch(name, b)
      PROVE  WellFormed(fn')
  <2> DEFINE inst == [op |-> "br", id |-> name, succs |-> <<b>>]
  <2>1. inst \in Inst /\ IsTerm(inst) /\ SuccSet(inst) = {b}
    BY DEF Inst, IsTerm, TermOps, SuccSet
  <2>2. HasValidIP(fn) /\ b \in fn.linked /\ fn' = Terminate(fn, inst)
    BY <1>5 DEF Branch, CreateBranch
  <2> HIDE DEF inst
  <2> QED BY <2>1, <2>2, TerminateWellFormed
<1>6. ASSUME NEW name \in Name, NEW b \in Block, NEW e \in Block, CondBranch(name, b, e)
      PROVE  WellFormed(fn')
  <2> DEFINE inst == [op |-> "condbr", id |-> name, succs |-> <<b, e>>]
  <2>1. inst \in Inst /\ IsTerm(inst) /\ SuccSet(inst) = {b, e}
    BY DEF Inst, IsTerm, TermOps, SuccSet
  <2>2. HasValidIP(fn) /\ {b, e} \subseteq fn.linked /\ fn' = Terminate(fn, inst)
    BY <1>6 DEF CondBranch, CreateCondBranch
  <2> HIDE DEF inst
  <2> QED BY <2>1, <2>2, TerminateWellFormed
<1>7. ASSUME NEW name \in Name, NEW op \in {"return", "unreachable"}, Exit(op, name)
      PROVE  WellFormed(fn')
  <2> DEFINE inst == [op |-> op, id |-> name, succs |-> << >>]
  <2>1. inst \in Inst /\ IsTerm(inst) /\ SuccSet(inst) = {}
    BY DEF Inst, IsTerm, TermOps, SuccSet
  <2>2. HasValidIP(fn) /\ fn' = Terminate(fn, inst)
    BY <1>7 DEF Exit, CreateExit
  <2> HIDE DEF inst
  <2> QED BY <2>1, <2>2, TerminateWellFormed
<1>8. ASSUME NEW name \in Name, NEW b \in Block, EmitFresh(name, b)
      PROVE  WellFormed(fn')
  BY <1>8, EmitWellFormed DEF EmitFresh, Fresh
<1>9. ASSUME NEW b \in Block, EraseUnused(b)
      PROVE  WellFormed(fn')
  BY <1>9, EraseWellFormed DEF EraseUnused
<1>10. ASSUME NEW b \in Block, NEW p \in Block, ZapBranch(b, p)
       PROVE  WellFormed(fn')
  BY <1>10, ZapWellFormed DEF ZapBranch
<1> QED
  BY <1>2, <1>3, <1>4, <1>5, <1>6, <1>7, <1>8, <1>9, <1>10 DEF BuilderNext

\* A function built under the contract is always typed.
THEOREM BuilderTyped == BuilderSpec => []BuilderTypeOK
<1>1. BuilderInit => WellFormed(fn)
  BY InitWellFormed DEF BuilderInit
<1>2. WellFormed(fn) /\ [BuilderNext]_fn => WellFormed(fn)'
  BY StepWellFormed
<1>3. WellFormed(fn) => BuilderTypeOK
  BY DEF WellFormed, BuilderTypeOK
<1> QED BY <1>1, <1>2, <1>3, PTL DEF BuilderSpec

\* For any number of blocks and any sequence of builder calls: a block ends at
\* its terminator and the builder never points past one.
THEOREM BuilderTerminates == BuilderSpec => []WellTerminated
<1>1. BuilderInit => WellFormed(fn)
  BY InitWellFormed DEF BuilderInit
<1>2. WellFormed(fn) /\ [BuilderNext]_fn => WellFormed(fn)'
  BY StepWellFormed
<1>3. WellFormed(fn) => WellTerminated
  BY DEF WellFormed, WellTerminated
<1> QED BY <1>1, <1>2, <1>3, PTL DEF BuilderSpec

\* The predecessor lists miss no branch, so a block whose list is empty can be
\* erased: no terminator is ever left with an erased target.
THEOREM BuilderErasesSafely == BuilderSpec => [](PredsComplete /\ NoDanglingBranch)
<1>1. BuilderInit => WellFormed(fn)
  BY InitWellFormed DEF BuilderInit
<1>2. WellFormed(fn) /\ [BuilderNext]_fn => WellFormed(fn)'
  BY StepWellFormed
<1>3. WellFormed(fn) => PredsComplete /\ NoDanglingBranch
  BY DEF WellFormed, PredsComplete, NoDanglingBranch
<1> QED BY <1>1, <1>2, <1>3, PTL DEF BuilderSpec

=============================================================================
