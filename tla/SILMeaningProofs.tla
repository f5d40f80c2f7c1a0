--------------------------- MODULE SILMeaningProofs ---------------------------
(***************************************************************************)
(* The code SILGen emits does what the source says, whatever the function  *)
(* and the outcomes of its conditions: it calls, tests and exits in the    *)
(* same order (SameObservations), and the memory there is at each of these *)
(* points is that of the variables in scope (LiveIsInScope).  The one      *)
(* exception is a continue in the body of a do-while, which the code takes *)
(* to the start of the body and the source to the condition: the theorems  *)
(* are about functions without one (NoDoContinue).                         *)
(*                                                                         *)
(* As for the memory, the argument is about the finished code, but is made *)
(* while it is generated.  A point is a state of the source with the       *)
(* variables the code has allocated by then, and every block has a point   *)
(* it starts at.  The code tells the source when each instruction goes     *)
(* from point to point as the source does, silently or by the same event,  *)
(* and every branch ends where its target starts.  A ghost is what is left *)
(* of the source when a frame of the stack is about to run, with the       *)
(* cleanups and destinations there will be; the ghosts of two frames in a  *)
(* row are linked by what the first of them lowers.                        *)
(*                                                                         *)
(* The lemmas come in this order: runs of the source; points; ghosts; one  *)
(* lemma per visitor; the run.                                             *)
(***************************************************************************)
EXTENDS SILMemoryProofs, WellFoundedInduction

\* The statements that contain no continue for the loop around them.
NeverContinue == UNION {T \in SUBSET LoopStmt : ContinueFree(T)}

\* No continue belongs to a do-while: see the violation of SameObservations that
\* TLC finds without this.
NoDoContinue == \A s \in LoopStmt : s.kind = "dowhile" => s.body \in NeverContinue

-----------------------------------------------------------------------------
(* Runs of the source *)

\* A state of the source, and the one after the next silent step.
State(kk, c) == [k |-> kk, env |-> c]
StateNext(s) == State(SourceNext(s.k, s.env).k, SourceNext(s.k, s.env).env)
Waits(s) == SourceEvent(s.k) # Silent

\* p is a run of n silent steps from a to b.
Path(p, n, a, b) ==
    p[0] = a /\ p[n] = b /\ \A j \in 0 .. n - 1 : ~Waits(p[j]) /\ p[j + 1] = StateNext(p[j])
Reaches(a, b) == \E n \in Nat : \E p : Path(p, n, a, b)

\* No step is a run.
LEMMA ReachesSelf ==
    ASSUME NEW a
    PROVE  Reaches(a, a)
<1> DEFINE p == [j \in Nat |-> a]
<1>1. p[0] = a /\ 0 .. 0 - 1 = {}
  OBVIOUS
<1> HIDE DEF p
<1>2. Path(p, 0, a, a)
  BY <1>1 DEF Path
<1> QED BY <1>2 DEF Reaches

\* A silent step is one.
LEMMA ReachesNext ==
    ASSUME NEW a, ~Waits(a)
    PROVE  Reaches(a, StateNext(a))
<1> DEFINE p == [j \in Nat |-> IF j = 0 THEN a ELSE StateNext(a)]
<1>1. p[0] = a /\ p[1] = StateNext(a) /\ 0 .. 1 - 1 = {0} /\ 0 + 1 = 1
  OBVIOUS
<1> HIDE DEF p
<1>2. Path(p, 1, a, StateNext(a))
  BY <1>1 DEF Path
<1> QED BY <1>2 DEF Reaches

\* Runs go on from each other.
LEMMA ReachesOn ==
    ASSUME NEW a, NEW b, NEW d, Reaches(a, b), Reaches(b, d)
    PROVE  Reaches(a, d)
<1>n. PICK n \in Nat : \E p : Path(p, n, a, b)
  BY DEF Reaches
<1>1. PICK p : Path(p, n, a, b)
  BY <1>n
<1>m. PICK m \in Nat : \E q : Path(q, m, b, d)
  BY DEF Reaches
<1>2. PICK q : Path(q, m, b, d)
  BY <1>m
<1> DEFINE r == [j \in Nat |-> IF j <= n THEN p[j] ELSE q[j - n]]
<1>3. \A j \in Nat : (j <= n => r[j] = p[j]) /\ (j >= n => r[j] = q[j - n])
  <2> SUFFICES ASSUME NEW j \in Nat PROVE (j <= n => r[j] = p[j]) /\ (j >= n => r[j] = q[j - n])
    OBVIOUS
  <2>1. j > n => r[j] = q[j - n]
    OBVIOUS
  <2>2. j <= n => r[j] = p[j]
    OBVIOUS
  <2> HIDE DEF r
  <2>3. j = n => r[j] = q[j - n]
    BY <1>1, <1>2, <2>2 DEF Path
  <2> QED BY <2>1, <2>2, <2>3
<1> HIDE DEF r
<1>4. r[0] = a /\ r[n + m] = d
  <2>1. n + m \in Nat /\ n + m >= n /\ (n + m) - n = m /\ 0 <= n
    OBVIOUS
  <2> QED BY <1>1, <1>2, <1>3, <2>1 DEF Path
<1>5. ASSUME NEW j \in 0 .. (n + m) - 1 PROVE ~Waits(r[j]) /\ r[j + 1] = StateNext(r[j])
  <2>1. CASE j < n
    <3>1. j \in 0 .. n - 1 /\ j \in Nat /\ j + 1 \in Nat /\ j <= n /\ j + 1 <= n
      BY <2>1
    <3> QED BY <1>1, <1>3, <3>1 DEF Path
  <2>2. CASE j >= n
    <3>1. j - n \in 0 .. m - 1 /\ j \in Nat /\ j + 1 \in Nat /\ j + 1 >= n /\ (j + 1) - n = (j - n) + 1
      BY <2>2
    <3> QED BY <1>2, <1>3, <2>2, <3>1 DEF Path
  <2> QED BY <2>1, <2>2
<1>6. Path(r, n + m, a, d)
  BY <1>4, <1>5 DEF Path
<1> QED BY <1>6 DEF Reaches

\* A set of natural numbers that is not empty has a least one.
LEMMA Earliest ==
    ASSUME NEW T, T \subseteq Nat, T # {}
    PROVE  \E x \in T : \A y \in T : x <= y
<1> DEFINE R == OpToRel(<, Nat)
<1>1. IsWellFoundedOn(R, Nat)
  BY NatLessThanWellFounded
<1>r. \A x, y \in Nat : x < y => <<x, y>> \in R
  BY DEF OpToRel
<1> HIDE DEF R
<1>2. PICK x \in T : \A y \in T : ~ (<<y, x>> \in R)
  BY ONLY <1>1, T \subseteq Nat, T # {}, WFMin
<1>3. \A y \in T : y \in Nat /\ x \in Nat /\ ~(y < x)
  BY <1>r, <1>2
<1> QED BY <1>3

\* There is one run from each state: on the way to a state that waits for an event,
\* one gets to that state from wherever one is.
LEMMA ReachesMeets ==
    ASSUME NEW a, NEW b, NEW e, Reaches(a, e), Waits(e), Reaches(a, b)
    PROVE  Reaches(b, e)
<1>n. PICK n \in Nat : \E p : Path(p, n, a, e)
  BY DEF Reaches
<1>1. PICK p : Path(p, n, a, e)
  BY <1>n
<1>m. PICK m \in Nat : \E q : Path(q, m, a, b)
  BY DEF Reaches
<1>2. PICK q : Path(q, m, a, b)
  BY <1>m
<1>3. \A j \in Nat : j <= n /\ j <= m => p[j] = q[j]
  <2> DEFINE T == {j \in Nat : j <= n /\ j <= m /\ p[j] # q[j]}
  <2>1. ASSUME T # {} PROVE FALSE
    <3>1. PICK j \in T : \A i \in T : j <= i
      BY <2>1, Earliest
    <3>2. j \in Nat /\ j # 0
      BY <1>1, <1>2, <3>1 DEF Path
    <3>3. j - 1 \in Nat /\ j - 1 \notin T /\ j - 1 \in 0 .. n - 1 /\ j - 1 \in 0 .. m - 1 /\ (j - 1) + 1 = j
      BY <3>1, <3>2
    <3>4. p[j - 1] = q[j - 1]
      BY <3>3
    <3>5. p[j] = StateNext(p[j - 1]) /\ q[j] = StateNext(q[j - 1])
      BY <1>1, <1>2, <3>3 DEF Path
    <3> QED BY <3>1, <3>4, <3>5
  <2> QED BY <2>1
<1>4. m <= n
  <2> SUFFICES ASSUME m > n PROVE FALSE
    BY <1>1, <1>2
  <2>1. n \in 0 .. m - 1 /\ n <= m
    OBVIOUS
  <2> QED BY <1>1, <1>2, <1>3, <2>1 DEF Path
<1> DEFINE r == [j \in Nat |-> p[j + m]]
<1>5. \A j \in Nat : r[j] = p[j + m]
  OBVIOUS
<1> HIDE DEF r
<1>6. r[0] = b /\ r[n - m] = e
  <2>1. n - m \in Nat /\ (n - m) + m = n /\ 0 + m = m
    BY <1>4
  <2> QED BY <1>1, <1>2, <1>3, <1>4, <1>5, <2>1 DEF Path
<1>7. ASSUME NEW j \in 0 .. (n - m) - 1 PROVE ~Waits(r[j]) /\ r[j + 1] = StateNext(r[j])
  <2>1. j + m \in 0 .. n - 1 /\ j \in Nat /\ j + 1 \in Nat /\ (j + 1) + m = (j + m) + 1
    BY <1>4
  <2> QED BY <1>1, <1>5, <2>1 DEF Path
<1>8. n - m \in Nat /\ Path(r, n - m, b, e)
  BY <1>4, <1>6, <1>7 DEF Path
<1> QED BY <1>8 DEF Reaches

\* A state that waits for an event reaches no other.
LEMMA WaitsThere ==
    ASSUME NEW a, Waits(a), NEW b, Reaches(a, b)
    PROVE  a = b
<1>n. PICK n \in Nat : \E p : Path(p, n, a, b)
  BY DEF Reaches
<1>1. PICK p : Path(p, n, a, b)
  BY <1>n
<1>2. n = 0
  <2> SUFFICES ASSUME n # 0 PROVE FALSE
    BY <1>1
  <2>1. 0 \in 0 .. n - 1
    OBVIOUS
  <2> QED BY <1>1, <2>1 DEF Path
<1> QED BY <1>1, <1>2 DEF Path

\* Two states that wait and are reached from the same state are one.
LEMMA WaitsOnce ==
    ASSUME NEW a, NEW b, NEW e, Reaches(a, e), Waits(e), Reaches(a, b), Waits(b)
    PROVE  b = e
BY ReachesMeets, WaitsThere

-----------------------------------------------------------------------------
(* Points *)

\* The source is about to run kk in scope c, and the memory is that of c.
P(kk, c) == [src |-> State(kk, c), live |-> c]

\* The source gets from x to y silently, while the code does nothing.
Follows(x, y) == y.live = x.live /\ Reaches(x.src, y.src)

\* The next event after x is e, in state s, and no cleanup is late or early.
Awaits(x, e, s) == Reaches(x.src, s) /\ SourceEvent(s.k) = e /\ s.env = x.live

\* What an instruction that leaves the function shows.
ExitEvent(inst) ==
    IF inst.op = "return" /\ inst.id # NoName THEN Event("return", inst.id)
    ELSE Event("end", NoName)

\* The instruction takes the code from x to z as the source goes, when the blocks
\* start at S; a terminator takes it to the start of a block.
Conducts(inst, x, z, S) ==
    /\ inst.op = "apply" =>
          \E s : /\ Awaits(x, Event("apply", inst.id), s)
                 /\ z = [src |-> State(Tail(s.k), s.env), live |-> x.live]
    /\ inst.op = "alloc" => z = [src |-> x.src, live |-> Append(x.live, inst.id)]
    /\ inst.op \in {"init", "destroy"} => z = x
    /\ inst.op = "dealloc" =>
          /\ x.live # << >> /\ inst.id = x.live[Len(x.live)]
          /\ z = [src |-> x.src, live |-> SubSeq(x.live, 1, Len(x.live) - 1)]
    /\ inst.op = "br" => Follows(x, S[inst.succs[1]])
    /\ inst.op = "condbr" =>
          \E s : /\ Awaits(x, Event("condbr", inst.id), s)
                 /\ \A b \in BOOLEAN : S[inst.succs[IF b THEN 1 ELSE 2]]
                        = [src |-> State(AfterTest(s.k, s.env, b), s.env), live |-> x.live]
    /\ inst.op \in {"return", "unreachable"} => \E s : Awaits(x, ExitEvent(inst), s)

\* The instructions take the code from x to y.
Runs(ins, S, x, y) ==
    \E q : /\ q[1] = x /\ q[Len(ins) + 1] = y
           /\ \A i \in DOMAIN ins : Conducts(ins[i], q[i], q[i + 1], S)

\* The code of f tells the source from the points S on, and is at x by now.
Tells(f, S, x) ==
    \A b \in Block : \E y : Runs(f.insts[b], S, S[b], y) /\ (b = f.ip => Follows(y, x))

\* Following.
LEMMA FollowsSelf ==
    ASSUME NEW x
    PROVE  Follows(x, x)
BY ReachesSelf DEF Follows

\* Followers of followers follow.
LEMMA FollowsOn ==
    ASSUME NEW x, NEW y, NEW z, Follows(x, y), Follows(y, z)
    PROVE  Follows(x, z)
BY ReachesOn DEF Follows

\* No instructions.
LEMMA RunsNone ==
    ASSUME NEW S, NEW x
    PROVE  Runs(<< >>, S, x, x) /\ \A y : Runs(<< >>, S, x, y) => y = x
<1>1. Len(<< >>) + 1 = 1 /\ DOMAIN << >> = {}
  OBVIOUS
<1> DEFINE q == [j \in Nat |-> x]
<1>2. q[1] = x
  OBVIOUS
<1> HIDE DEF q
<1> QED BY <1>1, <1>2 DEF Runs

\* One instruction more.
LEMMA RunsMore ==
    ASSUME NEW ins \in Seq(Inst), NEW S, NEW x, NEW y, Runs(ins, S, x, y), NEW inst \in Inst,
           NEW z, Conducts(inst, y, z, S)
    PROVE  Runs(Append(ins, inst), S, x, z)
<1>1. PICK q : /\ q[1] = x /\ q[Len(ins) + 1] = y
               /\ \A i \in DOMAIN ins : Conducts(ins[i], q[i], q[i + 1], S)
  BY DEF Runs
<1> DEFINE n == Len(ins)
           r == [j \in Nat |-> IF j = n + 2 THEN z ELSE q[j]]
           new == Append(ins, inst)
<1>2. n \in Nat /\ DOMAIN ins = 1 .. n /\ Len(new) = n + 1 /\ DOMAIN new = 1 .. n + 1
      /\ new[n + 1] = inst /\ \A i \in 1 .. n : new[i] = ins[i]
  OBVIOUS
<1> HIDE DEF new, n
<1>3. r[n + 2] = z /\ \A j \in 1 .. n + 1 : r[j] = q[j]
  BY <1>2
<1> HIDE DEF r
<1>4. ASSUME NEW i \in 1 .. n + 1 PROVE Conducts(new[i], r[i], r[i + 1], S)
  <2>1. CASE i = n + 1
    <3>1. i + 1 = n + 2 /\ r[i] = y /\ new[i] = inst
      BY <1>1, <1>2, <1>3, <2>1 DEF n
    <3> QED BY <1>3, <3>1
  <2>2. CASE i # n + 1
    <3>1. i \in 1 .. n /\ i + 1 \in 1 .. n + 1
      BY <1>2, <2>2
    <3> QED BY <1>1, <1>2, <1>3, <3>1
  <2> QED BY <2>1, <2>2
<1>5. r[1] = x /\ r[Len(new) + 1] = z
  <2>1. 1 \in 1 .. n + 1 /\ Len(new) + 1 = n + 2
    BY <1>2
  <2> QED BY <1>1, <1>3, <2>1
<1>6. Runs(new, S, x, z)
  BY <1>2, <1>4, <1>5 DEF Runs
<1> QED BY <1>6 DEF new

\* One instruction less.
LEMMA RunsLess ==
    ASSUME NEW ins \in Seq(Inst), ins # << >>, NEW S, NEW x, NEW z, Runs(ins, S, x, z)
    PROVE  \E y : Runs(SubSeq(ins, 1, Len(ins) - 1), S, x, y) /\ Conducts(ins[Len(ins)], y, z, S)
<1>1. PICK q : /\ q[1] = x /\ q[Len(ins) + 1] = z
               /\ \A i \in DOMAIN ins : Conducts(ins[i], q[i], q[i + 1], S)
  BY DEF Runs
<1> DEFINE n == Len(ins)
           new == SubSeq(ins, 1, n - 1)
<1>2. n \in Nat \ {0} /\ DOMAIN ins = 1 .. n
  OBVIOUS
<1>3. DOMAIN new = 1 .. n - 1 /\ Len(new) = n - 1 /\ \A i \in 1 .. n - 1 : new[i] = ins[i]
  BY <1>2, BeginningOf
<1> HIDE DEF new
<1>4. Runs(new, S, x, q[n])
  <2>1. Len(new) + 1 = n /\ \A i \in 1 .. n - 1 : i \in DOMAIN ins
    BY <1>2, <1>3
  <2> QED BY <1>1, <1>3, <2>1 DEF Runs
<1>5. Conducts(ins[n], q[n], z, S)
  <2>1. n \in DOMAIN ins
    BY <1>2
  <2> QED BY <1>1, <2>1
<1> QED BY <1>4, <1>5 DEF new

\* Only the start points of the blocks they go to matter to instructions.
LEMMA ConductsSame ==
    ASSUME NEW inst \in Inst, Arity(inst), NEW x, NEW z, NEW S, NEW T, Conducts(inst, x, z, S),
           \A b \in SuccSet(inst) : T[b] = S[b]
    PROVE  Conducts(inst, x, z, T)
<1>1. inst.op = "br" => inst.succs[1] \in SuccSet(inst)
  BY DEF Arity, SuccSet, Inst
<1>2. inst.op = "condbr" => \A b \in BOOLEAN : inst.succs[IF b THEN 1 ELSE 2] \in SuccSet(inst)
  BY DEF Arity, SuccSet, Inst
<1> HIDE DEF SuccSet
<1>3. inst.op = "br" => Follows(x, T[inst.succs[1]])
  BY <1>1 DEF Conducts
<1>4. inst.op = "condbr" =>
          \E s : /\ Awaits(x, Event("condbr", inst.id), s)
                 /\ \A b \in BOOLEAN : T[inst.succs[IF b THEN 1 ELSE 2]]
                        = [src |-> State(AfterTest(s.k, s.env, b), s.env), live |-> x.live]
  <2> HAVE inst.op = "condbr"
  <2>1. PICK s : /\ Awaits(x, Event("condbr", inst.id), s)
                 /\ \A b \in BOOLEAN : S[inst.succs[IF b THEN 1 ELSE 2]]
                        = [src |-> State(AfterTest(s.k, s.env, b), s.env), live |-> x.live]
    BY DEF Conducts
  <2>2. \A b \in BOOLEAN : T[inst.succs[IF b THEN 1 ELSE 2]] = S[inst.succs[IF b THEN 1 ELSE 2]]
    BY <1>2
  <2> QED BY <2>1, <2>2
<1> QED BY <1>3, <1>4 DEF Conducts

\* The same of rows of instructions.
LEMMA RunsSame ==
    ASSUME NEW ins \in Seq(Inst), \A i \in DOMAIN ins : Arity(ins[i]), NEW S, NEW T,
           \A i \in DOMAIN ins : \A b \in SuccSet(ins[i]) : T[b] = S[b],
           NEW x, NEW y, Runs(ins, S, x, y)
    PROVE  Runs(ins, T, x, y)
<1>1. PICK q : /\ q[1] = x /\ q[Len(ins) + 1] = y
               /\ \A i \in DOMAIN ins : Conducts(ins[i], q[i], q[i + 1], S)
  BY DEF Runs
<1>2. \A i \in DOMAIN ins : ins[i] \in Inst
  OBVIOUS
<1>3. \A i \in DOMAIN ins : Conducts(ins[i], q[i], q[i + 1], T)
  BY <1>1, <1>2, ConductsSame
<1> QED BY <1>1, <1>3 DEF Runs

\* An instruction may come before the silent steps of the source.
LEMMA ConductsBefore ==
    ASSUME NEW w, NEW x, Follows(w, x), NEW inst, NEW z, NEW S, Conducts(inst, x, z, S),
           inst.op \in TermOps \cup PlainOps
    PROVE  \E v : Conducts(inst, w, v, S) /\ (~IsTerm(inst) => Follows(v, z))
<1>1. w.live = x.live /\ Reaches(w.src, x.src)
  BY DEF Follows
<1>2. \A e, s : Awaits(x, e, s) => Awaits(w, e, s)
  BY <1>1, ReachesOn DEF Awaits
<1>3. CASE inst.op = "apply"
  <2>1. Conducts(inst, w, z, S)
    BY <1>1, <1>2, <1>3 DEF Conducts
  <2> QED BY <2>1, FollowsSelf
<1>4. CASE inst.op = "alloc"
  <2> DEFINE to == [src |-> w.src, live |-> Append(w.live, inst.id)]
  <2>1. Conducts(inst, w, to, S)
    BY <1>4 DEF Conducts
  <2>2. Follows(to, z)
    BY <1>1, <1>4 DEF Conducts, Follows
  <2> QED BY <2>1, <2>2
<1>7. CASE inst.op = "dealloc"
  <2> DEFINE to == [src |-> w.src, live |-> SubSeq(w.live, 1, Len(w.live) - 1)]
  <2>1. Conducts(inst, w, to, S)
    BY <1>1, <1>7 DEF Conducts
  <2>2. Follows(to, z)
    BY <1>1, <1>7 DEF Conducts, Follows
  <2> QED BY <2>1, <2>2
<1>8. CASE inst.op \in {"init", "destroy"}
  <2>1. Conducts(inst, w, w, S) /\ z = x
    BY <1>8 DEF Conducts
  <2> QED BY <2>1
<1>5. CASE inst.op = "br"
  <2>1. Conducts(inst, w, w, S)
    BY <1>5, FollowsOn DEF Conducts
  <2> QED BY <1>5, <2>1 DEF IsTerm, TermOps
<1>6. CASE inst.op \in {"condbr", "return", "unreachable"}
  <2>1. Conducts(inst, w, w, S)
    BY <1>1, <1>2, <1>6 DEF Conducts
  <2> QED BY <1>6, <2>1 DEF IsTerm, TermOps
<1> QED BY <1>3, <1>4, <1>5, <1>6, <1>7, <1>8 DEF TermOps, PlainOps

-----------------------------------------------------------------------------
(* What the builder does to the telling *)

\* Where no code can be reached it may be anywhere.
LEMMA LostTells ==
    ASSUME NEW f, ~HasValidIP(f), NEW S, NEW x, Tells(f, S, x), NEW y
    PROVE  Tells(f, S, y)
<1>1. \A b \in Block : b # f.ip
  BY MaxBlockAssumption DEF Block, NoBlock, HasValidIP
<1> QED BY <1>1 DEF Tells

\* The source may go on silently.
LEMMA TellsOn ==
    ASSUME NEW f, NEW S, NEW x, Tells(f, S, x), NEW y, HasValidIP(f) => Follows(x, y)
    PROVE  Tells(f, S, y)
<1>1. CASE HasValidIP(f)
  BY <1>1, FollowsOn DEF Tells
<1>2. CASE ~HasValidIP(f)
  BY <1>2, LostTells
<1> QED BY <1>1, <1>2

\* The same instructions.
LEMMA TellsSame ==
    ASSUME NEW f, NEW g, g.insts = f.insts, g.ip = f.ip, NEW S, NEW x, Tells(f, S, x)
    PROVE  Tells(g, S, x)
BY DEF Tells

\* One more instruction at the insertion point.
LEMMA InsertTells ==
    ASSUME NEW f \in FunctionType, HasValidIP(f), NEW S, NEW x, Tells(f, S, x), NEW inst \in Inst,
           NEW z, Conducts(inst, x, z, S), NEW g, g.insts = [f.insts EXCEPT ![f.ip] = Append(@, inst)],
           g.ip = (IF IsTerm(inst) THEN NoBlock ELSE f.ip)
    PROVE  Tells(g, S, z)
<1>1. f.ip \in Block /\ f.insts \in [Block -> Seq(Inst)] /\ NoBlock \notin Block
  BY MaxBlockAssumption DEF FunctionType, HasValidIP, Block, NoBlock
<1>2. ASSUME NEW b \in Block PROVE \E y : Runs(g.insts[b], S, S[b], y) /\ (b = g.ip => Follows(y, z))
  <2>1. CASE b = f.ip
    <3>1. PICK y : Runs(f.insts[b], S, S[b], y) /\ Follows(y, x)
      BY <2>1 DEF Tells
    <3>2. PICK v : Conducts(inst, y, v, S) /\ (~IsTerm(inst) => Follows(v, z))
      BY <3>1, ConductsBefore DEF Inst
    <3>3. g.insts[b] = Append(f.insts[b], inst) /\ f.insts[b] \in Seq(Inst)
      BY <1>1, <2>1
    <3>4. Runs(g.insts[b], S, S[b], v)
      BY <3>1, <3>2, <3>3, RunsMore
    <3> QED BY <1>1, <3>2, <3>4
  <2>2. CASE b # f.ip
    <3>1. g.insts[b] = f.insts[b] /\ b # g.ip
      BY <1>1, <2>2
    <3> QED BY <3>1 DEF Tells
  <2> QED BY <2>1, <2>2
<1> QED BY <1>2 DEF Tells

\* An instruction that is no terminator.
LEMMA EmitTells ==
    ASSUME NEW f \in FunctionType, NEW S, NEW x, Tells(f, S, x), NEW op \in PlainOps,
           NEW name \in Name, NEW z, HasValidIP(f) => Conducts(Plain(op, name), x, z, S)
    PROVE  Tells(Emit(f, op, name), S, z)
<1> DEFINE inst == Plain(op, name)
           g == Emit(f, op, name)
<1>1. inst \in Inst /\ ~IsTerm(inst)
  BY DEF Inst, Plain, IsTerm, TermOps, PlainOps
<1>2. CASE HasValidIP(f)
  <2>1. g.insts = [f.insts EXCEPT ![f.ip] = Append(@, inst)] /\ g.ip = f.ip
    BY <1>2 DEF Emit, Insert, FunctionType
  <2> HIDE DEF g, inst
  <2>2. Conducts(inst, x, z, S)
    BY <1>2 DEF inst
  <2> QED BY <1>1, <1>2, <2>1, <2>2, InsertTells DEF g
<1>3. CASE ~HasValidIP(f)
  <2>1. g = f
    BY <1>3 DEF Emit, Insert
  <2> QED BY <1>3, <2>1, LostTells
<1> QED BY <1>2, <1>3

\* A terminator: after it no code can be reached.
LEMMA TerminateTells ==
    ASSUME NEW f \in FunctionType, HasValidIP(f), NEW S, NEW x, Tells(f, S, x), NEW inst \in Inst,
           IsTerm(inst), Conducts(inst, x, x, S)
    PROVE  LET g == Terminate(f, inst)
           IN  g.insts = [f.insts EXCEPT ![f.ip] = Append(@, inst)] /\ ~HasValidIP(g) /\ \A y : Tells(g, S, y)
<1> DEFINE g == Terminate(f, inst)
<1>1. g.insts = [f.insts EXCEPT ![f.ip] = Append(@, inst)] /\ g.ip = NoBlock
  <2>1. "insts" \in DOMAIN f /\ "ip" \in DOMAIN f /\ "preds" \in DOMAIN f
    BY DEF FunctionType
  <2>2. Succeed(f, inst).insts = f.insts /\ Succeed(f, inst).ip = f.ip
        /\ "insts" \in DOMAIN Succeed(f, inst) /\ "ip" \in DOMAIN Succeed(f, inst)
    BY <2>1 DEF Succeed
  <2> QED BY <2>2 DEF Terminate, Insert, HasValidIP
<1> HIDE DEF g
<1>2. Tells(g, S, x)
  BY <1>1, InsertTells
<1>3. ~HasValidIP(g)
  BY <1>1 DEF HasValidIP
<1> QED BY <1>1, <1>2, <1>3, LostTells DEF g

\* A branch to a block the source gets to silently.
LEMMA JumpTells ==
    ASSUME NEW f \in FunctionType, HasValidIP(f), NEW S, NEW x, Tells(f, S, x),
           NEW b \in Block, Follows(x, S[b])
    PROVE  LET g == Jump(f, b)
           IN  /\ g.insts = [f.insts EXCEPT ![f.ip] = Append(@, [op |-> "br", id |-> NoName, succs |-> <<b>>])]
               /\ ~HasValidIP(g) /\ \A y : Tells(g, S, y)
<1> DEFINE inst == [op |-> "br", id |-> NoName, succs |-> <<b>>]
<1>1. inst \in Inst /\ IsTerm(inst)
  BY StatementAssumption DEF Inst, IsTerm, TermOps
<1>2. Conducts(inst, x, x, S)
  BY DEF Conducts
<1>3. Jump(f, b) = Terminate(f, inst)
  BY DEF Jump, CreateBranch
<1> HIDE DEF inst
<1> QED BY <1>1, <1>2, <1>3, TerminateTells DEF inst

\* A block that is emitted for the first time.
LEMMA StartTells ==
    ASSUME NEW f, Sound(f), NEW S, NEW x, Tells(f, S, x), NEW b \in f.linked \ f.emitted,
           HasValidIP(f) => Follows(x, S[b])
    PROVE  Tells(Start(f, b), S, S[b])
<1> DEFINE g == Start(f, b)
           h == IF HasValidIP(f) THEN Jump(f, b) ELSE f
<1>1. f \in FunctionType /\ b \in Block /\ f.insts[b] = << >> /\ b # f.ip /\ NoBlock \notin Block
  BY SoundFields, MaxBlockAssumption DEF NoBlock, Block
<1>2. Tells(h, S, S[b]) /\ h.insts[b] = << >>
  <2>1. CASE HasValidIP(f)
    <3>1. /\ Jump(f, b).insts = [f.insts EXCEPT ![f.ip] = Append(@, [op |-> "br", id |-> NoName, succs |-> <<b>>])]
          /\ Tells(Jump(f, b), S, S[b])
      BY <1>1, <2>1, JumpTells
    <3>2. f.insts \in [Block -> Seq(Inst)]
      BY <1>1 DEF FunctionType
    <3>3. Jump(f, b).insts[b] = << >>
      BY <1>1, <3>1, <3>2
    <3> QED BY <2>1, <3>1, <3>3
  <2>2. CASE ~HasValidIP(f)
    BY <1>1, <2>2, LostTells
  <2> QED BY <2>1, <2>2
<1>3. g.insts = h.insts /\ g.ip = b
  <2>1. "insts" \in DOMAIN f /\ "ip" \in DOMAIN f /\ "emitted" \in DOMAIN f /\ "preds" \in DOMAIN f
    BY <1>1 DEF FunctionType
  <2>2. "insts" \in DOMAIN h /\ "ip" \in DOMAIN h /\ "emitted" \in DOMAIN h
    BY <2>1 DEF Jump, CreateBranch, Terminate, Insert, Succeed
  <2>3. g = [h EXCEPT !.ip = b, !.emitted = @ \cup {b}]
    BY DEF Start, EmitBlock, Jump
  <2> HIDE DEF h
  <2> QED BY <2>2, <2>3
<1> HIDE DEF g, h
<1>4. ASSUME NEW d \in Block PROVE \E y : Runs(g.insts[d], S, S[d], y) /\ (d = g.ip => Follows(y, S[b]))
  <2>1. CASE d = b
    <3>1. g.insts[d] = << >>
      BY <1>2, <1>3, <2>1
    <3> QED BY <2>1, <3>1, RunsNone, FollowsSelf, ZenonT(60)
  <2>2. CASE d # b
    BY <1>2, <1>3, <2>2 DEF Tells
  <2> QED BY <2>1, <2>2
<1>5. Tells(g, S, S[b])
  BY <1>4 DEF Tells
<1> QED BY <1>5 DEF g

\* The start points S of the blocks of f, and T of the blocks to come.
Chosen(f, S, T) == [b \in Block |-> IF b <= f.n THEN S[b] ELSE T[b]]

\* S and T agree on the first n blocks.
Agree(S, T, n) == \A b \in 1 .. n : T[b] = S[b]

\* The start points of the blocks to come can be chosen.
LEMMA ChosenTells ==
    ASSUME NEW f, Sound(f), NEW S, NEW x, Tells(f, S, x), NEW T
    PROVE  /\ Tells(f, Chosen(f, S, T), x) /\ Agree(S, Chosen(f, S, T), f.n)
           /\ \A b \in Block : b > f.n => Chosen(f, S, T)[b] = T[b]
<1> DEFINE U == Chosen(f, S, T)
<1>1. /\ f.n \in 0 .. MaxBlock /\ f.linked \subseteq 1 .. f.n /\ f.ip \in f.linked \cup {NoBlock}
      /\ f.insts \in [Block -> Seq(Inst)] /\ \A b \in Block \ f.linked : f.insts[b] = << >>
      /\ EdgesLinked(f) /\ \A b \in Block : \A i \in DOMAIN f.insts[b] : Arity(f.insts[b][i])
      /\ MaxBlock \in Nat
  BY SoundFields, MaxBlockAssumption DEF Sound, WellFormed
<1>2. /\ \A b \in 1 .. f.n : b \in Block /\ U[b] = S[b]
      /\ \A b \in Block : b > f.n => U[b] = T[b]
  <2>1. \A b \in 1 .. f.n : b \in Block /\ b <= f.n
    BY <1>1 DEF Block
  <2>2. \A b \in Block : b > f.n => ~(b <= f.n)
    BY <1>1 DEF Block
  <2> QED BY <2>1, <2>2 DEF Chosen
<1> HIDE DEF U
<1>3. ASSUME NEW b \in Block PROVE \E y : Runs(f.insts[b], U, U[b], y) /\ (b = f.ip => Follows(y, x))
  <2>1. CASE b \in f.linked
    <3>1. U[b] = S[b]
      BY <1>1, <1>2, <2>1
    <3>2. \A i \in DOMAIN f.insts[b] : \A d \in SuccSet(f.insts[b][i]) : U[d] = S[d]
      <4> TAKE i \in DOMAIN f.insts[b]
      <4>1. SuccSet(f.insts[b][i]) \subseteq Block
        BY <1>1, SuccBlocks
      <4>2. SuccSet(f.insts[b][i]) \subseteq f.linked
        BY <1>1, <4>1 DEF EdgesLinked, Edge
      <4> QED BY <1>1, <1>2, <4>2
    <3>3. PICK y : Runs(f.insts[b], S, S[b], y) /\ (b = f.ip => Follows(y, x))
      BY DEF Tells
    <3>4. f.insts[b] \in Seq(Inst) /\ \A i \in DOMAIN f.insts[b] : Arity(f.insts[b][i])
      BY <1>1
    <3>5. Runs(f.insts[b], U, S[b], y)
      BY <3>2, <3>3, <3>4, RunsSame
    <3> QED BY <3>1, <3>3, <3>5
  <2>2. CASE b \notin f.linked
    <3>1. f.insts[b] = << >> /\ b # f.ip
      BY <1>1, <2>2, MaxBlockAssumption DEF Block, NoBlock
    <3>2. Runs(f.insts[b], U, U[b], U[b])
      BY <3>1, RunsNone
    <3> QED BY <3>1, <3>2
  <2> QED BY <2>1, <2>2
<1>4. Tells(f, U, x)
  BY <1>3 DEF Tells
<1> QED BY <1>2, <1>4 DEF Agree, U

\* A new block, or one that is erased.
LEMMA NewTells ==
    ASSUME NEW f \in FunctionType, NEW S, NEW x, Tells(f, S, x)
    PROVE  Tells(NewBlock(f), S, x) /\ \A b : Tells(EraseBlock(f, b), S, x)
<1>1. /\ NewBlock(f).insts = f.insts /\ NewBlock(f).ip = f.ip
      /\ \A b : EraseBlock(f, b).insts = f.insts /\ EraseBlock(f, b).ip = f.ip
  <2>1. DOMAIN f = {"n", "linked", "emitted", "insts", "preds", "ip"}
    BY DEF FunctionType
  <2> QED BY <2>1 DEF NewBlock, EraseBlock
<1> QED BY <1>1, TellsSame

\* A pending block is emitted or erased, where the code is at its start.
LEMMA EmitOrDeleteTells ==
    ASSUME NEW f, Sound(f), NEW S, NEW x, Tells(f, S, x), NEW b \in Pending(f), S[b] = x
    PROVE  Tells(EmitOrDelete(f, b), S, x)
<1>1. b \in f.linked \ f.emitted /\ f \in FunctionType
  BY SoundFields DEF Pending
<1>2. Tells(EraseBlock(f, b), S, x)
  BY <1>1, NewTells
<1>3. Tells(Start(f, b), S, x)
  BY <1>1, StartTells, FollowsSelf
<1> QED BY <1>2, <1>3 DEF EmitOrDelete

\* Zapping a branch goes back to where the source gets to its target.
LEMMA ZapTells ==
    ASSUME NEW f, Sound(f), NEW S, NEW x, Tells(f, S, x), ~HasValidIP(f),
           NEW c \in Block, OneJump(f, c), ~PredEmpty(f, c)
    PROVE  LET p == Head(f.preds[c])
               g == [EraseTerminator(f, p) EXCEPT !.ip = p]
           IN  Tells(g, S, S[c])
<1> DEFINE p == Head(f.preds[c])
           g == [EraseTerminator(f, p) EXCEPT !.ip = p]
<1>1. p \in Block /\ JumpsTo(f, p, c)
  BY DEF OneJump
<1>2. f \in FunctionType /\ f.insts \in [Block -> Seq(Inst)]
  BY SoundFields
<1> HIDE DEF p
<1>3. g.ip = p /\ g.insts = [f.insts EXCEPT ![p] = SubSeq(@, 1, Len(@) - 1)]
  <2> DEFINE h == EraseTerminator(f, p)
             new == [f.insts EXCEPT ![p] = SubSeq(@, 1, Len(@) - 1)]
  <2>1. DOMAIN f = {"n", "linked", "emitted", "insts", "preds", "ip"}
    BY <1>2 DEF FunctionType
  <2>2. h.insts = new /\ DOMAIN h = DOMAIN f
    BY <2>1 DEF EraseTerminator
  <2>3. g = [h EXCEPT !.ip = p]
    BY DEF p
  <2> HIDE DEF h, new, g
  <2>4. g.ip = p /\ g.insts = h.insts
    BY <2>1, <2>2, <2>3
  <2> QED BY <2>2, <2>4 DEF new
<1> HIDE DEF g
<1>4. ASSUME NEW b \in Block PROVE \E y : Runs(g.insts[b], S, S[b], y) /\ (b = g.ip => Follows(y, S[c]))
  <2>1. PICK y : Runs(f.insts[b], S, S[b], y)
    BY DEF Tells
  <2>2. CASE b = p
    <3>1. f.insts[p] \in Seq(Inst) /\ f.insts[p] # << >> /\ g.insts[p] = SubSeq(f.insts[p], 1, Len(f.insts[p]) - 1)
      BY <1>1, <1>2, <1>3 DEF JumpsTo
    <3>2. PICK w : /\ Runs(g.insts[p], S, S[b], w)
                   /\ Conducts(f.insts[p][Len(f.insts[p])], w, y, S)
      BY <2>1, <2>2, <3>1, RunsLess
    <3>3. Follows(w, S[c])
      BY <1>1, <3>2 DEF JumpsTo, Conducts
    <3> QED BY <2>2, <3>2, <3>3
  <2>3. CASE b # p
    BY <1>2, <1>3, <2>1, <2>3
  <2> QED BY <2>2, <2>3
<1>5. Tells(g, S, S[c])
  BY <1>4 DEF Tells
<1> QED BY <1>5 DEF g, p

\* emitCondition and enterTrue, where the source is about to test.
LEMMA ConditionTells ==
    ASSUME NEW f, Sound(f), HasValidIP(f), NEW S, NEW kk, NEW d, Tells(f, S, P(kk, d)),
           NEW cond \in Name, SourceEvent(kk) = Event("condbr", cond),
           NEW hasFalse \in BOOLEAN, NEW invert \in BOOLEAN,
           f.n + (IF hasFalse THEN 3 ELSE 2) <= MaxBlock,
           S[CondBlocks(f, hasFalse).true] = P(AfterTest(kk, d, ~invert), d),
           S[IF hasFalse THEN CondBlocks(f, hasFalse).false ELSE CondBlocks(f, hasFalse).cont]
              = P(AfterTest(kk, d, invert), d)
    PROVE  LET c == CondBlocks(f, hasFalse)
           IN  Tells(EnterTrue(EmitCondition(f, cond, hasFalse, invert), c), S, S[c.true])
<1> DEFINE c == CondBlocks(f, hasFalse)
           one == NewBlock(f)
           two == NewBlock(one)
           all == IF hasFalse THEN NewBlock(two) ELSE two
           otherwise == IF hasFalse THEN c.false ELSE c.cont
           yes == IF invert THEN otherwise ELSE c.true
           no == IF invert THEN c.true ELSE otherwise
           inst == [op |-> "condbr", id |-> cond, succs |-> <<yes, no>>]
           h == Terminate(all, inst)
           g == EnterTrue(EmitCondition(f, cond, hasFalse, invert), c)
           x == P(kk, d)
<1>1. /\ f.n \in Nat /\ f.n + 2 <= MaxBlock /\ (hasFalse => f.n + 3 <= MaxBlock) /\ MaxBlock \in Nat
      /\ f.linked \subseteq 1 .. f.n /\ f.emitted \subseteq f.linked /\ f.ip \in f.emitted
  BY SoundFields, MaxBlockAssumption DEF Sound, HasValidIP
<1>2. /\ c.true = f.n + 2 /\ c.cont = f.n + 1 /\ (hasFalse => c.false = f.n + 3)
      /\ c.cont # NoBlock
  BY <1>1 DEF CondBlocks, NoBlock
<1>3. /\ {c.true, otherwise} \subseteq Block /\ c.true > f.n /\ otherwise > f.n
      /\ c.true \notin f.linked
  BY <1>1, <1>2 DEF Block
<1>4. S[yes] = P(AfterTest(kk, d, TRUE), d) /\ S[no] = P(AfterTest(kk, d, FALSE), d)
  <2>1. CASE invert
    BY <2>1
  <2>2. CASE ~invert
    BY <2>2
  <2> QED BY <2>1, <2>2
<1>5. g = Start(h, c.true)
  BY <1>2 DEF EmitCondition, CreateCondBranch, EnterTrue
<1> HIDE DEF c, g, x
<1>6. Sound(one) /\ Tells(one, S, x) /\ one.n = f.n + 1 /\ one.ip = f.ip /\ one.emitted = f.emitted
      /\ one.linked = f.linked \cup {f.n + 1}
  <2>1. f.n < MaxBlock /\ f \in FunctionType
    BY <1>1, SoundFields
  <2>2. Tells(f, S, x)
    BY DEF x
  <2> QED BY <2>1, <2>2, NewTells, NewSound
<1> HIDE DEF one
<1>7. Sound(two) /\ Tells(two, S, x) /\ two.n = f.n + 2 /\ two.ip = f.ip /\ two.emitted = f.emitted
      /\ two.linked = f.linked \cup {f.n + 1, f.n + 2}
  <2>1. one.n < MaxBlock /\ one.n + 1 = f.n + 2 /\ one \in FunctionType
    BY <1>1, <1>6, SoundFields
  <2>2. Tells(two, S, x)
    BY <1>6, <2>1, NewTells
  <2> QED BY <1>6, <2>1, <2>2, NewSound
<1> HIDE DEF two
<1>8. Sound(all) /\ Tells(all, S, x) /\ all.ip = f.ip /\ all.emitted = f.emitted
      /\ {c.true, otherwise} \subseteq all.linked
  <2>1. CASE hasFalse
    <3>1. two.n < MaxBlock /\ two.n + 1 = f.n + 3 /\ two \in FunctionType
      BY <1>1, <1>7, <2>1, SoundFields
    <3>2. Tells(NewBlock(two), S, x)
      BY <1>7, <3>1, NewTells
    <3>3. NewBlock(two).ip = f.ip /\ NewBlock(two).emitted = f.emitted
          /\ NewBlock(two).linked = two.linked \cup {f.n + 3} /\ Sound(NewBlock(two))
      BY <1>7, <3>1, NewSound
    <3> QED BY <1>2, <1>7, <2>1, <3>2, <3>3
  <2>2. CASE ~hasFalse
    BY <1>2, <1>7, <2>2
  <2> QED BY <2>1, <2>2
<1> HIDE DEF all
<1>9. inst \in Inst /\ IsTerm(inst) /\ SuccSet(inst) = {c.true, otherwise} /\ Arity(inst)
      /\ inst.op = "condbr" /\ inst.id = cond /\ inst.succs[1] = yes /\ inst.succs[2] = no
  <2>1. yes \in Block /\ no \in Block /\ {yes, no} = {c.true, otherwise}
    BY <1>3
  <2> HIDE DEF yes, no
  <2>2. SuccSet(inst) = {yes, no}
    BY DEF SuccSet
  <2> QED BY <2>1, <2>2 DEF Inst, IsTerm, TermOps, Arity
<1> HIDE DEF inst, otherwise, yes, no
<1>10. Sound(h) /\ h.linked = all.linked /\ h.emitted = all.emitted
  BY <1>8, <1>9, TerminateSound DEF HasValidIP
<1>11. Conducts(inst, x, x, S)
  <2> DEFINE s == State(kk, d)
  <2>1. Awaits(x, Event("condbr", inst.id), s) /\ s.k = kk /\ s.env = d /\ x.live = d
    BY <1>9, ReachesSelf DEF Awaits, x, P, State
  <2> HIDE DEF s
  <2>2. ASSUME NEW b \in BOOLEAN
        PROVE  S[inst.succs[IF b THEN 1 ELSE 2]]
                  = [src |-> State(AfterTest(s.k, s.env, b), s.env), live |-> x.live]
    <3>1. CASE b
      <4>1. b = TRUE
        BY <3>1
      <4> QED BY <1>4, <1>9, <2>1, <4>1 DEF P
    <3>2. CASE ~b
      <4>1. b = FALSE
        BY <3>2
      <4> QED BY <1>4, <1>9, <2>1, <4>1 DEF P
    <3> QED BY <3>1, <3>2
  <2>3. \E t : /\ Awaits(x, Event("condbr", inst.id), t)
               /\ \A b \in BOOLEAN : S[inst.succs[IF b THEN 1 ELSE 2]]
                      = [src |-> State(AfterTest(t.k, t.env, b), t.env), live |-> x.live]
    BY <2>1, <2>2
  <2> QED BY <1>9, <2>3 DEF Conducts
<1>12. ~HasValidIP(h) /\ Tells(h, S, x)
  <2>1. all \in FunctionType /\ HasValidIP(all)
    BY <1>8, SoundFields DEF HasValidIP
  <2> QED BY <1>8, <1>9, <1>11, <2>1, TerminateTells
<1> HIDE DEF h
<1>13. c.true \in h.linked \ h.emitted
  <2>1. c.true \notin f.emitted
    BY <1>1, <1>3
  <2> QED BY <1>8, <1>10, <2>1
<1>14. Tells(Start(h, c.true), S, S[c.true])
  BY <1>10, <1>12, <1>13, StartTells
<1> QED BY <1>5, <1>14 DEF g, c

\* The head of a loop.
LEMMA HeadTells ==
    ASSUME Sound(fn), NEW S, NEW x, Tells(fn, S, x), NEW n \in {1, 2}, fn.n + n + 1 <= MaxBlock,
           Follows(x, S[fn.n + 1])
    PROVE  Tells(LoopHead(n), S, S[fn.n + 1])
<1> DEFINE loop == fn.n + 1
           one == NewBlock(fn)
           two == Start(one, loop)
           three == NewBlock(two)
<1>1. /\ fn.n \in Nat /\ fn.linked \subseteq 1 .. fn.n /\ fn.emitted \subseteq fn.linked
      /\ fn.n < MaxBlock /\ fn.n + 1 < MaxBlock /\ fn \in FunctionType
  BY SoundFields, MaxBlockAssumption DEF Sound
<1>2. /\ Sound(one) /\ one.n = loop /\ loop \in one.linked \ one.emitted
      /\ Tells(one, S, x) /\ Follows(x, S[loop])
  BY <1>1, NewTells, NewSound
<1> HIDE DEF one
<1>3. Sound(two) /\ two.n = loop /\ Tells(two, S, S[loop])
  BY <1>2, StartTells, StartSound
<1> HIDE DEF two
<1>4. Sound(three) /\ Tells(three, S, S[loop])
  <2>1. two.n < MaxBlock /\ two \in FunctionType
    BY <1>1, <1>3, SoundFields
  <2> QED BY <1>3, <2>1, NewSound, NewTells
<1> HIDE DEF three
<1>5. CASE n = 1
  <2>1. LoopHead(n) = three
    BY <1>5 DEF LoopHead, NextBlock, one, two, three
  <2> QED BY <1>4, <2>1
<1>6. CASE n = 2
  <2>1. LoopHead(n) = NewBlock(three)
    BY <1>6 DEF LoopHead, NextBlock, one, two, three
  <2>2. three \in FunctionType
    BY <1>4, SoundFields
  <2> QED BY <1>4, <2>1, <2>2, NewTells
<1> QED BY <1>5, <1>6

-----------------------------------------------------------------------------
(* Continuations of the source *)

Inc(s, d) == [op |-> "inc", stmt |-> s, depth |-> d]
Vars(vs) == [kind |-> "var", vars |-> vs]

\* The frames of the source, and its continuations.
SFrames ==
    UNION { [op : {"visit"}, stmt : LoopStmt \cup [kind : {"var"}, vars : Seq(Name)]],
            [op : {"leave"}, depth : Nat],
            [op : {"loop", "inc"}, stmt : LoopStmt, depth : Nat] }
Conts == Seq(SFrames)

\* A frame in front of a continuation, and a list of statements in front of one.
On(fr, r) == <<fr>> \o r
Visits(ss) == [i \in DOMAIN ss |-> Visit(ss[i])]

\* Frames are made like this.
LEMMA SFrameForms ==
    /\ \A s \in LoopStmt : Visit(s) \in SFrames
    /\ \A vs \in Seq(Name) : Visit(Vars(vs)) \in SFrames
    /\ \A d \in Nat : Leave(d) \in SFrames
    /\ \A s \in LoopStmt, d \in Nat : Loop(s, d) \in SFrames /\ Inc(s, d) \in SFrames
BY DEF SFrames, Visit, Vars, Leave, Loop, Inc

\* A continuation with a frame in front.
LEMMA OnParts ==
    ASSUME NEW fr \in SFrames, NEW r \in Conts
    PROVE  /\ On(fr, r) \in Conts /\ On(fr, r) # << >>
           /\ Head(On(fr, r)) = fr /\ Tail(On(fr, r)) = r /\ On(fr, r)[1] = fr
<1>1. <<fr>> \in Seq(SFrames) /\ Len(<<fr>>) = 1 /\ <<fr>>[1] = fr
  OBVIOUS
<1>2. On(fr, r) \in Conts /\ Len(On(fr, r)) = Len(r) + 1 /\ Len(r) \in Nat /\ On(fr, r)[1] = fr
      /\ \A i \in 1 .. Len(r) : On(fr, r)[1 + i] = r[i]
  BY <1>1, Concatenated DEF On, Conts
<1>3. On(fr, r) # << >> /\ Head(On(fr, r)) = fr
  BY <1>2 DEF Conts
<1>4. Tail(On(fr, r)) = r
  <2> DEFINE s == On(fr, r)
  <2>1. Tail(s) \in Seq(SFrames) /\ Len(Tail(s)) = Len(r) /\ \A i \in 1 .. Len(r) : Tail(s)[i] = s[i + 1]
    BY <1>2, <1>3, HeadTailProperties DEF Conts
  <2>2. \A i \in 1 .. Len(r) : Tail(s)[i] = r[i]
    <3> TAKE i \in 1 .. Len(r)
    <3>1. 1 + i = i + 1
      BY <1>2
    <3> QED BY <1>2, <2>1, <3>1
  <2>3. r \in Seq(SFrames)
    BY DEF Conts
  <2> DEFINE t == Tail(s)
  <2>4. t \in Seq(SFrames) /\ Len(t) = Len(r) /\ \A i \in 1 .. Len(t) : t[i] = r[i]
    BY <2>1, <2>2
  <2> HIDE DEF t, s
  <2>5. t = r
    BY <2>3, <2>4, SeqEqual
  <2> QED BY <2>5 DEF t, s
<1> QED BY <1>2, <1>3, <1>4

\* Three elements.
LEMMA TripleOf ==
    ASSUME NEW a, NEW b, NEW d
    PROVE  <<a>> \o <<b, d>> = <<a, b, d>>
<1> DEFINE T == {a, b, d}
           s == <<a>>
           t == <<b, d>>
<1>1. s \in Seq(T) /\ t \in Seq(T) /\ Len(s) = 1 /\ Len(t) = 2 /\ s[1] = a /\ t[1] = b /\ t[2] = d
  OBVIOUS
<1> HIDE DEF s, t, T
<1>2. s \o t \in Seq(T) /\ Len(s \o t) = 3 /\ (s \o t)[1] = s[1] /\ (s \o t)[2] = t[1]
      /\ (s \o t)[3] = t[2]
  BY <1>1, ConcatProperties
<1>3. s \o t = <<a, b, d>>
  <2> DEFINE u == s \o t
  <2>1. u \in Seq(T) /\ Len(u) = 3 /\ u[1] = a /\ u[2] = b /\ u[3] = d
    BY <1>1, <1>2
  <2> HIDE DEF u
  <2>2. u = <<u[1], u[2], u[3]>>
    BY <2>1
  <2> QED BY <2>1, <2>2 DEF u
<1> QED BY <1>3 DEF s, t

\* Lists of frames in front of a continuation.
LEMMA ListOn ==
    ASSUME NEW r \in Conts
    PROVE  /\ << >> \o r = r
           /\ \A a \in SFrames : <<a>> \o r = On(a, r)
           /\ \A a, b \in SFrames : <<a, b>> \o r = On(a, On(b, r))
           /\ \A a, b, d \in SFrames : <<a, b, d>> \o r = On(a, On(b, On(d, r)))
<1>1. << >> \o r = r
  BY ConcatEmptySeq DEF Conts
<1>2. \A a, b \in SFrames : <<a, b>> \o r = On(a, On(b, r))
  <2> TAKE a, b \in SFrames
  <2>1. <<a>> \in Seq(SFrames) /\ <<b>> \in Seq(SFrames)
    OBVIOUS
  <2>2. <<a>> \o <<b>> = <<a, b>>
    BY PairOf
  <2>3. (<<a>> \o <<b>>) \o r = <<a>> \o (<<b>> \o r)
    BY <2>1, ConcatAssociative DEF Conts
  <2> QED BY <2>2, <2>3 DEF On
<1>3. \A a, b, d \in SFrames : <<a, b, d>> \o r = On(a, On(b, On(d, r)))
  <2> TAKE a, b, d \in SFrames
  <2>1. <<a>> \in Seq(SFrames) /\ <<b>> \in Seq(SFrames) /\ <<d>> \in Seq(SFrames)
        /\ <<b, d>> \in Seq(SFrames)
    OBVIOUS
  <2>3. <<a>> \o <<b, d>> = <<a, b, d>>
    BY TripleOf
  <2>2. (<<a>> \o <<b, d>>) \o r = <<a>> \o (<<b, d>> \o r)
    BY <2>1, ConcatAssociative DEF Conts
  <2> QED BY <1>2, <2>2, <2>3 DEF On
<1> QED BY <1>1, <1>2, <1>3 DEF On

\* A list of statements.
LEMMA VisitsParts ==
    ASSUME NEW ss \in Seq(LoopStmt), NEW r \in Conts
    PROVE  /\ Visits(ss) \in Conts /\ Visits(ss) \o r \in Conts
           /\ \A i \in DOMAIN Visits(ss) : Visits(ss)[i].op = "visit"
           /\ ss = << >> => Visits(ss) \o r = r
           /\ \A fr \in SFrames : (Visits(ss) \o <<fr>>) \o r = Visits(ss) \o On(fr, r)
           /\ ss # << >> => /\ Head(ss) \in LoopStmt /\ Tail(ss) \in Seq(LoopStmt)
                            /\ Visits(ss) \o r = On(Visit(Head(ss)), Visits(Tail(ss)) \o r)
<1>1. \A s \in LoopStmt : Visit(s) \in SFrames
  BY SFrameForms
<1>2. ASSUME NEW tt \in Seq(LoopStmt)
      PROVE  /\ Visits(tt) \in Conts /\ Len(Visits(tt)) = Len(tt) /\ Len(tt) \in Nat
             /\ \A i \in 1 .. Len(tt) : Visits(tt)[i] = Visit(tt[i])
  <2>1. DOMAIN tt = 1 .. Len(tt) /\ Len(tt) \in Nat /\ \A i \in 1 .. Len(tt) : tt[i] \in LoopStmt
    OBVIOUS
  <2>2. \A i \in 1 .. Len(tt) : Visit(tt[i]) \in SFrames
    BY <1>1, <2>1
  <2>3. Visits(tt) = [i \in 1 .. Len(tt) |-> Visit(tt[i])]
    BY <2>1 DEF Visits
  <2> DEFINE v == Visits(tt)
  <2>4. v \in [1 .. Len(tt) -> SFrames]
    BY <2>2, <2>3
  <2>5. v \in Seq(SFrames) /\ Len(v) = Len(tt)
    BY <2>1, <2>4
  <2> QED BY <2>1, <2>3, <2>5 DEF Conts
<1>3. Visits(ss) \o r \in Conts
  BY <1>2, ConcatProperties DEF Conts
<1>4. \A i \in DOMAIN Visits(ss) : Visits(ss)[i].op = "visit"
  BY DEF Visits, Visit
<1>5. ss = << >> => Visits(ss) \o r = r
  <2> HAVE ss = << >>
  <2>1. Visits(ss) \in Seq(SFrames) /\ Len(Visits(ss)) = 0
    BY <1>2 DEF Conts
  <2>2. Visits(ss) = << >>
    BY <2>1, EmptySeq
  <2> QED BY <2>2, ListOn
<1>6. \A fr \in SFrames : (Visits(ss) \o <<fr>>) \o r = Visits(ss) \o On(fr, r)
  <2> TAKE fr \in SFrames
  <2>1. <<fr>> \in Seq(SFrames)
    OBVIOUS
  <2> QED BY <1>2, <2>1, ConcatAssociative DEF Conts, On
<1>7. ASSUME ss # << >>
      PROVE  /\ Head(ss) \in LoopStmt /\ Tail(ss) \in Seq(LoopStmt)
             /\ Visits(ss) \o r = On(Visit(Head(ss)), Visits(Tail(ss)) \o r)
  <2>1. /\ Head(ss) \in LoopStmt /\ Head(ss) = ss[1] /\ Tail(ss) \in Seq(LoopStmt) /\ Len(Tail(ss)) = Len(ss) - 1
        /\ \A i \in 1 .. Len(Tail(ss)) : Tail(ss)[i] = ss[i + 1]
    BY <1>7, HeadTailProperties
  <2> DEFINE h == Visit(Head(ss))
             t == Visits(Tail(ss))
             u == <<h>> \o t
  <2>2. /\ t \in Seq(SFrames) /\ Len(t) = Len(ss) - 1 /\ <<h>> \in Seq(SFrames) /\ Len(<<h>>) = 1
        /\ \A i \in 1 .. Len(ss) - 1 : t[i] = Visit(ss[i + 1])
    <3>1. h \in SFrames
      BY <1>1, <2>1, SMTT(60)
    <3>2. t \in Seq(SFrames) /\ Len(t) = Len(Tail(ss)) /\ \A i \in 1 .. Len(Tail(ss)) : t[i] = Visit(Tail(ss)[i])
      BY <1>2, <2>1, ZenonT(60) DEF Conts
    <3> HIDE DEF t, h
    <3> QED BY <2>1, <3>1, <3>2
  <2>3. u \in Seq(SFrames) /\ Len(u) = Len(ss) /\ u[1] = h /\ \A i \in 1 .. Len(ss) - 1 : u[1 + i] = t[i]
    <3>1. Len(ss) \in Nat
      BY <1>2
    <3> HIDE DEF h, t
    <3> QED BY <2>2, <3>1, Concatenated
  <2>4. ASSUME NEW i \in 1 .. Len(ss) PROVE Visits(ss)[i] = u[i]
    <3>1. CASE i = 1
      BY <1>2, <2>1, <2>3, <3>1
    <3>2. CASE i # 1
      <4>1. i - 1 \in 1 .. Len(ss) - 1 /\ 1 + (i - 1) = i /\ (i - 1) + 1 = i
        BY <1>2, <3>2
      <4> HIDE DEF u, t
      <4> QED BY <1>2, <2>2, <2>3, <4>1
    <3> QED BY <3>1, <3>2
  <2>5. Visits(ss) = u
    <3> HIDE DEF u
    <3> QED BY <1>2, <2>3, <2>4, SeqEqual DEF Conts
  <2>6. u \o r = <<h>> \o (t \o r)
    <3> HIDE DEF h, t
    <3> QED BY <2>2, ConcatAssociative, SMTT(60) DEF Conts
  <2> QED BY <2>1, <2>5, <2>6 DEF On
<1> QED BY <1>2, <1>3, <1>4, <1>5, <1>6, <1>7

-----------------------------------------------------------------------------
(* Steps of the source *)

\* The silent step of each kind of frame and statement.
LEMMA LeaveNext ==
    ASSUME NEW kk, NEW c, Head(kk).op = "leave"
    PROVE  SourceNext(kk, c) = [k |-> << >> \o Tail(kk), env |-> SubSeq(c, 1, Head(kk).depth)]
BY ZenonT(60) DEF SourceNext

\* A loop without a condition goes on with an iteration.
LEMMA LoopNext ==
    ASSUME NEW kk, NEW c, Head(kk).op = "loop", NEW t, Iteration(Head(kk).stmt, Len(c)) = t
    PROVE  SourceNext(kk, c) = [k |-> (t \o <<Head(kk)>>) \o Tail(kk), env |-> c]
BY ZenonT(60) DEF SourceNext

\* The increment of a for is a call, if there is one.
LEMMA IncNext ==
    ASSUME NEW kk, NEW c, Head(kk).op = "inc"
    PROVE  SourceNext(kk, c) = [k |-> Maybe(Head(kk).stmt.inc) \o Tail(kk), env |-> c]
BY ZenonT(60) DEF SourceNext

\* A declaration opens the scope of its variables.
LEMMA VarNext ==
    ASSUME NEW kk, NEW c, NEW s, Head(kk).op = "visit", Head(kk).stmt = s, s.kind = "var"
    PROVE  SourceNext(kk, c) = [k |-> << >> \o Tail(kk), env |-> c \o s.vars]
BY ZenonT(60) DEF SourceNext

\* A brace runs its elements and leaves their scope.
LEMMA BraceNext ==
    ASSUME NEW kk, NEW c, NEW s, Head(kk).op = "visit", Head(kk).stmt = s, s.kind = "brace"
    PROVE  SourceNext(kk, c) = [k |-> (Visits(s.body) \o <<Leave(Len(c))>>) \o Tail(kk), env |-> c]
BY ZenonT(60) DEF SourceNext, Visits

\* A loop is entered.
LEMMA EnterNext ==
    ASSUME NEW kk, NEW c, NEW s, Head(kk).op = "visit", Head(kk).stmt = s,
           s.kind \in {"while", "dowhile", "for", "foreach"}, NEW t, EnterLoop(s, Len(c)) = t
    PROVE  SourceNext(kk, c) = [k |-> t \o Tail(kk), env |-> c]
BY ZenonT(60) DEF SourceNext

\* A jump goes to the frame it stops at.
LEMMA JumpNext ==
    ASSUME NEW kk, NEW c, NEW s, Head(kk).op = "visit", Head(kk).stmt = s,
           s.kind \in {"break", "continue"}, NEW i, Target(kk, s.kind) = i
    PROVE  SourceNext(kk, c) = [k |-> SubSeq(kk, IF s.kind = "break" THEN i + 1 ELSE i, Len(kk)),
                                env |-> SubSeq(c, 1, kk[i].depth)]
BY ZenonT(60) DEF SourceNext

\* A silent step.
LEMMA SourceGoes ==
    ASSUME NEW kk, SourceEvent(kk) = Silent, NEW c, NEW ll, NEW e,
           SourceNext(kk, c) = [k |-> ll, env |-> e]
    PROVE  Reaches(State(kk, c), State(ll, e))
<1>1. State(kk, c).k = kk /\ State(kk, c).env = c
  BY DEF State
<1>2. ~Waits(State(kk, c)) /\ StateNext(State(kk, c)) = State(ll, e)
  BY <1>1 DEF Waits, StateNext
<1> QED BY <1>2, ReachesNext

\* The scope is left.
LEMMA LeaveStep ==
    ASSUME NEW d \in Nat, NEW r \in Conts, NEW c
    PROVE  Reaches(State(On(Leave(d), r), c), State(r, Begin(c, d)))
<1> DEFINE kk == On(Leave(d), r)
<1>1. kk # << >> /\ Head(kk) = Leave(d) /\ Tail(kk) = r /\ << >> \o r = r
  BY SFrameForms, OnParts, ListOn
<1> HIDE DEF kk
<1>2. SourceEvent(kk) = Silent
  BY <1>1 DEF SourceEvent, Leave
<1>3. SourceNext(kk, c) = [k |-> r, env |-> Begin(c, d)]
  <2>1. Head(kk).op = "leave" /\ Head(kk).depth = d
    BY <1>1 DEF Leave
  <2> QED BY <1>1, <2>1, LeaveNext DEF Begin
<1> QED BY <1>2, <1>3, SourceGoes DEF kk

\* The variables are declared.
LEMMA VarStep ==
    ASSUME NEW s, s.kind = "var", Visit(s) \in SFrames, NEW r \in Conts, NEW c
    PROVE  Reaches(State(On(Visit(s), r), c), State(r, c \o s.vars))
<1> DEFINE kk == On(Visit(s), r)
<1>1. kk # << >> /\ Head(kk) = Visit(s) /\ Tail(kk) = r /\ << >> \o r = r
  BY OnParts, ListOn
<1> HIDE DEF kk
<1>2. SourceEvent(kk) = Silent
  BY <1>1 DEF SourceEvent, Visit
<1>3. SourceNext(kk, c) = [k |-> r, env |-> c \o s.vars]
  <2>1. Head(kk).op = "visit" /\ Head(kk).stmt = s
    BY <1>1 DEF Visit
  <2> QED BY <1>1, <2>1, VarNext
<1> QED BY <1>2, <1>3, SourceGoes DEF kk

\* The brace is entered.
LEMMA BraceStep ==
    ASSUME NEW s \in LoopStmt, s.kind = "brace", NEW r \in Conts, NEW c, Len(c) \in Nat
    PROVE  Reaches(State(On(Visit(s), r), c), State(Visits(s.body) \o On(Leave(Len(c)), r), c))
<1> DEFINE kk == On(Visit(s), r)
<1>1. kk # << >> /\ Head(kk) = Visit(s) /\ Tail(kk) = r /\ s.body \in Seq(LoopStmt)
      /\ Leave(Len(c)) \in SFrames
  BY SFrameForms, OnParts, StatementParts
<1> HIDE DEF kk
<1>2. SourceEvent(kk) = Silent
  BY <1>1 DEF SourceEvent, Visit
<1>3. SourceNext(kk, c) = [k |-> (Visits(s.body) \o <<Leave(Len(c))>>) \o r, env |-> c]
  <2>1. Head(kk).op = "visit" /\ Head(kk).stmt = s
    BY <1>1 DEF Visit
  <2> QED BY <1>1, <2>1, BraceNext
<1>4. (Visits(s.body) \o <<Leave(Len(c))>>) \o r = Visits(s.body) \o On(Leave(Len(c)), r)
  BY <1>1, VisitsParts
<1> QED BY <1>2, <1>3, <1>4, SourceGoes DEF kk

\* Entering a loop.
LEMMA WhileStep ==
    ASSUME NEW s \in LoopStmt, s.kind = "while", NEW r \in Conts, NEW c, Len(c) \in Nat
    PROVE  Reaches(State(On(Visit(s), r), c), State(On(Loop(s, Len(c)), r), c))
<1> DEFINE kk == On(Visit(s), r)
<1>1. kk # << >> /\ Head(kk) = Visit(s) /\ Tail(kk) = r
  BY SFrameForms, OnParts
<1> HIDE DEF kk
<1>2. SourceEvent(kk) = Silent
  BY <1>1 DEF SourceEvent, Visit
<1>3. SourceNext(kk, c) = [k |-> <<Loop(s, Len(c))>> \o r, env |-> c]
  <2>1. Head(kk).op = "visit" /\ Head(kk).stmt = s
    BY <1>1 DEF Visit
  <2>2. EnterLoop(s, Len(c)) = <<Loop(s, Len(c))>>
    BY DEF EnterLoop
  <2> QED BY <1>1, <2>1, <2>2, EnterNext
<1> QED BY <1>2, <1>3, SourceGoes DEF kk, On

\* A do-while runs its body first.
LEMMA DoWhileStep ==
    ASSUME NEW s \in LoopStmt, s.kind = "dowhile", NEW r \in Conts, NEW c, Len(c) \in Nat
    PROVE  Reaches(State(On(Visit(s), r), c), State(On(Visit(s.body), On(Loop(s, Len(c)), r)), c))
<1> DEFINE kk == On(Visit(s), r)
<1>1. kk # << >> /\ Head(kk) = Visit(s) /\ Tail(kk) = r /\ {Visit(s.body), Loop(s, Len(c))} \subseteq SFrames
  BY SFrameForms, OnParts, StatementParts
<1> HIDE DEF kk
<1>2. SourceEvent(kk) = Silent
  BY <1>1 DEF SourceEvent, Visit
<1>3. SourceNext(kk, c) = [k |-> <<Visit(s.body), Loop(s, Len(c))>> \o r, env |-> c]
  <2>1. Head(kk).op = "visit" /\ Head(kk).stmt = s
    BY <1>1 DEF Visit
  <2>2. EnterLoop(s, Len(c)) = <<Visit(s.body), Loop(s, Len(c))>>
    BY DEF EnterLoop
  <2> QED BY <1>1, <2>1, <2>2, EnterNext
<1>4. <<Visit(s.body), Loop(s, Len(c))>> \o r = On(Visit(s.body), On(Loop(s, Len(c)), r))
  BY <1>1, ListOn
<1> QED BY <1>2, <1>3, <1>4, SourceGoes DEF kk

\* The call in a clause of a for, if there is one.
LEMMA MaybeConts ==
    ASSUME NEW name \in Callable, NEW r \in Conts
    PROVE  /\ Maybe(name) \in Conts /\ Maybe(name) \o r \in Conts
           /\ name = NoName => Maybe(name) \o r = r
           /\ name # NoName => /\ CallOf(name) \in FreeStmt /\ CallOf(name) \in LoopStmt
                               /\ Maybe(name) \o r = On(Visit(CallOf(name)), r)
<1>1. CASE name = NoName
  <2>1. Maybe(name) = << >> /\ << >> \in Conts /\ << >> \o r = r
    BY <1>1, ListOn DEF Maybe, Conts
  <2> QED BY <1>1, <2>1
<1>2. CASE name # NoName
  <2>1. CallOf(name) \in FreeStmt /\ CallOf(name) \in LoopStmt
    BY <1>2, StatementAssumption DEF Callable, Grammar
  <2>2. Visit(CallOf(name)) \in SFrames /\ Maybe(name) = <<Visit(CallOf(name))>>
    BY <1>2, <2>1, SFrameForms DEF Maybe
  <2>3. Maybe(name) \in Conts
    BY <2>2 DEF Conts
  <2> QED BY <1>2, <2>1, <2>2, <2>3, OnParts DEF On
<1> QED BY <1>1, <1>2

\* A for declares its variables and makes its first call.
LEMMA ForStep ==
    ASSUME NEW s \in LoopStmt, s.kind = "for", NEW r \in Conts, NEW c, Len(c) \in Nat
    PROVE  Reaches(State(On(Visit(s), r), c),
                   State(On(Visit(Vars(s.vars)),
                            Maybe(s.init) \o On(Loop(s, Len(c) + Len(s.vars)), On(Leave(Len(c)), r))), c))
<1> DEFINE kk == On(Visit(s), r)
           v == Visit(Vars(s.vars))
           i == Maybe(s.init)
           a == Loop(s, Len(c) + Len(s.vars))
           b == Leave(Len(c))
<1>1. kk # << >> /\ Head(kk) = Visit(s) /\ Tail(kk) = r /\ s.vars \in Seq(Name) /\ s.init \in Callable
  BY SFrameForms, OnParts, StatementParts, ForParts
<1>2. {v, a, b} \subseteq SFrames /\ i \in Conts
  BY <1>1, SFrameForms, MaybeConts
<1> HIDE DEF kk
<1>3. SourceEvent(kk) = Silent
  BY <1>1 DEF SourceEvent, Visit
<1>4. SourceNext(kk, c) = [k |-> ((<<v>> \o i) \o <<a, b>>) \o r, env |-> c]
  <2>1. Head(kk).op = "visit" /\ Head(kk).stmt = s
    BY <1>1 DEF Visit
  <2>2. EnterLoop(s, Len(c)) = (<<v>> \o i) \o <<a, b>>
    BY DEF EnterLoop, Vars
  <2> QED BY <1>1, <2>1, <2>2, EnterNext
<1> HIDE DEF v, i, a, b
<1>5. ((<<v>> \o i) \o <<a, b>>) \o r = On(v, i \o On(a, On(b, r)))
  <2> DEFINE t == <<a, b>> \o r
  <2>1. <<v>> \in Seq(SFrames) /\ <<a, b>> \in Seq(SFrames) /\ i \in Seq(SFrames) /\ r \in Seq(SFrames)
    BY <1>2 DEF Conts
  <2>2. <<v>> \o i \in Seq(SFrames) /\ t \in Seq(SFrames)
    BY <2>1, ConcatProperties
  <2>3. ((<<v>> \o i) \o <<a, b>>) \o r = (<<v>> \o i) \o t
    BY <2>1, <2>2, ConcatAssociative, SMTT(30)
  <2>4. (<<v>> \o i) \o t = <<v>> \o (i \o t)
    <3> HIDE DEF t
    <3> QED BY <2>1, <2>2, ConcatAssociative, SMTT(30)
  <2>5. t = On(a, On(b, r))
    BY <1>2, ListOn
  <2> QED BY <2>3, <2>4, <2>5 DEF On
<1> QED BY <1>3, <1>4, <1>5, SourceGoes DEF kk, v, i, a, b

\* A for-each declares the variable of its range.
LEMMA ForEachStep ==
    ASSUME NEW s \in LoopStmt, s.kind = "foreach", NEW r \in Conts, NEW c, Len(c) \in Nat
    PROVE  Reaches(State(On(Visit(s), r), c),
                   State(On(Visit(Vars(s.range)),
                            On(Loop(s, Len(c) + Len(s.range)), On(Leave(Len(c)), r))), c))
<1> DEFINE kk == On(Visit(s), r)
           v == Visit(Vars(s.range))
           a == Loop(s, Len(c) + Len(s.range))
           b == Leave(Len(c))
<1>1. kk # << >> /\ Head(kk) = Visit(s) /\ Tail(kk) = r /\ s.range \in Seq(Name)
  BY SFrameForms, OnParts, StatementParts
<1>2. {v, a, b} \subseteq SFrames
  BY <1>1, SFrameForms
<1> HIDE DEF kk
<1>3. SourceEvent(kk) = Silent
  BY <1>1 DEF SourceEvent, Visit
<1>4. SourceNext(kk, c) = [k |-> <<v, a, b>> \o r, env |-> c]
  <2>1. Head(kk).op = "visit" /\ Head(kk).stmt = s
    BY <1>1 DEF Visit
  <2>2. EnterLoop(s, Len(c)) = <<v, a, b>>
    BY DEF EnterLoop, Vars
  <2> QED BY <1>1, <2>1, <2>2, EnterNext
<1> HIDE DEF v, a, b
<1>5. <<v, a, b>> \o r = On(v, On(a, On(b, r)))
  BY <1>2, ListOn
<1> QED BY <1>3, <1>4, <1>5, SourceGoes DEF kk, v, a, b

\* One iteration of a for loop without a condition; the increment of one.
LEMMA ForeverStep ==
    ASSUME NEW s \in LoopStmt, s.kind = "for", s.cond = NoName, NEW d \in Nat, NEW r \in Conts,
           NEW c, Len(c) \in Nat
    PROVE  LET l == On(Loop(s, d), r)
           IN  Reaches(State(l, c), State(On(Visit(s.body), On(Inc(s, Len(c)), l)), c))
<1> DEFINE l == On(Loop(s, d), r)
<1>1. l # << >> /\ l \in Conts /\ Head(l) = Loop(s, d) /\ Tail(l) = r /\ On(Loop(s, d), r) = l
      /\ {Visit(s.body), Inc(s, Len(c)), Loop(s, d)} \subseteq SFrames
  BY SFrameForms, OnParts, StatementParts
<1> HIDE DEF l
<1>2. SourceEvent(l) = Silent
  BY <1>1 DEF SourceEvent, Loop
<1>3. SourceNext(l, c) = [k |-> (<<Visit(s.body), Inc(s, Len(c))>> \o <<Loop(s, d)>>) \o r, env |-> c]
  <2>1. Head(l).op = "loop" /\ Head(l).stmt = s
    BY <1>1 DEF Loop
  <2>2. Iteration(s, Len(c)) = <<Visit(s.body), Inc(s, Len(c))>>
    BY DEF Iteration, Inc
  <2> QED BY <1>1, <2>1, <2>2, LoopNext
<1>4. (<<Visit(s.body), Inc(s, Len(c))>> \o <<Loop(s, d)>>) \o r = On(Visit(s.body), On(Inc(s, Len(c)), l))
  <2> DEFINE t == <<Visit(s.body), Inc(s, Len(c))>>
  <2>1. t \in Seq(SFrames) /\ <<Loop(s, d)>> \in Seq(SFrames) /\ r \in Seq(SFrames)
    BY <1>1 DEF Conts
  <2> DEFINE u == <<Loop(s, d)>>
  <2>2. u \o r = l
    BY <1>1 DEF On
  <2>3. (t \o u) \o r = t \o l
    <3> HIDE DEF t, u
    <3>1. t \in Seq(SFrames) /\ u \in Seq(SFrames) /\ r \in Seq(SFrames)
      BY <2>1 DEF t, u
    <3>2. (t \o u) \o r = t \o (u \o r)
      BY <3>1, ConcatAssociative, SMTT(60)
    <3> QED BY <2>2, <3>2
  <2>4. t \o l = On(Visit(s.body), On(Inc(s, Len(c)), l))
    BY <1>1, ListOn
  <2> QED BY <2>3, <2>4
<1> QED BY <1>2, <1>3, <1>4, SourceGoes DEF l

\* The increment is made.
LEMMA IncStep ==
    ASSUME NEW s \in LoopStmt, NEW d \in Nat, NEW r \in Conts, NEW c
    PROVE  Reaches(State(On(Inc(s, d), r), c), State(Maybe(s.inc) \o r, c))
<1> DEFINE kk == On(Inc(s, d), r)
<1>1. kk # << >> /\ Head(kk) = Inc(s, d) /\ Tail(kk) = r
  BY SFrameForms, OnParts
<1> HIDE DEF kk
<1>2. SourceEvent(kk) = Silent
  BY <1>1 DEF SourceEvent, Inc
<1>3. SourceNext(kk, c) = [k |-> Maybe(s.inc) \o r, env |-> c]
  <2>1. Head(kk).op = "inc" /\ Head(kk).stmt = s
    BY <1>1 DEF Inc
  <2> QED BY <1>1, <2>1, IncNext
<1> QED BY <1>2, <1>3, SourceGoes DEF kk

-----------------------------------------------------------------------------
(* Events, tests and jumps of the source *)

\* What a statement that does not go on silently shows.
LEMMA StatementEvents ==
    ASSUME NEW s, Visit(s) \in SFrames, NEW r \in Conts
    PROVE  LET kk == On(Visit(s), r)
           IN  /\ s.kind = "call" => SourceEvent(kk) = Event("apply", s.id) /\ Tail(kk) = r
               /\ s.kind = "if" => SourceEvent(kk) = Event("condbr", s.cond)
               /\ s.kind = "return" /\ s.id # NoName => SourceEvent(kk) = Event("return", s.id)
<1> DEFINE kk == On(Visit(s), r)
<1>1. kk # << >> /\ Head(kk) = Visit(s) /\ Tail(kk) = r
  BY OnParts
<1>2. Head(kk).op = "visit" /\ Head(kk).stmt = s
  BY <1>1 DEF Visit
<1> HIDE DEF kk
<1>3. s.kind = "call" => SourceEvent(kk) = Event("apply", s.id)
  BY <1>1, <1>2 DEF SourceEvent
<1>4. s.kind = "if" => SourceEvent(kk) = Event("condbr", s.cond)
  BY <1>1, <1>2 DEF SourceEvent
<1>5. s.kind = "return" /\ s.id # NoName => SourceEvent(kk) = Event("return", s.id)
  BY <1>1, <1>2 DEF SourceEvent
<1> QED BY <1>1, <1>3, <1>4, <1>5 DEF kk

\* A loop with a condition tests it; the end of the function is one.
LEMMA LoopEvent ==
    ASSUME NEW s \in LoopStmt, s.cond # NoName, NEW d \in Nat, NEW r \in Conts
    PROVE  SourceEvent(On(Loop(s, d), r)) = Event("condbr", s.cond)
<1> DEFINE kk == On(Loop(s, d), r)
<1>1. kk # << >> /\ Head(kk) = Loop(s, d)
  BY SFrameForms, OnParts
<1>2. Head(kk).op = "loop" /\ Head(kk).stmt = s
  BY <1>1 DEF Loop
<1> HIDE DEF kk
<1>3. SourceEvent(kk) = Event("condbr", s.cond)
  BY <1>1, <1>2 DEF SourceEvent
<1> QED BY <1>3 DEF kk

\* Where nothing is left the function ends.
LEMMA EndEvent == SourceEvent(<< >>) = Event("end", NoName)
BY DEF SourceEvent

\* What is left after a test that holds, and after one that does not.
Taken(kk, c) == AfterTest(kk, c, TRUE)
Skipped(kk, c) == AfterTest(kk, c, FALSE)

\* Either arm of an if.
LEMMA AfterIf ==
    ASSUME NEW s \in LoopStmt, s.kind = "if", NEW r \in Conts, NEW c
    PROVE  LET kk == On(Visit(s), r)
           IN  /\ Taken(kk, c) = On(Visit(s.then), r)
               /\ s.else = NoStmt => Skipped(kk, c) = r
               /\ s.else # NoStmt => Skipped(kk, c) = On(Visit(s.else), r)
<1> DEFINE kk == On(Visit(s), r)
<1>1. kk # << >> /\ Head(kk) = Visit(s) /\ Tail(kk) = r /\ << >> \o r = r
  BY SFrameForms, OnParts, ListOn
<1>2. Head(kk).op = "visit" /\ Head(kk).stmt = s
  BY <1>1 DEF Visit
<1> HIDE DEF kk
<1>3. AfterTest(kk, c, TRUE) = <<Visit(s.then)>> \o r
  BY <1>1, <1>2 DEF AfterTest
<1>4. s.else = NoStmt => AfterTest(kk, c, FALSE) = << >> \o r
  BY <1>1, <1>2 DEF AfterTest
<1>5. s.else # NoStmt => AfterTest(kk, c, FALSE) = <<Visit(s.else)>> \o r
  BY <1>1, <1>2 DEF AfterTest
<1> QED BY <1>1, <1>3, <1>4, <1>5 DEF kk, On, Taken, Skipped

\* One more iteration of a loop, or none.
LEMMA AfterLoop ==
    ASSUME NEW s \in LoopStmt, NEW d \in Nat, NEW r \in Conts, NEW c, Len(c) \in Nat,
           NEW kk, kk = On(Loop(s, d), r)
    PROVE  /\ s.kind \in {"while", "dowhile"} =>
                 Taken(kk, c) = On(Visit(s.body), kk) /\ Skipped(kk, c) = r
           /\ s.kind = "for" =>
                 /\ Taken(kk, c) = On(Visit(s.body), On(Inc(s, Len(c)), kk))
                 /\ Skipped(kk, c) = r
           /\ s.kind = "foreach" =>
                 /\ Skipped(kk, c)
                       = On(Visit(Vars(s.elem)), On(Visit(s.body), On(Leave(Len(c)), kk)))
                 /\ Taken(kk, c) = r
<1> DEFINE n == Len(c)
<1>1. kk # << >> /\ Head(kk) = Loop(s, d) /\ Tail(kk) = r /\ kk \in Conts /\ Inc(s, n) \in SFrames
      /\ Leave(n) \in SFrames
  BY SFrameForms, OnParts
<1>2. Head(kk).op = "loop" /\ Head(kk).stmt = s
  BY <1>1 DEF Loop
<1>3. \A b \in BOOLEAN : /\ b # (s.kind = "foreach") => AfterTest(kk, c, b) = Iteration(s, n) \o kk
                         /\ ~(b # (s.kind = "foreach")) => AfterTest(kk, c, b) = r
  BY <1>1, <1>2, Zenon DEF AfterTest
<1>4. ASSUME s.kind \in {"while", "dowhile"} PROVE Iteration(s, n) \o kk = On(Visit(s.body), kk)
  <2>1. Iteration(s, n) = <<Visit(s.body)>>
    BY <1>4 DEF Iteration
  <2> QED BY <2>1 DEF On
<1>5. ASSUME s.kind = "for" PROVE Iteration(s, n) \o kk = On(Visit(s.body), On(Inc(s, n), kk))
  <2>1. Iteration(s, n) = <<Visit(s.body), Inc(s, n)>>
    BY <1>5 DEF Iteration, Inc
  <2>2. Visit(s.body) \in SFrames
    BY <1>5, StatementParts, SFrameForms
  <2> QED BY <1>1, <2>1, <2>2, ListOn
<1>6. ASSUME s.kind = "foreach"
      PROVE  Iteration(s, n) \o kk = On(Visit(Vars(s.elem)), On(Visit(s.body), On(Leave(n), kk)))
  <2>1. Iteration(s, n) = <<Visit(Vars(s.elem)), Visit(s.body), Leave(n)>>
    BY <1>6 DEF Iteration, Vars
  <2>2. Visit(s.body) \in SFrames /\ Visit(Vars(s.elem)) \in SFrames
    BY <1>6, StatementParts, SFrameForms
  <2> QED BY <1>1, <2>1, <2>2, ListOn, SMTT(30)
<1>7. TRUE \in BOOLEAN /\ FALSE \in BOOLEAN /\ TRUE # FALSE
  OBVIOUS
<1>8. ASSUME s.kind # "foreach" PROVE AfterTest(kk, c, TRUE) = Iteration(s, n) \o kk /\ AfterTest(kk, c, FALSE) = r
  BY <1>3, <1>7, <1>8
<1>9. ASSUME s.kind = "foreach" PROVE AfterTest(kk, c, FALSE) = Iteration(s, n) \o kk /\ AfterTest(kk, c, TRUE) = r
  BY <1>3, <1>7, <1>9
<1> HIDE DEF n
<1>10. ASSUME s.kind \in {"while", "dowhile"}
       PROVE  AfterTest(kk, c, TRUE) = On(Visit(s.body), kk) /\ AfterTest(kk, c, FALSE) = r
  BY <1>4, <1>8, <1>10
<1>11. ASSUME s.kind = "for"
       PROVE  AfterTest(kk, c, TRUE) = On(Visit(s.body), On(Inc(s, n), kk)) /\ AfterTest(kk, c, FALSE) = r
  BY <1>5, <1>8, <1>11
<1>12. ASSUME s.kind = "foreach"
       PROVE  /\ AfterTest(kk, c, FALSE) = On(Visit(Vars(s.elem)), On(Visit(s.body), On(Leave(n), kk)))
              /\ AfterTest(kk, c, TRUE) = r
  BY <1>6, <1>9, <1>12
<1> QED BY <1>10, <1>11, <1>12 DEF n, Taken, Skipped

\* The frames a jump stops at.
Stops(fr, kind) == fr.op = "loop" \/ (kind = "continue" /\ fr.op = "inc")
Clear(p, kind) == \A i \in DOMAIN p : ~Stops(p[i], kind)

\* The elements of a continuation.
LEMMA OnAt ==
    ASSUME NEW fr \in SFrames, NEW q \in Conts
    PROVE  /\ Len(On(fr, q)) = Len(q) + 1 /\ On(fr, q)[1] = fr
           /\ \A j \in 1 .. Len(q) : On(fr, q)[j + 1] = q[j]
<1>1. q \in Seq(SFrames) /\ <<fr>> \in Seq(SFrames)
  BY DEF Conts
<1> QED BY <1>1, ConcatProperties DEF On

\* In kk, fr is at i and q after it.
Placed(kk, i, fr, q) ==
    /\ kk \in Conts /\ i \in 1 .. Len(kk) /\ kk[i] = fr
    /\ SubSeq(kk, i + 1, Len(kk)) = q /\ SubSeq(kk, i, Len(kk)) = On(fr, q)

\* Where a frame is in a continuation, and what is after it.
LEMMA FrameAt ==
    ASSUME NEW a \in SFrames, NEW p \in Conts, NEW fr \in SFrames, NEW q \in Conts,
           NEW kk, kk = On(a, p \o On(fr, q)), NEW i, i = Len(p) + 2
    PROVE  Placed(kk, i, fr, q) /\ kk[1] = a /\ \A j \in DOMAIN p : kk[j + 1] = p[j]
<1> DEFINE u == On(fr, q)
           t == p \o u
<1>1. p \in Seq(SFrames) /\ u \in Seq(SFrames) /\ q \in Seq(SFrames) /\ <<fr>> \in Seq(SFrames)
      /\ <<a>> \in Seq(SFrames)
  BY OnParts DEF Conts
<1>2. Len(u) = Len(q) + 1 /\ u[1] = fr /\ \A j \in 1 .. Len(q) : u[j + 1] = q[j]
  BY OnAt
<1>3. /\ t \in Seq(SFrames) /\ Len(t) = Len(p) + Len(u)
      /\ \A j \in 1 .. Len(p) + Len(u) : t[j] = IF j <= Len(p) THEN p[j] ELSE u[j - Len(p)]
  <2> HIDE DEF u
  <2> QED BY <1>1, ConcatProperties
<1> HIDE DEF u, t
<1>4. /\ kk \in Seq(SFrames) /\ Len(kk) = Len(t) + 1 /\ kk[1] = a
      /\ \A j \in 1 .. Len(t) : kk[j + 1] = t[j]
  <2>1. t \in Conts /\ kk = On(a, t)
    BY <1>3 DEF Conts, t, u
  <2>2. On(a, t) \in Conts
    BY <2>1, OnParts
  <2> QED BY <2>1, <2>2, OnAt DEF Conts
<1>5. Len(p) \in Nat /\ Len(q) \in Nat /\ Len(t) \in Nat /\ Len(kk) \in Nat /\ Len(kk) = Len(p) + Len(q) + 2
      /\ DOMAIN kk = 1 .. Len(kk)
  BY <1>1, <1>2, <1>3, <1>4
<1>6. \A j \in 1 .. Len(p) : kk[j + 1] = p[j]
  BY <1>2, <1>3, <1>4, <1>5
<1>7. \A j \in 1 .. Len(u) : kk[Len(p) + 1 + j] = u[j]
  <2> TAKE j \in 1 .. Len(u)
  <2>1. j + Len(p) \in 1 .. Len(t) /\ t[j + Len(p)] = u[j]
    BY <1>2, <1>3, <1>5, SMTT(60)
  <2>2. kk[(j + Len(p)) + 1] = t[j + Len(p)] /\ (j + Len(p)) + 1 = Len(p) + 1 + j
    BY <1>4, <1>5, <2>1
  <2> QED BY <2>1, <2>2
<1>8. i \in 1 .. Len(kk) /\ kk[i] = fr
  <2>1. 1 \in 1 .. Len(u) /\ Len(p) + 1 + 1 = i
    BY <1>2, <1>5
  <2> QED BY <1>2, <1>5, <1>7, <2>1
<1>9. \A m \in {i, i + 1} : /\ SubSeq(kk, m, Len(kk)) \in Seq(SFrames)
                            /\ Len(SubSeq(kk, m, Len(kk))) = Len(kk) - m + 1
                            /\ \A j \in 1 .. Len(kk) - m + 1 : SubSeq(kk, m, Len(kk))[j] = kk[m + j - 1]
  <2> TAKE m \in {i, i + 1}
  <2>1. m \in Int /\ Len(kk) \in Int /\ m >= 1 /\ m <= Len(kk) + 1
    BY <1>5
  <2>2. \A j \in m .. Len(kk) : kk[j] \in SFrames
    BY <1>4, <1>5, <2>1
  <2>3. /\ SubSeq(kk, m, Len(kk)) \in Seq(SFrames)
        /\ Len(SubSeq(kk, m, Len(kk))) = IF m <= Len(kk) THEN Len(kk) - m + 1 ELSE 0
        /\ \A j \in 1 .. Len(kk) - m + 1 : SubSeq(kk, m, Len(kk))[j] = kk[m + j - 1]
    BY <2>1, <2>2, SubSeqProperties
  <2> QED BY <2>1, <2>3
<1>10. SubSeq(kk, i + 1, Len(kk)) = q
  <2> DEFINE v == SubSeq(kk, i + 1, Len(kk))
  <2>1. /\ v \in Seq(SFrames) /\ Len(v) = Len(q)
        /\ \A j \in 1 .. Len(q) : v[j] = kk[i + j]
    BY <1>5, <1>9
  <2> HIDE DEF v
  <2>2. \A j \in 1 .. Len(q) : kk[i + j] = q[j]
    <3> TAKE j \in 1 .. Len(q)
    <3>1. j + 1 \in 1 .. Len(u) /\ Len(p) + 1 + (j + 1) = i + j
      BY <1>2, <1>5
    <3> QED BY <1>2, <1>7, <3>1
  <2>3. v = q
    BY <1>1, <2>1, <2>2, SeqEqual
  <2> QED BY <2>3 DEF v
<1>11. SubSeq(kk, i, Len(kk)) = u
  <2> DEFINE v == SubSeq(kk, i, Len(kk))
  <2>1. /\ v \in Seq(SFrames) /\ Len(v) = Len(u)
        /\ \A j \in 1 .. Len(u) : v[j] = kk[i + j - 1]
    BY <1>2, <1>5, <1>9
  <2> HIDE DEF v
  <2>2. \A j \in 1 .. Len(u) : kk[i + j - 1] = u[j]
    <3> TAKE j \in 1 .. Len(u)
    <3>1. Len(p) + 1 + j = i + j - 1
      BY <1>2, <1>5
    <3> QED BY <1>7, <3>1
  <2>3. v = u
    BY <1>1, <2>1, <2>2, SeqEqual
  <2> QED BY <2>3 DEF v
<1>12. kk \in Conts
  BY <1>4 DEF Conts
<1>13. \A j \in DOMAIN p : kk[j + 1] = p[j]
  BY <1>1, <1>6
<1> QED BY <1>4, <1>8, <1>10, <1>11, <1>12, <1>13 DEF u, Placed

\* A jump leaves the scopes and statements up to the frame it stops at.
LEMMA JumpStep ==
    ASSUME NEW s \in LoopStmt, s.kind \in {"break", "continue"}, NEW p \in Conts, Clear(p, s.kind),
           NEW fr \in SFrames, Stops(fr, s.kind), NEW q \in Conts, NEW c
    PROVE  Reaches(State(On(Visit(s), p \o On(fr, q)), c),
                   State(IF s.kind = "break" THEN q ELSE On(fr, q), Begin(c, fr.depth)))
<1> DEFINE kk == On(Visit(s), p \o On(fr, q))
           i == Len(p) + 2
           I == {j \in 1 .. Len(kk) : Stops(kk[j], s.kind)}
<1>1. Visit(s) \in SFrames /\ p \o On(fr, q) \in Conts /\ Len(p) \in Nat /\ kk = On(Visit(s), p \o On(fr, q))
      /\ kk # << >> /\ Head(kk) = Visit(s)
  <2>1. Visit(s) \in SFrames /\ On(fr, q) \in Conts
    BY SFrameForms, OnParts
  <2>2. p \o On(fr, q) \in Conts /\ Len(p) \in Nat
    BY <2>1, ConcatProperties DEF Conts
  <2> QED BY <2>1, <2>2, OnParts
<1>3. i = Len(p) + 2
  OBVIOUS
<1> HIDE DEF kk, i
<1>0. Placed(kk, i, fr, q) /\ kk[1] = Visit(s) /\ \A j \in DOMAIN p : kk[j + 1] = p[j]
  BY <1>1, <1>3, FrameAt
<1>2. /\ kk \in Conts /\ i \in 1 .. Len(kk) /\ kk[i] = fr /\ kk[1] = Visit(s)
      /\ \A j \in 1 .. Len(p) : kk[j + 1] = p[j]
      /\ SubSeq(kk, i + 1, Len(kk)) = q /\ SubSeq(kk, i, Len(kk)) = On(fr, q)
  BY <1>0 DEF Placed, Conts
<1>4. Len(kk) \in Nat
  BY <1>2 DEF Conts
<1>5. Target(kk, s.kind) = i
  <2>1. i \in I
    BY <1>2
  <2>2. \A j \in I : i <= j
    <3> SUFFICES ASSUME NEW j \in I, j < i PROVE FALSE
      BY <1>1, <1>3, <1>4
    <3>1. ASSUME j = 1 PROVE FALSE
      <4>1. kk[j].op = "visit"
        BY <1>2, <3>1 DEF Visit
      <4> QED BY <4>1 DEF Stops
    <3>2. ASSUME j # 1 PROVE FALSE
      <4>1. j - 1 \in 1 .. Len(p) /\ j = (j - 1) + 1
        BY <1>1, <1>3, <1>4, <3>2
      <4>2. kk[j] = p[j - 1] /\ j - 1 \in DOMAIN p
        BY <1>2, <4>1, SMTT(60) DEF Conts
      <4> QED BY <4>2 DEF Clear
    <3> QED BY <3>1, <3>2
  <2>3. Min(I) = i
    <3>1. \E m \in I : \A j \in I : m =< j
      BY <2>1, <2>2
    <3>2. Min(I) \in I /\ \A j \in I : Min(I) =< j
      BY <3>1 DEF Min
    <3> QED BY <1>1, <1>3, <1>4, <2>1, <2>2, <3>2
  <2>4. Target(kk, s.kind) = IF I # {} THEN Min(I) ELSE 0
    BY DEF Target, SelectInSeq, Stops
  <2> QED BY <2>1, <2>3, <2>4
<1>6. Head(kk).op = "visit" /\ Head(kk).stmt = s
  BY <1>1 DEF Visit
<1>7. SourceEvent(kk) = Silent
  BY <1>1, <1>6 DEF SourceEvent
<1>8. SourceNext(kk, c) = [k |-> SubSeq(kk, IF s.kind = "break" THEN i + 1 ELSE i, Len(kk)),
                           env |-> SubSeq(c, 1, kk[i].depth)]
  BY <1>5, <1>6, JumpNext
<1>9. SubSeq(kk, IF s.kind = "break" THEN i + 1 ELSE i, Len(kk)) = IF s.kind = "break" THEN q ELSE On(fr, q)
  BY <1>2
<1>10. SourceNext(kk, c) = [k |-> IF s.kind = "break" THEN q ELSE On(fr, q), env |-> Begin(c, fr.depth)]
  BY <1>2, <1>8, <1>9 DEF Begin
<1>11. Reaches(State(kk, c), State(IF s.kind = "break" THEN q ELSE On(fr, q), Begin(c, fr.depth)))
  BY <1>7, <1>10, SourceGoes
<1> QED BY <1>11 DEF kk

-----------------------------------------------------------------------------
(* Ghosts *)

\* What is left of the source when a frame runs, the cleanups and the destinations.
Ghosts == [k : Conts, c : Seq(Name), bd : Seq(Dests), cd : Seq(Dests)]

\* One of the first n blocks starts at this point.
Starts(S, n, b, x) == b \in 1 .. n /\ S[b] = x

\* Scope d has the variables of c, and maybe more after them.
Wider(c, d) == \A i \in 0 .. Len(c) : i <= Len(d) /\ Begin(d, i) = Begin(c, i)

\* A jump of this kind in front of kk goes where the last of dests starts.
Lands(kind, kk, c, dests, S, n) ==
    \E p \in Conts, fr \in SFrames, q \in Conts :
       /\ kk = p \o On(fr, q) /\ Clear(p, kind) /\ Stops(fr, kind)
       /\ fr.depth \in 0 .. Len(c)
       /\ dests # << >> /\ dests[Len(dests)].depth = fr.depth
       /\ Starts(S, n, dests[Len(dests)].block,
                 P(IF kind = "break" THEN q ELSE On(fr, q), Begin(c, fr.depth)))

\* The jumps in the statements T do.
Exits(T, kk, x, S, n) ==
    /\ Lands("break", kk, x.c, x.bd, S, n)
    /\ T \subseteq NeverContinue \/ Lands("continue", kk, x.c, x.cd, S, n)

\* x and y are what is left of the source before and after frame fr.
Lowers(fr, x, y, S, n) ==
    /\ fr.op = "visit" =>
          /\ x.k = On(Visit(fr.stmt), y.k)
          /\ y.c = IF fr.stmt.kind = "var" THEN x.c \o fr.stmt.vars ELSE x.c
          /\ fr.stmt \notin FreeStmt => Exits({fr.stmt}, y.k, x, S, n)
    /\ fr.op = "bind" =>
          /\ \E s : /\ s.kind = "var" /\ Visit(s) \in SFrames
                    /\ s.vars = fr.vars /\ x.k = On(Visit(s), y.k)
          /\ y.c = x.c \o fr.vars
    /\ fr.op = "brace" =>
          /\ x.k = Visits(fr.rest) \o y.k /\ y.k # << >>
          /\ y.k[1].depth \in 0 .. Len(x.c) /\ y.k[1].depth <= Len(y.c)
          /\ Begin(x.c, y.k[1].depth) = Begin(y.c, y.k[1].depth)
          /\ fr.rest \notin Seq(FreeStmt) => Exits(ToSet(fr.rest), y.k, x, S, n)
    /\ fr.op = "endScope" =>
          /\ fr.depth \in 0 .. Len(x.c)
          /\ x.k = On(Leave(fr.depth), y.k) /\ y.c = Begin(x.c, fr.depth)
    /\ fr.op \notin {"visit", "bind", "brace", "endScope"} => y.c = x.c
    /\ fr.op = "branch" =>
          /\ fr.dest.depth \in 0 .. fr.top /\ fr.top <= Len(x.c)
          /\ fr.dest.block \in 1 .. n /\ S[fr.dest.block].live = Begin(x.c, fr.dest.depth)
    /\ fr.op \in {"ifTrueExit", "ifFalseExit", "complete", "endLoop"} => x.k = y.k
    /\ fr.op \in {"ifTrueExit", "ifFalseExit", "complete"} /\ fr.cond.cont # NoBlock =>
          Starts(S, n, fr.cond.cont, P(x.k, x.c))
    /\ fr.op = "ifTrueExit" /\ fr.cond.false # NoBlock =>
          /\ Starts(S, n, fr.cond.false, P(On(Visit(fr.else), y.k), x.c))
          /\ fr.else.kind # "var"
          /\ fr.else \notin FreeStmt => Exits({fr.else}, y.k, x, S, n)
    /\ fr.op = "endLoop" => Starts(S, n, fr.end, P(x.k, x.c))
    /\ fr.op = "loopBack" => Starts(S, n, fr.loop, P(x.k, x.c))
    /\ fr.op = "doCondition" =>
          \E s \in LoopStmt :
             /\ s.kind = "dowhile" /\ s.cond = fr.cond
             /\ x.k = On(Loop(s, Len(x.c)), y.k)
             /\ Starts(S, n, fr.loop, P(On(Visit(s.body), x.k), x.c))
             /\ Starts(S, n, fr.loop + 1, P(y.k, x.c))
    /\ fr.op \in {"forHead", "forEachHead"} => x.k = On(Loop(fr.stmt, Len(x.c)), y.k)
    /\ fr.op = "forInc" =>
          /\ \E s \in LoopStmt : s.inc = fr.call /\ x.k = On(Inc(s, Len(x.c)), y.k)
          /\ Starts(S, n, fr.inc, P(x.k, x.c))

\* The destinations after a frame.
Popped(dests) == SubSeq(dests, 1, Len(dests) - 1)

Link(fr, x, y, S, n) ==
    /\ x \in Ghosts /\ y \in Ghosts
    /\ y.bd = IF EndsLoop(fr) THEN Popped(x.bd) ELSE x.bd
    /\ y.cd = IF EndsLoop(fr) THEN Popped(x.cd) ELSE x.cd
    /\ Lowers(fr, x, y, S, n)

\* The frames fs lower the source from x to y.
Leads(fs, x, y, S, n) ==
    \E H : /\ H[1] = x /\ H[Len(fs) + 1] = y
           /\ \A i \in DOMAIN fs : Link(fs[i], H[i], H[i + 1], S, n)

\* The point the code is at when frame fr is about to run: of a declaration and the
\* end of a scope the source is already past, and its branch waits for it.
Now(fr, x, S) ==
    IF fr.op = "bind" THEN [src |-> State(Tail(x.k), x.c \o fr.vars), live |-> x.c]
    ELSE IF fr.op = "endScope"
         THEN [src |-> State(Tail(x.k), Begin(x.c, fr.depth)), live |-> x.c]
    ELSE IF fr.op = "branch"
         THEN [src |-> S[fr.dest.block].src, live |-> Begin(x.c, fr.top)]
    ELSE P(x.k, x.c)

\* The ghost of the frame that is next.
Present(x) == x \in Ghosts /\ x.c = cleanups /\ x.bd = breakDests /\ x.cd = continueDests

\* Where the function starts.
Outset(S) == S[Entry] = [src |-> State(<<Visit(prog.body)>>, prog.params), live |-> << >>]

\* The inductive invariant of the meaning: the code tells the source so far, and
\* the frames lower what is left of it.
SrcInv ==
    \E S, x, z : /\ Present(x) /\ z.k = << >> /\ Outset(S)
                 /\ Leads(todo, x, z, S, fn.n)
                 /\ Tells(fn, S, IF todo = << >> THEN P(x.k, x.c) ELSE Now(todo[1], x, S))

-----------------------------------------------------------------------------
\* A scope with more variables in it.
LEMMA WiderMore ==
    ASSUME NEW c \in Seq(Name)
    PROVE  /\ Len(c) \in Nat /\ Begin(c, Len(c)) = c /\ Wider(c, c)
           /\ \A vs \in Seq(Name) : c \o vs \in Seq(Name) /\ Wider(c, c \o vs)
<1>1. Len(c) \in Nat
  OBVIOUS
<1>2. Begin(c, Len(c)) = c
  BY SubSeqFull DEF Begin
<1>3. Wider(c, c)
  BY <1>1 DEF Wider
<1>4. ASSUME NEW vs \in Seq(Name) PROVE c \o vs \in Seq(Name) /\ Wider(c, c \o vs)
  <2> DEFINE d == c \o vs
  <2>1. d \in Seq(Name) /\ Len(d) = Len(c) + Len(vs) /\ \A j \in 1 .. Len(c) : d[j] = c[j]
    <3>1. /\ d \in Seq(Name) /\ Len(d) = Len(c) + Len(vs) /\ DOMAIN d = 1 .. Len(d)
          /\ \A j \in 1 .. Len(c) : d[j] = c[j]
          /\ \A j \in 1 .. Len(vs) : d[Len(c) + j] = vs[j]
      BY Concatenated
    <3> QED BY <3>1
  <2> HIDE DEF d
  <2>2. ASSUME NEW i \in 0 .. Len(c) PROVE i <= Len(d) /\ Begin(d, i) = Begin(c, i)
    <3>1. i \in 0 .. Len(d) /\ i <= Len(d)
      BY <2>1
    <3>2. /\ Begin(d, i) \in Seq(Name) /\ Len(Begin(d, i)) = i /\ \A j \in 1 .. i : Begin(d, i)[j] = d[j]
      BY <2>1, <3>1, BeginningOf DEF Begin
    <3>3. /\ Begin(c, i) \in Seq(Name) /\ Len(Begin(c, i)) = i /\ \A j \in 1 .. i : Begin(c, i)[j] = c[j]
      BY BeginningOf DEF Begin
    <3>4. \A j \in 1 .. i : Begin(d, i)[j] = Begin(c, i)[j]
      <4> TAKE j \in 1 .. i
      <4>1. j \in 1 .. Len(c)
        BY <1>1
      <4> QED BY <2>1, <3>2, <3>3, <4>1
    <3> QED BY <3>1, <3>2, <3>3, <3>4, SeqEqual
  <2> QED BY <2>1, <2>2 DEF Wider, d
<1> QED BY <1>1, <1>2, <1>3, <1>4

\* A jump lands there from inside more scopes and statements too.
LEMMA LandsOn ==
    ASSUME NEW kind, NEW kk, NEW c, NEW dests, NEW S, NEW n \in Nat, Lands(kind, kk, c, dests, S, n),
           NEW p \in Conts, Clear(p, kind), NEW d, Len(c) \in Nat, Len(d) \in Nat, Wider(c, d),
           NEW T, Agree(S, T, n), NEW m \in Nat, n <= m
    PROVE  Lands(kind, p \o kk, d, dests, T, m)
<1>1. PICK q \in Conts, fr \in SFrames, r \in Conts :
         /\ kk = q \o On(fr, r) /\ Clear(q, kind) /\ Stops(fr, kind)
         /\ fr.depth \in 0 .. Len(c)
         /\ dests # << >> /\ dests[Len(dests)].depth = fr.depth
         /\ Starts(S, n, dests[Len(dests)].block,
                   P(IF kind = "break" THEN r ELSE On(fr, r), Begin(c, fr.depth)))
  BY DEF Lands
<1> DEFINE u == On(fr, r)
           v == p \o q
           e == fr.depth
           to == IF kind = "break" THEN r ELSE u
<1>2. p \in Seq(SFrames) /\ q \in Seq(SFrames) /\ u \in Seq(SFrames)
  BY OnParts DEF Conts
<1>3. v \in Conts /\ Clear(v, kind)
  <2>1. /\ v \in Seq(SFrames) /\ Len(v) = Len(p) + Len(q) /\ DOMAIN v = 1 .. Len(v)
        /\ \A i \in 1 .. Len(p) + Len(q) : v[i] = IF i <= Len(p) THEN p[i] ELSE q[i - Len(p)]
    BY <1>2, ConcatProperties
  <2> HIDE DEF v
  <2>2. \A i \in DOMAIN v : ~Stops(v[i], kind)
    <3> TAKE i \in DOMAIN v
    <3>1. CASE i <= Len(p)
      BY <1>2, <2>1, <3>1 DEF Clear
    <3>2. CASE ~(i <= Len(p))
      <4>1. i - Len(p) \in DOMAIN q /\ v[i] = q[i - Len(p)]
        BY <1>2, <2>1, <3>2
      <4> QED BY <1>1, <4>1 DEF Clear
    <3> QED BY <3>1, <3>2
  <2> QED BY <2>1, <2>2 DEF Clear, Conts
<1>4. p \o kk = v \o u
  <2>1. kk = q \o u
    BY <1>1
  <2> HIDE DEF u
  <2> QED BY <1>2, <2>1, ConcatAssociative, SMTT(60)
<1>5. e \in 0 .. Len(d) /\ Begin(d, e) = Begin(c, e)
  BY <1>1 DEF Wider
<1>6. Starts(T, m, dests[Len(dests)].block, P(to, Begin(d, e)))
  <2>1. Starts(S, n, dests[Len(dests)].block, P(to, Begin(d, e)))
    BY <1>1, <1>5
  <2> QED BY <2>1 DEF Starts, Agree
<1> QED BY <1>1, <1>3, <1>4, <1>5, <1>6 DEF Lands

\* Frames a jump passes by.
Passed(p) == \A i \in DOMAIN p : p[i].op \notin {"loop", "inc"}

\* Jumps that have somewhere to go have it from inside more scopes and statements.
LEMMA ExitsOn ==
    ASSUME NEW T, NEW kk, NEW x \in Ghosts, NEW S, NEW n \in Nat, Exits(T, kk, x, S, n),
           NEW p \in Conts, Passed(p), NEW y \in Ghosts, y.bd = x.bd, y.cd = x.cd, Wider(x.c, y.c),
           NEW R, T \subseteq NeverContinue => R \subseteq NeverContinue,
           NEW U, Agree(S, U, n), NEW m \in Nat, n <= m
    PROVE  Exits(R, p \o kk, y, U, m)
<1>1. Clear(p, "break") /\ Clear(p, "continue")
  BY DEF Passed, Clear, Stops
<1>2. Len(x.c) \in Nat /\ Len(y.c) \in Nat
  BY DEF Ghosts
<1>3. \A kind \in {"break", "continue"} : \A dests :
         Lands(kind, kk, x.c, dests, S, n) => Lands(kind, p \o kk, y.c, dests, U, m)
  BY <1>1, <1>2, LandsOn
<1> QED BY <1>3 DEF Exits

\* The same without more in front.
LEMMA ExitsKept ==
    ASSUME NEW T, NEW kk \in Conts, NEW x \in Ghosts, NEW S, NEW n \in Nat, Exits(T, kk, x, S, n),
           NEW y \in Ghosts, y.bd = x.bd, y.cd = x.cd, Wider(x.c, y.c),
           NEW R, T \subseteq NeverContinue => R \subseteq NeverContinue,
           NEW U, Agree(S, U, n), NEW m \in Nat, n <= m
    PROVE  Exits(R, kk, y, U, m)
<1>1. << >> \in Conts /\ Passed(<< >>) /\ << >> \o kk = kk
  BY ListOn DEF Conts, Passed
<1>2. Exits(R, << >> \o kk, y, U, m)
  BY <1>1, ExitsOn
<1> QED BY <1>1, <1>2

\* Links hold when there are more blocks.
LEMMA LinkKept ==
    ASSUME NEW fr, NEW x, NEW y, NEW S, NEW n \in Nat, Link(fr, x, y, S, n),
           NEW T, Agree(S, T, n), NEW m \in Nat, n <= m
    PROVE  Link(fr, x, y, T, m)
<1>1. \A b, e : Starts(S, n, b, e) => Starts(T, m, b, e)
  BY DEF Starts, Agree
<1>2. x \in Ghosts /\ y \in Ghosts /\ x.c \in Seq(Name) /\ y.k \in Conts
  BY DEF Link, Ghosts
<1>3. \A R : Exits(R, y.k, x, S, n) => Exits(R, y.k, x, T, m)
  <2>1. Wider(x.c, x.c)
    BY <1>2, WiderMore
  <2> TAKE R
  <2>2. ASSUME Exits(R, y.k, x, S, n) PROVE Exits(R, y.k, x, T, m)
    BY <1>2, <2>1, <2>2, ExitsKept
  <2> QED BY <2>2
<1>4. fr.op = "branch" => fr.dest.block \in 1 .. m /\ T[fr.dest.block].live = S[fr.dest.block].live
  BY DEF Link, Lowers, Agree
<1>5. Lowers(fr, x, y, S, n)
  BY DEF Link
<1>6. Lowers(fr, x, y, T, m)
  <2>1. CASE fr.op \in {"visit", "bind", "brace", "endScope"}
    BY <1>3, <1>5, <2>1 DEF Lowers
  <2>2. CASE fr.op = "branch"
    BY <1>4, <1>5, <2>2 DEF Lowers
  <2>3. CASE fr.op \in {"ifTrueExit", "ifFalseExit", "complete"}
    BY <1>1, <1>3, <1>5, <2>3 DEF Lowers
  <2>4. CASE fr.op \in {"endLoop", "loopBack", "forHead", "forEachHead"}
    BY <1>1, <1>5, <2>4 DEF Lowers
  <2>5. CASE fr.op = "doCondition"
    BY <1>1, <1>5, <2>5 DEF Lowers
  <2>6. CASE fr.op = "forInc"
    BY <1>1, <1>5, <2>6 DEF Lowers
  <2>7. CASE fr.op \notin {"visit", "bind", "brace", "endScope", "branch", "ifTrueExit", "ifFalseExit", "complete",
                          "endLoop", "loopBack", "forHead", "forEachHead", "doCondition", "forInc"}
    BY <1>5, <2>7 DEF Lowers
  <2> QED BY <2>1, <2>2, <2>3, <2>4, <2>5, <2>6, <2>7
<1> QED BY <1>6 DEF Link

-----------------------------------------------------------------------------
\* Rows of ghosts.
LEMMA LeadsNone ==
    ASSUME NEW S, NEW n, NEW x
    PROVE  Leads(<< >>, x, x, S, n) /\ \A y : Leads(<< >>, x, y, S, n) => y = x
<1>1. Len(<< >>) + 1 = 1 /\ DOMAIN << >> = {} /\ <<x>>[1] = x
  OBVIOUS
<1>2. Leads(<< >>, x, x, S, n)
  BY <1>1 DEF Leads
<1>3. ASSUME NEW y, Leads(<< >>, x, y, S, n) PROVE y = x
  BY <1>1, <1>3 DEF Leads
<1> QED BY <1>2, <1>3

\* A row of one frame.
LEMMA LeadsOne ==
    ASSUME NEW fr, NEW x, NEW y, NEW S, NEW n, Link(fr, x, y, S, n)
    PROVE  Leads(<<fr>>, x, y, S, n)
<1> DEFINE H == <<x, y>>
<1>1. H[1] = x /\ H[2] = y /\ Len(<<fr>>) + 1 = 2 /\ DOMAIN <<fr>> = {1} /\ <<fr>>[1] = fr /\ 1 + 1 = 2
  OBVIOUS
<1> HIDE DEF H
<1>2. \A i \in DOMAIN <<fr>> : Link(<<fr>>[i], H[i], H[i + 1], S, n)
  BY <1>1
<1> QED BY <1>1, <1>2 DEF Leads

\* Two rows make one.
LEMMA LeadsBoth ==
    ASSUME NEW fs \in Seq(Frames), NEW gs \in Seq(Frames), NEW x, NEW y, NEW z, NEW S, NEW n,
           Leads(fs, x, y, S, n), Leads(gs, y, z, S, n)
    PROVE  Leads(fs \o gs, x, z, S, n)
<1> DEFINE l == Len(fs)
           m == Len(gs)
           u == fs \o gs
<1>1. PICK F : F[1] = x /\ F[l + 1] = y /\ \A i \in DOMAIN fs : Link(fs[i], F[i], F[i + 1], S, n)
  BY DEF Leads
<1>2. PICK G : G[1] = y /\ G[m + 1] = z /\ \A i \in DOMAIN gs : Link(gs[i], G[i], G[i + 1], S, n)
  BY DEF Leads
<1>3. l \in Nat /\ m \in Nat /\ DOMAIN fs = 1 .. l /\ DOMAIN gs = 1 .. m
  OBVIOUS
<1>4. /\ u \in Seq(Frames) /\ Len(u) = l + m /\ DOMAIN u = 1 .. Len(u)
      /\ \A i \in 1 .. l : u[i] = fs[i]
      /\ \A i \in 1 .. m : u[l + i] = gs[i]
  BY Concatenated
<1> HIDE DEF l, m, u
<1> DEFINE H == [i \in 1 .. l + m + 1 |-> IF i <= l THEN F[i] ELSE G[i - l]]
<1>5. \A i \in 1 .. l + 1 : H[i] = F[i]
  <2> TAKE i \in 1 .. l + 1
  <2>1. CASE i <= l
    BY <1>3, <2>1
  <2>2. CASE i = l + 1
    <3>1. i \in 1 .. l + m + 1 /\ ~(i <= l) /\ i - l = 1
      BY <1>3, <2>2
    <3> QED BY <1>1, <1>2, <2>2, <3>1
  <2> QED BY <1>3, <2>1, <2>2
<1>6. \A i \in 1 .. m + 1 : H[l + i] = G[i]
  <2> TAKE i \in 1 .. m + 1
  <2>1. l + i \in 1 .. l + m + 1 /\ ~(l + i <= l) /\ (l + i) - l = i
    BY <1>3
  <2> QED BY <2>1
<1> HIDE DEF H
<1>7. H[1] = x /\ H[Len(u) + 1] = z
  <2>1. 1 \in 1 .. l + 1 /\ m + 1 \in 1 .. m + 1 /\ l + (m + 1) = Len(u) + 1
    BY <1>3, <1>4
  <2> QED BY <1>1, <1>2, <1>5, <1>6, <2>1
<1>8. ASSUME NEW i \in DOMAIN u PROVE Link(u[i], H[i], H[i + 1], S, n)
  <2>1. CASE i <= l
    <3>1. i \in 1 .. l /\ i \in 1 .. l + 1 /\ i + 1 \in 1 .. l + 1
      BY <1>3, <1>4, <2>1
    <3>2. u[i] = fs[i] /\ H[i] = F[i] /\ H[i + 1] = F[i + 1] /\ i \in DOMAIN fs
      BY <1>3, <1>4, <1>5, <3>1
    <3> QED BY <1>1, <3>2
  <2>2. CASE ~(i <= l)
    <3> DEFINE j == i - l
    <3>1. j \in 1 .. m /\ j \in 1 .. m + 1 /\ j + 1 \in 1 .. m + 1 /\ l + j = i /\ l + (j + 1) = i + 1
      BY <1>3, <1>4, <2>2
    <3> HIDE DEF j
    <3>2. u[i] = gs[j] /\ H[i] = G[j] /\ H[i + 1] = G[j + 1] /\ j \in DOMAIN gs
      BY <1>3, <1>4, <1>6, <3>1
    <3> QED BY <1>2, <3>2
  <2> QED BY <2>1, <2>2
<1>9. Leads(u, x, z, S, n)
  BY <1>7, <1>8 DEF Leads
<1> QED BY <1>9 DEF u

\* A row of two frames.
LEMMA LeadsTwo ==
    ASSUME NEW a \in Frames, NEW b \in Frames, NEW x, NEW y, NEW z, NEW S, NEW n,
           Link(a, x, y, S, n), Link(b, y, z, S, n)
    PROVE  Leads(<<a, b>>, x, z, S, n) /\ <<a, b>> \in Seq(Frames)
<1>1. Leads(<<a>>, x, y, S, n) /\ Leads(<<b>>, y, z, S, n)
  BY LeadsOne
<1>2. <<a>> \in Seq(Frames) /\ <<b>> \in Seq(Frames)
  OBVIOUS
<1>3. Leads(<<a>> \o <<b>>, x, z, S, n)
  BY <1>1, <1>2, LeadsBoth
<1>4. <<a, b>> \in Seq(Frames)
  OBVIOUS
<1> QED BY <1>3, <1>4, PairOf

\* The first frame of a row, and the others.
LEMMA LeadsFirst ==
    ASSUME NEW fs \in Seq(Frames), fs # << >>, NEW x, NEW z, NEW S, NEW n, Leads(fs, x, z, S, n)
    PROVE  \E y : Link(fs[1], x, y, S, n) /\ Leads(Tail(fs), y, z, S, n)
<1>1. PICK H : /\ H[1] = x /\ H[Len(fs) + 1] = z
               /\ \A i \in DOMAIN fs : Link(fs[i], H[i], H[i + 1], S, n)
  BY DEF Leads
<1> DEFINE l == Len(fs)
           t == Tail(fs)
<1>2. /\ l \in Nat \ {0} /\ DOMAIN fs = 1 .. l
      /\ t \in Seq(Frames) /\ Len(t) = l - 1 /\ DOMAIN t = 1 .. l - 1
      /\ \A i \in 1 .. l - 1 : t[i] = fs[i + 1]
  BY HeadTailProperties, EmptySeq
<1> HIDE DEF t, l
<1> DEFINE G == [i \in 1 .. l |-> H[i + 1]]
<1>3. Link(fs[1], x, H[2], S, n)
  <2>1. 1 \in DOMAIN fs /\ 1 + 1 = 2
    BY <1>2
  <2> QED BY <1>1, <2>1
<1>4. G[1] = H[2] /\ G[Len(t) + 1] = z
  <2>1. 1 \in 1 .. l /\ Len(t) + 1 \in 1 .. l /\ (Len(t) + 1) + 1 = l + 1 /\ 1 + 1 = 2
    BY <1>2
  <2>2. G[1] = H[1 + 1] /\ G[Len(t) + 1] = H[(Len(t) + 1) + 1]
    BY <2>1
  <2> QED BY <1>1, <2>1, <2>2 DEF l
<1>5. ASSUME NEW i \in DOMAIN t PROVE Link(t[i], G[i], G[i + 1], S, n)
  <2>1. i \in 1 .. l - 1 /\ i \in 1 .. l /\ i + 1 \in 1 .. l /\ i + 1 \in DOMAIN fs
    BY <1>2
  <2>2. G[i] = H[i + 1] /\ G[i + 1] = H[(i + 1) + 1] /\ t[i] = fs[i + 1]
    BY <1>2, <2>1
  <2> QED BY <1>1, <2>1, <2>2
<1> HIDE DEF G
<1>6. Leads(t, H[2], z, S, n)
  BY <1>4, <1>5 DEF Leads
<1> QED BY <1>3, <1>6 DEF t

\* A row is one when there are more blocks.
LEMMA LeadsKept ==
    ASSUME NEW fs, NEW x, NEW y, NEW S, NEW n \in Nat, Leads(fs, x, y, S, n),
           NEW T, Agree(S, T, n), NEW m \in Nat, n <= m
    PROVE  Leads(fs, x, y, T, m)
BY LinkKept DEF Leads

\* The code that is at a ghost when its frame is next is past a declaration or the
\* end of a scope as far as the source goes.
LEMMA Arrives ==
    ASSUME NEW fr, fr.op # "branch", NEW x, NEW y, NEW S, NEW n, Link(fr, x, y, S, n)
    PROVE  Follows(P(x.k, x.c), Now(fr, x, S))
<1>1. x.k \in Conts /\ y.k \in Conts /\ x.c \in Seq(Name)
  BY DEF Link, Ghosts
<1>2. CASE fr.op = "bind"
  <2>1. PICK s : s.kind = "var" /\ Visit(s) \in SFrames /\ s.vars = fr.vars /\ x.k = On(Visit(s), y.k)
    BY <1>2 DEF Link, Lowers
  <2>2. Reaches(State(x.k, x.c), State(y.k, x.c \o fr.vars))
    BY <1>1, <2>1, VarStep
  <2>3. Tail(x.k) = y.k
    BY <1>1, <2>1, OnParts
  <2>4. Now(fr, x, S) = [src |-> State(y.k, x.c \o fr.vars), live |-> x.c]
    BY <1>2, <2>3 DEF Now
  <2> QED BY <2>2, <2>4 DEF Follows, P
<1>3. CASE fr.op = "endScope"
  <2>1. fr.depth \in Nat /\ x.k = On(Leave(fr.depth), y.k)
    BY <1>1, <1>3 DEF Link, Lowers
  <2>2. Reaches(State(x.k, x.c), State(y.k, Begin(x.c, fr.depth)))
    BY <1>1, <2>1, LeaveStep
  <2>3. Tail(x.k) = y.k
    <3>1. Leave(fr.depth) \in SFrames
      BY <2>1, SFrameForms
    <3> QED BY <1>1, <2>1, <3>1, OnParts
  <2>4. Now(fr, x, S) = [src |-> State(y.k, Begin(x.c, fr.depth)), live |-> x.c]
    BY <1>3, <2>3 DEF Now
  <2> QED BY <2>2, <2>4 DEF Follows, P
<1>4. CASE fr.op \notin {"bind", "endScope"}
  <2>1. Now(fr, x, S) = P(x.k, x.c)
    BY <1>4 DEF Now
  <2> QED BY <2>1, FollowsSelf
<1> QED BY <1>2, <1>3, <1>4

\* The invariant when a frame is next: x and y are the ghosts before and after it.
Ahead(S, x, y, z) ==
    /\ Present(x) /\ z.k = << >> /\ Outset(S)
    /\ Link(todo[1], x, y, S, fn.n) /\ Leads(Tail(todo), y, z, S, fn.n)
    /\ Tells(fn, S, Now(todo[1], x, S))

\* What the invariant says when there is a frame.
LEMMA SrcAt ==
    ASSUME GenInv, SrcInv, todo # << >>
    PROVE  \E S, x, y, z : Ahead(S, x, y, z)
<1>1. PICK S, x, z : /\ Present(x) /\ z.k = << >> /\ Outset(S) /\ Leads(todo, x, z, S, fn.n)
                     /\ Tells(fn, S, IF todo = << >> THEN P(x.k, x.c) ELSE Now(todo[1], x, S))
  BY DEF SrcInv
<1>2. todo \in Seq(Frames)
  BY DEF GenInv, StackFits
<1>3. PICK y : Link(todo[1], x, y, S, fn.n) /\ Leads(Tail(todo), y, z, S, fn.n)
  BY <1>1, <1>2, LeadsFirst
<1>4. Tells(fn, S, Now(todo[1], x, S))
  BY <1>1
<1>5. Ahead(S, x, y, z)
  BY <1>1, <1>3, <1>4 DEF Ahead
<1> QED BY <1>5

\* The first frame is replaced by fs.
LEMMA SrcGoes ==
    ASSUME GenInv, todo # << >>, NEW S, NEW x, NEW y, NEW z, Ahead(S, x, y, z),
           NEW fs \in Seq(Frames), todo' = fs \o Tail(todo), UNCHANGED prog,
           NEW T, Agree(S, T, fn.n), fn.n <= fn'.n, fn'.n \in Nat,
           NEW w, Present(w)', Leads(fs, w, y, T, fn'.n),
           \/ (fs # << >> => fs[1].op # "branch") /\ Tells(fn', T, P(w.k, w.c))
           \/ fs # << >> /\ Tells(fn', T, Now(fs[1], w, T))
    PROVE  SrcInv'
<1>1. todo \in Seq(Frames) /\ Sound(fn) /\ StackFits(todo, fn)
  BY DEF GenInv, StackFits
<1>2. Tail(todo) \in Seq(Frames) /\ fn.n \in Nat /\ Entry \in 1 .. fn.n
  <2>1. Tail(todo) \in Seq(Frames)
    BY <1>1, HeadTailProperties
  <2>2. fn.n \in Nat /\ Entry \in 1 .. fn.n
    BY <1>1, SoundCounts DEF Sound
  <2> QED BY <2>1, <2>2
<1>3. Leads(Tail(todo), y, z, T, fn'.n)
  BY <1>2, LeadsKept DEF Ahead
<1>4. Leads(todo', w, z, T, fn'.n)
  BY <1>2, <1>3, LeadsBoth
<1>5. Outset(T)'
  <2>1. T[Entry] = S[Entry]
    BY <1>2 DEF Agree
  <2> QED BY <2>1 DEF Ahead, Outset
<1>6. Tells(fn', T, IF todo' = << >> THEN P(w.k, w.c) ELSE Now(todo'[1], w, T))
  <2>1. CASE fs = << >>
    <3>1. todo' = Tail(todo) /\ w = y /\ Tells(fn', T, P(w.k, w.c))
      <4>1. << >> \o Tail(todo) = Tail(todo)
        BY <1>2, ConcatEmptySeq
      <4> QED BY <2>1, <4>1, LeadsNone
    <3>2. CASE todo' = << >>
      BY <3>1, <3>2
    <3>3. CASE todo' # << >>
      <4>1. todo'[1].op # "branch"
        BY <1>1, <2>1, <3>3, NoBranchNext
      <4>2. PICK v : Link(todo'[1], w, v, T, fn'.n)
        BY <1>2, <1>3, <3>1, <3>3, LeadsFirst
      <4>3. Follows(P(w.k, w.c), Now(todo'[1], w, T))
        BY <4>1, <4>2, Arrives
      <4>4. Tells(fn', T, Now(todo'[1], w, T))
        BY <3>1, <4>3, TellsOn
      <4> QED BY <3>3, <4>4
    <3> QED BY <3>2, <3>3
  <2>2. CASE fs # << >>
    <3>1. todo' # << >> /\ todo'[1] = fs[1]
      BY <1>1, <2>2, PushFirst
    <3>2. ASSUME fs[1].op # "branch", Tells(fn', T, P(w.k, w.c)) PROVE Tells(fn', T, Now(fs[1], w, T))
      <4>1. PICK v : Link(fs[1], w, v, T, fn'.n)
        BY <2>2, LeadsFirst
      <4>2. Follows(P(w.k, w.c), Now(fs[1], w, T))
        BY <3>2, <4>1, Arrives
      <4> QED BY <3>2, <4>2, TellsOn
    <3>3. Tells(fn', T, Now(fs[1], w, T))
      BY <2>2, <3>2
    <3> QED BY <3>1, <3>3
  <2> QED BY <2>1, <2>2
<1>7. z.k = << >>
  BY DEF Ahead
<1> QED BY <1>4, <1>5, <1>6, <1>7 DEF SrcInv

-----------------------------------------------------------------------------
(* The visitors *)

\* Statements with no continue for the loop around them have such parts.
LEMMA NeverParts ==
    ASSUME NEW s \in NeverContinue
    PROVE  /\ s.kind # "continue"
           /\ s.kind = "brace" => ToSet(s.body) \subseteq NeverContinue
           /\ s.kind = "if" => /\ s.then \in NeverContinue
                               /\ s.else # NoStmt => s.else \in NeverContinue
<1>1. PICK T \in SUBSET LoopStmt : ContinueFree(T) /\ s \in T
  BY DEF NeverContinue
<1>2. T \subseteq NeverContinue
  BY <1>1 DEF NeverContinue
<1> QED BY <1>1, <1>2 DEF ContinueFree

\* What is known when a frame is about to run.
LEMMA AheadParts ==
    ASSUME GenInv, todo # << >>, NEW S, NEW x, NEW y, NEW z, Ahead(S, x, y, z)
    PROVE  /\ todo[1] = Head(todo) /\ todo[1] \in Frames /\ (NeedsIP(todo[1]) => HasValidIP(fn))
           /\ Sound(fn) /\ fn \in FunctionType /\ fn.n \in Nat /\ Agree(S, S, fn.n)
           /\ x \in Ghosts /\ y \in Ghosts /\ x.k \in Conts /\ y.k \in Conts
           /\ x.c \in Seq(Name) /\ Len(x.c) \in Nat /\ y.c \in Seq(Name) /\ Wider(x.c, x.c)
           /\ x.c = cleanups /\ x.bd = breakDests /\ x.cd = continueDests
           /\ ~EndsLoop(todo[1]) => y.bd = x.bd /\ y.cd = x.cd
           /\ Lowers(todo[1], x, y, S, fn.n) /\ Tells(fn, S, Now(todo[1], x, S))
<1>1. /\ todo[1] = Head(todo) /\ todo[1] \in Frames /\ (NeedsIP(todo[1]) => HasValidIP(fn)) /\ Sound(fn)
  BY GenInvParts
<1>2. fn \in FunctionType /\ fn.n \in Nat
  BY <1>1, SoundFields
<1>3. Agree(S, S, fn.n)
  BY DEF Agree
<1>4. Link(todo[1], x, y, S, fn.n) /\ Present(x) /\ Tells(fn, S, Now(todo[1], x, S))
  BY DEF Ahead
<1>5. x \in Ghosts /\ y \in Ghosts
  BY <1>4 DEF Link
<1>6. x.k \in Conts /\ y.k \in Conts /\ x.c \in Seq(Name) /\ y.c \in Seq(Name)
  BY <1>5 DEF Ghosts
<1>7. Len(x.c) \in Nat /\ Wider(x.c, x.c)
  BY <1>6, WiderMore
<1>8. x.c = cleanups /\ x.bd = breakDests /\ x.cd = continueDests
  BY <1>4 DEF Present
<1>9. Lowers(todo[1], x, y, S, fn.n) /\ (~EndsLoop(todo[1]) => y.bd = x.bd /\ y.cd = x.cd)
  BY <1>4 DEF Link
<1> QED BY <1>1, <1>2, <1>3, <1>4, <1>5, <1>6, <1>7, <1>8, <1>9

\* A ghost with another continuation and scope.
LEMMA GhostWith ==
    ASSUME NEW x \in Ghosts, NEW kk \in Conts, NEW c \in Seq(Name)
    PROVE  \E w \in Ghosts : w.k = kk /\ w.c = c /\ w.bd = x.bd /\ w.cd = x.cd
<1> DEFINE w == [x EXCEPT !.k = kk, !.c = c]
<1>1. w \in Ghosts /\ w.k = kk /\ w.c = c /\ w.bd = x.bd /\ w.cd = x.cd
  BY DEF Ghosts
<1> QED BY <1>1

\* A link of a frame that ends no loop.
LEMMA LinkOf ==
    ASSUME NEW fr, NEW x \in Ghosts, NEW y \in Ghosts, NEW S, NEW n, Lowers(fr, x, y, S, n),
           ~EndsLoop(fr), y.bd = x.bd, y.cd = x.cd
    PROVE  Link(fr, x, y, S, n)
BY DEF Link

\* The first frame goes.
LEMMA SrcDrops ==
    ASSUME GenInv, todo # << >>, NEW S, NEW x, NEW y, NEW z, Ahead(S, x, y, z),
           Then(<< >>), UNCHANGED prog, fn'.n = fn.n, Present(y)', Tells(fn', S, P(y.k, y.c))
    PROVE  SrcInv'
<1>1. << >> \in Seq(Frames) /\ Leads(<< >>, y, y, S, fn'.n)
  BY LeadsNone
<1>2. fn.n \in Nat /\ Agree(S, S, fn.n) /\ fn.n <= fn.n
  BY AheadParts
<1>3. todo' = << >> \o Tail(todo)
  BY DEF Then
<1> QED BY <1>1, <1>2, <1>3, SrcGoes

\* One frame goes in its place.
LEMMA SrcMoves ==
    ASSUME GenInv, todo # << >>, NEW S, NEW x, NEW y, NEW z, Ahead(S, x, y, z),
           NEW to \in Frames, Then(<<to>>), UNCHANGED prog, fn'.n = fn.n,
           NEW w, Present(w)', Link(to, w, y, S, fn.n),
           \/ to.op # "branch" /\ Tells(fn', S, P(w.k, w.c))
           \/ Tells(fn', S, Now(to, w, S))
    PROVE  SrcInv'
<1> DEFINE fs == <<to>>
<1>1. fs \in Seq(Frames) /\ fs # << >> /\ fs[1] = to
  OBVIOUS
<1>2. Leads(fs, w, y, S, fn'.n)
  BY LeadsOne
<1>3. todo' = fs \o Tail(todo)
  BY DEF Then
<1> HIDE DEF fs
<1>4. fn.n \in Nat /\ Agree(S, S, fn.n) /\ fn.n <= fn.n
  BY AheadParts
<1> QED BY <1>1, <1>2, <1>3, <1>4, SrcGoes

\* Two frames do.
LEMMA SrcSplits ==
    ASSUME GenInv, todo # << >>, NEW S, NEW x, NEW y, NEW z, Ahead(S, x, y, z),
           NEW a \in Frames, NEW b \in Frames, Then(<<a, b>>), UNCHANGED prog, fn'.n = fn.n,
           NEW w, Present(w)', NEW m, Link(a, w, m, S, fn.n), Link(b, m, y, S, fn.n),
           a.op # "branch", Tells(fn', S, P(w.k, w.c))
    PROVE  SrcInv'
<1> DEFINE fs == <<a, b>>
<1>1. fs # << >> /\ fs[1] = a
  OBVIOUS
<1>2. Leads(fs, w, y, S, fn'.n) /\ fs \in Seq(Frames)
  BY LeadsTwo
<1>3. todo' = fs \o Tail(todo)
  BY DEF Then
<1> HIDE DEF fs
<1>4. fn.n \in Nat /\ Agree(S, S, fn.n) /\ fn.n <= fn.n
  BY AheadParts
<1> QED BY <1>1, <1>2, <1>3, <1>4, SrcGoes

\* An assertion that trips leaves everything as it was.
LEMMA AbortMeans ==
    ASSUME SrcInv, NEW what, Abort(what)
    PROVE  SrcInv'
BY DEF SrcInv, Abort, Present, Outset

\* A call is the one the source is about to make.
LEMMA VisitExprMeans ==
    ASSUME GenInv, SrcInv, VisitExpr
    PROVE  SrcInv'
<1>1. todo # << >> /\ Head(todo).op = "visit" /\ Head(todo).stmt.kind = "call"
  BY DEF VisitExpr, Visiting, Running
<1>2. PICK S, x, y, z : Ahead(S, x, y, z)
  BY <1>1, SrcAt
<1>0. Lowers(todo[1], x, y, S, fn.n) /\ Tells(fn, S, Now(todo[1], x, S))
  BY <1>1, <1>2, AheadParts
<1> DEFINE s == Head(todo).stmt
<1>3. s \in LoopStmt /\ s.id \in Name /\ todo[1] = Head(todo) /\ HasValidIP(fn) /\ ~EndsLoop(todo[1])
  BY <1>1, <1>2, AheadParts, FrameFields, StatementParts DEF NeedsIP, EndsLoop
<1>4. fn' = Emit(fn, "apply", s.id) /\ Then(<< >>) /\ UNCHANGED <<prog, cleanups, breakDests, continueDests>>
  BY DEF VisitExpr, Stmt, SameCleanups, SameDests, Fine
<1>5. x.k = On(Visit(s), y.k) /\ y.c = x.c /\ Tells(fn, S, P(x.k, x.c))
  BY <1>0, <1>1, <1>3 DEF Lowers, Now
<1>6. Visit(s) \in SFrames
  BY <1>3, SFrameForms
<1>7. SourceEvent(x.k) = Event("apply", s.id) /\ Tail(x.k) = y.k
  BY <1>1, <1>2, <1>5, <1>6, AheadParts, StatementEvents
<1>8. Conducts(Plain("apply", s.id), P(x.k, x.c), P(y.k, y.c), S)
  <2>1. Awaits(P(x.k, x.c), Event("apply", s.id), State(x.k, x.c))
    BY <1>7, ReachesSelf DEF Awaits, P, State
  <2>2. P(y.k, y.c) = [src |-> State(Tail(State(x.k, x.c).k), State(x.k, x.c).env), live |-> P(x.k, x.c).live]
    BY <1>5, <1>7 DEF P, State
  <2>3. \E u : /\ Awaits(P(x.k, x.c), Event("apply", s.id), u)
               /\ P(y.k, y.c) = [src |-> State(Tail(u.k), u.env), live |-> P(x.k, x.c).live]
    BY <2>1, <2>2
  <2>4. Plain("apply", s.id).op = "apply" /\ Plain("apply", s.id).id = s.id
    BY DEF Plain
  <2> HIDE DEF s
  <2> QED BY <2>3, <2>4 DEF Conducts
<1> HIDE DEF s
<1>9. Tells(fn', S, P(y.k, y.c)) /\ fn'.n = fn.n
  <2>1. fn \in FunctionType /\ Sound(fn) /\ "apply" \in PlainOps
    BY <1>1, <1>2, AheadParts DEF PlainOps
  <2> QED BY <1>3, <1>4, <1>5, <1>8, <2>1, EmitTells, PlainSound
<1>10. Present(y)'
  BY <1>1, <1>2, <1>3, <1>4, <1>5, AheadParts DEF Present
<1> QED BY <1>1, <1>2, <1>4, <1>9, <1>10, SrcDrops

\* A pattern binding.
LEMMA VisitPatternBindingMeans ==
    ASSUME GenInv, SrcInv, VisitPatternBinding
    PROVE  SrcInv'
<1>1. todo # << >> /\ Head(todo).op = "visit" /\ Head(todo).stmt.kind = "var"
  BY DEF VisitPatternBinding, Visiting, Running
<1>2. PICK S, x, y, z : Ahead(S, x, y, z)
  BY <1>1, SrcAt
<1>0. Lowers(todo[1], x, y, S, fn.n) /\ Tells(fn, S, Now(todo[1], x, S))
  BY <1>1, <1>2, AheadParts
<1>s. PICK s : s = Head(todo).stmt
  OBVIOUS
<1> DEFINE to == Bind(s.vars)
<1>3. s \in LoopStmt /\ s.vars \in Seq(Name) /\ todo[1] = Head(todo) /\ ~EndsLoop(todo[1])
  BY <1>1, <1>2, AheadParts, FrameFields, StatementParts, <1>s DEF EndsLoop
<1>4. Then(<<to>>) /\ UNCHANGED <<fn, prog, cleanups, breakDests, continueDests>>
  BY <1>s, SMTT(30) DEF VisitPatternBinding, Stmt, SameCleanups, SameDests, Fine
<1>5. x.k = On(Visit(s), y.k) /\ y.c = x.c \o s.vars /\ Tells(fn, S, P(x.k, x.c))
  BY <1>s, <1>0, <1>1, <1>3 DEF Lowers, Now
<1>6. Visit(s) \in SFrames /\ to \in Frames /\ to.op = "bind" /\ to.vars = s.vars
  BY <1>3, SFrameForms, FrameForms DEF Bind
<1> HIDE DEF to
<1>7. Link(to, x, y, S, fn.n)
  <2>1. Lowers(to, x, y, S, fn.n) /\ ~EndsLoop(to)
    BY <1>1, <1>s, <1>5, <1>6 DEF Lowers, EndsLoop
  <2> QED BY <1>1, <1>2, <1>3, <2>1, AheadParts, LinkOf
<1>8. Present(x)'
  BY <1>1, <1>2, <1>4, AheadParts DEF Present
<1> QED BY <1>1, <1>2, <1>4, <1>5, <1>6, <1>7, <1>8, SrcMoves

\* The variables of a pattern come into the scope one after the other; the source is
\* past their declaration already.
LEMMA BindVarMeans ==
    ASSUME GenInv, SrcInv, BindVar
    PROVE  SrcInv'
<1>1. todo # << >> /\ Head(todo).op = "bind"
  BY DEF BindVar, Running
<1>2. PICK S, x, y, z : Ahead(S, x, y, z)
  BY <1>1, SrcAt
<1>0. Lowers(todo[1], x, y, S, fn.n) /\ Tells(fn, S, Now(todo[1], x, S))
  BY <1>1, <1>2, AheadParts
<1>v. PICK vs : vs = Head(todo).vars
  OBVIOUS
<1>3. vs \in Seq(Name) /\ todo[1] = Head(todo) /\ HasValidIP(fn) /\ ~EndsLoop(todo[1])
  BY <1>1, <1>2, AheadParts, FrameFields, <1>v DEF NeedsIP, EndsLoop
<1>4. UNCHANGED <<prog, breakDests, continueDests>>
  BY DEF BindVar, SameDests, Fine
<1>5. PICK s : s.kind = "var" /\ Visit(s) \in SFrames /\ s.vars = vs /\ x.k = On(Visit(s), y.k)
  BY <1>v, <1>0, <1>1, <1>3 DEF Lowers
<1>6. y.c = x.c \o vs
  BY <1>v, <1>0, <1>1, <1>3 DEF Lowers
<1>7. Tail(x.k) = y.k
  BY <1>1, <1>2, <1>5, AheadParts, OnParts
<1>8. Tells(fn, S, [src |-> State(y.k, y.c), live |-> x.c])
  BY <1>1, <1>2, <1>3, <1>v, <1>6, <1>7, AheadParts DEF Now
<1>9. CASE vs = << >>
  <2>1. Then(<< >>) /\ UNCHANGED <<fn, cleanups>>
    BY <1>v, <1>9 DEF BindVar, Frame, SameCleanups
  <2>2. y.c = x.c
    BY <1>1, <1>2, <1>6, <1>9, AheadParts, ConcatEmptySeq
  <2>3. Present(y)' /\ Tells(fn', S, P(y.k, y.c))
    BY <1>1, <1>2, <1>3, <1>4, <1>8, <2>1, <2>2, AheadParts DEF Present, P
  <2> QED BY <1>1, <1>2, <1>4, <2>1, <2>3, SrcDrops
<1>10. CASE vs # << >>
  <2> DEFINE v == Head(vs)
             f == Emit(fn, "alloc", v)
             to == Bind(Tail(vs))
             d == Append(x.c, v)
             r == On(Visit(Vars(Tail(vs))), y.k)
             at == [src |-> State(y.k, y.c), live |-> d]
  <2>1. fn' = Emit(f, "init", v) /\ cleanups' = Append(cleanups, v) /\ Then(<<to>>)
    BY <1>v, <1>10 DEF BindVar, Frame
  <2>2. v \in Name /\ Tail(vs) \in Seq(Name)
    BY <1>3, <1>10
  <2>3. to \in Frames /\ to.op = "bind" /\ to.vars = Tail(vs)
    BY <2>2, FrameForms DEF Bind
  <2>4. Visit(Vars(Tail(vs))) \in SFrames /\ Vars(Tail(vs)).kind = "var" /\ Vars(Tail(vs)).vars = Tail(vs)
    BY <2>2, SFrameForms DEF Vars
  <2>5. r \in Conts /\ Tail(r) = y.k
    BY <1>1, <1>2, <2>4, AheadParts, OnParts
  <2>6. d \in Seq(Name)
    BY <1>1, <1>2, <2>2, AheadParts
  <2>7. d \o Tail(vs) = y.c
    BY <1>1, <1>2, <1>3, <1>6, <1>10, AheadParts, BindLast
  <2>8. PICK w \in Ghosts : w.k = r /\ w.c = d /\ w.bd = x.bd /\ w.cd = x.cd
    <3>1. x \in Ghosts
      BY <1>1, <1>2, AheadParts
    <3> HIDE DEF d, r
    <3> QED BY <2>5, <2>6, <3>1, GhostWith
  <2> HIDE DEF to
  <2>9. Link(to, w, y, S, fn.n)
    <3>1. Lowers(to, w, y, S, fn.n) /\ ~EndsLoop(to)
      BY <2>3, <2>4, <2>7, <2>8 DEF Lowers, EndsLoop
    <3> QED BY <1>1, <1>2, <1>3, <2>8, <3>1, AheadParts, LinkOf
  <2>10. Present(w)'
    BY <1>1, <1>2, <1>4, <2>1, <2>8, AheadParts DEF Present
  <2>11. Sound(fn) /\ fn \in FunctionType /\ {"alloc", "init"} \subseteq PlainOps
    BY <1>1, <1>2, AheadParts DEF PlainOps
  <2>12. Tells(f, S, at)
    <3>1. Conducts(Plain("alloc", v), [src |-> State(y.k, y.c), live |-> x.c], at, S)
      BY DEF Conducts, Plain
    <3> QED BY <1>3, <1>8, <2>2, <2>11, <3>1, EmitTells
  <2>13. Sound(f) /\ f \in FunctionType /\ f.n = fn.n
    BY <2>2, <2>11, PlainSound, SoundFields
  <2>14. Tells(fn', S, at) /\ fn'.n = fn.n
    <3>1. Conducts(Plain("init", v), at, at, S)
      BY DEF Conducts, Plain
    <3> HIDE DEF f, at
    <3> QED BY <2>1, <2>2, <2>11, <2>12, <2>13, <3>1, EmitTells, PlainSound
  <2>15. Now(to, w, S) = at
    BY <2>3, <2>5, <2>7, <2>8 DEF Now
  <2> QED BY <1>1, <1>2, <1>4, <2>1, <2>3, <2>9, <2>10, <2>14, <2>15, SrcMoves
<1> QED BY <1>9, <1>10

\* The scope of a brace, and its elements.
LEMMA VisitBraceMeans ==
    ASSUME GenInv, SrcInv, VisitBrace
    PROVE  SrcInv'
<1>1. todo # << >> /\ Head(todo).op = "visit" /\ Head(todo).stmt.kind = "brace"
  BY DEF VisitBrace, Visiting, Running
<1>2. PICK S, x, y, z : Ahead(S, x, y, z)
  BY <1>1, SrcAt
<1>0. Lowers(todo[1], x, y, S, fn.n) /\ Tells(fn, S, Now(todo[1], x, S))
  BY <1>1, <1>2, AheadParts
<1>s. PICK s : s = Head(todo).stmt
  OBVIOUS
<1> DEFINE d == Len(x.c)
           a == [op |-> "brace", rest |-> s.body, first |-> TRUE]
           b == [op |-> "endScope", depth |-> d]
           l == On(Leave(d), y.k)
           r == Visits(s.body) \o l
<1>3. s \in LoopStmt /\ s.body \in Seq(LoopStmt) /\ todo[1] = Head(todo) /\ ~EndsLoop(todo[1])
  BY <1>1, <1>2, AheadParts, FrameFields, StatementParts, <1>s DEF EndsLoop
<1>4. Then(<<a, b>>) /\ UNCHANGED <<fn, prog, cleanups, breakDests, continueDests>>
  <2>1. d = Depth
    BY <1>1, <1>2, AheadParts DEF Depth
  <2>2. Then(Scoped(<<a>>))
    BY <1>s DEF VisitBrace, Stmt
  <2>3. Scoped(<<a>>) = <<a, b>>
    BY <2>1, PairOf DEF Scoped
  <2> QED BY <2>2, <2>3 DEF VisitBrace, SameCleanups, SameDests, Fine
<1>5. /\ x.k = On(Visit(s), y.k) /\ y.c = x.c /\ Tells(fn, S, P(x.k, x.c))
      /\ s \notin FreeStmt => Exits({s}, y.k, x, S, fn.n)
  BY <1>s, <1>0, <1>1, <1>3 DEF Lowers, Now
<1>6. d \in Nat /\ x.c \in Seq(Name) /\ y.k \in Conts /\ fn.n \in Nat /\ x \in Ghosts /\ y \in Ghosts
      /\ Agree(S, S, fn.n) /\ y.bd = x.bd /\ y.cd = x.cd /\ x.c = cleanups /\ Wider(x.c, x.c)
      /\ x.bd = breakDests /\ x.cd = continueDests
  BY <1>1, <1>2, <1>3, AheadParts
<1>7. Leave(d) \in SFrames /\ Leave(d).op = "leave" /\ Leave(d).depth = d
  BY <1>6, SFrameForms DEF Leave
<1>8. l \in Conts /\ l # << >> /\ l[1] = Leave(d)
  BY <1>6, <1>7, OnParts
<1>9. r \in Conts
  BY <1>3, <1>8, VisitsParts
<1> HIDE DEF l, r
<1>10. PICK w \in Ghosts : w.k = r /\ w.c = x.c /\ w.bd = x.bd /\ w.cd = x.cd
  BY <1>6, <1>9, GhostWith
<1>m. PICK m \in Ghosts : m.k = l /\ m.c = x.c /\ m.bd = x.bd /\ m.cd = x.cd
  BY <1>6, <1>8, GhostWith
<1>11. a \in Frames /\ b \in Frames
  BY <1>3, <1>6, FrameForms
<1>12. s.body \notin Seq(FreeStmt) => Exits(ToSet(s.body), l, w, S, fn.n)
  <2> HAVE s.body \notin Seq(FreeStmt)
  <2>1. s \notin FreeStmt
    BY <1>1, <1>s, FreeParts
  <2> DEFINE p == <<Leave(d)>>
  <2>2. p \in Conts /\ Passed(p) /\ l = p \o y.k
    <3>1. DOMAIN p = {1} /\ p[1] = Leave(d)
      OBVIOUS
    <3> QED BY <1>7, <3>1 DEF Conts, Passed, On, l
  <2> HIDE DEF p
  <2>3. {s} \subseteq NeverContinue => ToSet(s.body) \subseteq NeverContinue
    BY <1>1, <1>s, NeverParts
  <2>4. fn.n <= fn.n
    BY <1>6
  <2>5. Exits(ToSet(s.body), p \o y.k, w, S, fn.n)
    BY <1>5, <1>6, <1>10, <2>1, <2>2, <2>3, <2>4, ExitsOn
  <2> QED BY <2>2, <2>5
<1>13. Link(a, w, m, S, fn.n)
  <2>1. a.op = "brace" /\ a.rest = s.body
    OBVIOUS
  <2>2. d \in 0 .. Len(x.c) /\ d <= Len(x.c)
    BY <1>6
  <2> HIDE DEF a, d
  <2> QED BY <1>7, <1>8, <1>10, <1>m, <1>12, <2>1, <2>2 DEF Link, Lowers, EndsLoop, r
<1>14. Link(b, m, y, S, fn.n)
  <2>1. b.op = "endScope" /\ b.depth = d
    OBVIOUS
  <2>2. y.c = Begin(x.c, d) /\ d \in 0 .. Len(x.c)
    BY <1>5, <1>6, WiderMore
  <2> HIDE DEF b, d
  <2> QED BY <1>6, <1>m, <2>1, <2>2 DEF Link, Lowers, EndsLoop, l
<1>15. Tells(fn', S, P(w.k, w.c))
  <2>1. Reaches(State(x.k, x.c), State(Visits(s.body) \o l, x.c))
    BY <1>1, <1>s, <1>3, <1>5, <1>6, BraceStep DEF l
  <2>2. Follows(P(x.k, x.c), P(w.k, w.c))
    BY <1>10, <2>1 DEF Follows, P, r
  <2> QED BY <1>4, <1>5, <2>2, TellsOn
<1>16. Present(w)'
  BY <1>4, <1>6, <1>10 DEF Present
<1> QED BY <1>1, <1>2, <1>4, <1>11, <1>13, <1>14, <1>15, <1>16, SrcSplits

\* The frame after the elements of a brace ends its scope.
LEMMA AfterBrace ==
    ASSUME GenInv, MemInv, todo # << >>, todo[1].op = "brace"
    PROVE  Tail(todo) \in Seq(Frames) /\ Tail(todo) # << >> /\ Tail(todo)[1].op = "endScope"
<1>1. todo \in Seq(Frames) /\ ScopesFit(todo, cleanups, prog) /\ prog \in Program
  BY DEF GenInv, StackFits
<1>2. InBody(todo, cleanups, prog)
  BY <1>1, InsideBody
<1>3. Len(todo) # 1 /\ Len(todo) \in Nat \ {0} /\ DOMAIN todo = 1 .. Len(todo)
  BY <1>1, <1>2 DEF InBody
<1>4. 1 \in DOMAIN todo /\ 1 + 1 \in DOMAIN todo /\ 1 + 1 = 2
  BY <1>3
<1>5. PICK M, sc : ScopesOf(todo, sc, cleanups)
  BY DEF MemInv, MemFits
<1>6. After(todo[1], todo[2], sc[1], sc[2])
  BY <1>4, <1>5 DEF ScopesOf
<1>7. todo[2].op = "endScope"
  BY <1>6 DEF After, Binds
<1>8. Tail(todo) \in Seq(Frames) /\ Len(Tail(todo)) = Len(todo) - 1 /\ Tail(todo)[1] = todo[2]
  BY <1>1, <1>3, HeadTailProperties, EmptySeq
<1> QED BY <1>3, <1>7, <1>8

\* What is left of the brace when it ends is of no concern to the end of its scope.
LEMMA BraceEndMeans ==
    ASSUME GenInv, MemInv, SrcInv, todo # << >>, todo[1].op = "brace", BraceEnds,
           Then(<< >>), UNCHANGED <<fn, prog, cleanups, breakDests, continueDests>>
    PROVE  SrcInv'
<1>1. PICK S, x, y, z : Ahead(S, x, y, z)
  BY SrcAt
<1>2. Lowers(todo[1], x, y, S, fn.n) /\ Tells(fn, S, Now(todo[1], x, S)) /\ todo[1] = Head(todo)
  BY <1>1, AheadParts
<1>3. x \in Ghosts /\ y \in Ghosts /\ x.c \in Seq(Name) /\ y.k \in Conts /\ x.c = cleanups
      /\ x.bd = breakDests /\ x.cd = continueDests /\ y.bd = x.bd /\ y.cd = x.cd
  BY <1>1, AheadParts DEF EndsLoop
<1>n. PICK n : n = fn.n
  OBVIOUS
<1>t. PICK t : t = Tail(todo)
  OBVIOUS
<1>4. t \in Seq(Frames) /\ t # << >> /\ t[1].op = "endScope"
  BY <1>t, AfterBrace
<1>5. Leads(t, y, z, S, n)
  BY <1>1, <1>n, <1>t DEF Ahead
<1>6. PICK u : Link(t[1], y, u, S, n) /\ Leads(Tail(t), u, z, S, n)
  BY <1>4, <1>5, LeadsFirst
<1>e. PICK e : e = t[1].depth
  OBVIOUS
<1>7. /\ e \in 0 .. Len(y.c) /\ y.k = On(Leave(e), u.k) /\ u.c = Begin(y.c, e)
      /\ u \in Ghosts /\ u.bd = y.bd /\ u.cd = y.cd /\ u.k \in Conts
  BY <1>4, <1>6, <1>e DEF Link, Lowers, EndsLoop, Ghosts
<1>8. y.k[1].depth = e
  <2>1. Len(y.c) \in Nat
    BY <1>3 DEF Ghosts
  <2>2. Leave(e) \in SFrames /\ Leave(e).depth = e
    BY <1>7, <2>1, SFrameForms DEF Leave
  <2>3. On(Leave(e), u.k)[1] = Leave(e)
    BY <1>7, <2>2, OnParts
  <2> QED BY <1>7, <2>2, <2>3
<1>9. e \in 0 .. Len(x.c) /\ Begin(x.c, e) = Begin(y.c, e) /\ x.k = Visits(todo[1].rest) \o y.k
  BY <1>2, <1>8 DEF Lowers
<1>10. PICK v \in Ghosts : v.k = y.k /\ v.c = x.c /\ v.bd = y.bd /\ v.cd = y.cd
  BY <1>3, GhostWith
<1>11. Link(t[1], v, u, S, n)
  <2>1. Lowers(t[1], v, u, S, n) /\ ~EndsLoop(t[1])
    BY <1>4, <1>7, <1>e, <1>9, <1>10 DEF Lowers, EndsLoop
  <2> QED BY <1>7, <1>10, <2>1, LinkOf
<1>12. Leads(t, v, z, S, n)
  <2>1. Leads(<<t[1]>>, v, u, S, n) /\ <<t[1]>> \o Tail(t) = t
    BY <1>4, <1>11, LeadsOne, FirstAndRest
  <2>2. <<t[1]>> \in Seq(Frames) /\ Tail(t) \in Seq(Frames)
    <3>1. t[1] \in Frames
      BY <1>4, EmptySeq
    <3> QED BY <1>4, <3>1, HeadTailProperties
  <2>3. Leads(<<t[1]>> \o Tail(t), v, z, S, n)
    BY <1>6, <2>1, <2>2, LeadsBoth
  <2> QED BY <2>1, <2>3
<1>13. Tells(fn, S, P(v.k, v.c))
  <2>1. Now(todo[1], x, S) = P(x.k, x.c)
    BY DEF Now
  <2>2. CASE todo[1].rest = << >>
    <3>1. x.k = y.k
      <4>1. << >> \in Seq(LoopStmt)
        OBVIOUS
      <4> QED BY <1>3, <1>9, <2>2, <4>1, VisitsParts
    <3> QED BY <1>2, <1>10, <2>1, <3>1
  <2>3. CASE ~HasValidIP(fn)
    BY <1>2, <2>3, LostTells
  <2> QED BY <1>2, <2>2, <2>3 DEF BraceEnds, Frame
<1>14. Tells(fn', S, Now(t[1], v, S))
  <2>1. Follows(P(v.k, v.c), Now(t[1], v, S))
    BY <1>4, <1>11, Arrives
  <2> QED BY <1>13, <2>1, TellsOn
<1>15. todo' = t
  <2>1. << >> \o Tail(todo) = Tail(todo)
    BY <1>4, <1>t, ConcatEmptySeq
  <2> QED BY <1>t, <2>1 DEF Then
<1>16. Present(v)' /\ z.k = << >> /\ Outset(S)'
  BY <1>1, <1>3, <1>10 DEF Present, Ahead, Outset
<1>17. Leads(todo', v, z, S, fn'.n)
  BY <1>12, <1>15, <1>n
<1>18. Tells(fn', S, IF todo' = << >> THEN P(v.k, v.c) ELSE Now(todo'[1], v, S))
  BY <1>4, <1>14, <1>15
<1> QED BY <1>16, <1>17, <1>18 DEF SrcInv

\* The next element of a brace.
LEMMA BraceGoesMeans ==
    ASSUME GenInv, SrcInv, todo # << >>, todo[1].op = "brace", todo[1].rest # << >>,
           Then(<<Visit(Head(todo[1].rest)), [op |-> "brace", rest |-> Tail(todo[1].rest), first |-> FALSE]>>),
           UNCHANGED <<fn, prog, cleanups, breakDests, continueDests>>
    PROVE  SrcInv'
<1>1. PICK S, x, y, z : Ahead(S, x, y, z)
  BY SrcAt
<1>2. Lowers(todo[1], x, y, S, fn.n) /\ Tells(fn, S, Now(todo[1], x, S)) /\ todo[1] \in Frames
  BY <1>1, AheadParts
<1>3. x \in Ghosts /\ y \in Ghosts /\ x.c \in Seq(Name) /\ y.k \in Conts /\ x.c = cleanups
      /\ x.bd = breakDests /\ x.cd = continueDests /\ y.bd = x.bd /\ y.cd = x.cd /\ Len(x.c) \in Nat
      /\ Agree(S, S, fn.n) /\ fn.n \in Nat /\ Wider(x.c, x.c)
  BY <1>1, AheadParts DEF EndsLoop
<1>r. PICK ss : ss = todo[1].rest
  OBVIOUS
<1>4. ss \in Seq(LoopStmt) /\ ss # << >>
  BY <1>2, <1>r, FrameFields
<1>h. PICK h, tl : h = Head(ss) /\ tl = Tail(ss)
  OBVIOUS
<1>5. h \in LoopStmt /\ tl \in Seq(LoopStmt) /\ Visits(ss) \o y.k = On(Visit(h), Visits(tl) \o y.k)
  BY <1>3, <1>4, <1>h, VisitsParts
<1> DEFINE r == Visits(tl) \o y.k
           d == IF h.kind = "var" THEN x.c \o h.vars ELSE x.c
           a == Visit(h)
           b == [op |-> "brace", rest |-> tl, first |-> FALSE]
<1>6. r \in Conts /\ Visits(tl) \in Conts /\ Passed(Visits(tl))
  BY <1>3, <1>5, VisitsParts DEF Passed
<1>7. d \in Seq(Name) /\ Wider(x.c, d)
  <2>1. h.kind = "var" => h.vars \in Seq(Name)
    BY <1>5, StatementParts
  <2> QED BY <1>3, <2>1, WiderMore
<1>8. a \in Frames /\ b \in Frames /\ a.op = "visit" /\ a.stmt = h /\ b.op = "brace" /\ b.rest = tl
  BY <1>5, FrameForms DEF Visit
<1> HIDE DEF r, d, a, b
<1>9. PICK m \in Ghosts : m.k = r /\ m.c = d /\ m.bd = x.bd /\ m.cd = x.cd
  BY <1>3, <1>6, <1>7, GhostWith, ZenonT(60)
<1>10. /\ x.k = Visits(ss) \o y.k /\ y.k # << >>
       /\ y.k[1].depth \in 0 .. Len(x.c) /\ y.k[1].depth <= Len(y.c)
       /\ Begin(x.c, y.k[1].depth) = Begin(y.c, y.k[1].depth)
       /\ ss \notin Seq(FreeStmt) => Exits(ToSet(ss), y.k, x, S, fn.n)
  BY <1>2, <1>r DEF Lowers
<1>11. Head(ss) \in ToSet(ss) /\ ToSet(Tail(ss)) \subseteq ToSet(ss)
       /\ (ss \in Seq(FreeStmt) => h \in FreeStmt /\ tl \in Seq(FreeStmt))
  <2>1. Head(ss) \in ToSet(ss)
    BY <1>4 DEF ToSet
  <2>2. Len(Tail(ss)) = Len(ss) - 1 /\ \A i \in 1 .. Len(ss) - 1 : Tail(ss)[i] = ss[i + 1]
    BY <1>4, HeadTailProperties
  <2>3. ToSet(Tail(ss)) \subseteq ToSet(ss)
    <3> SUFFICES ASSUME NEW i \in DOMAIN Tail(ss) PROVE Tail(ss)[i] \in ToSet(ss)
      BY DEF ToSet
    <3>1. i \in 1 .. Len(ss) - 1 /\ i + 1 \in DOMAIN ss
      BY <1>4, <1>5, <1>h, <2>2
    <3> QED BY <2>2, <3>1 DEF ToSet
  <2>4. ss \in Seq(FreeStmt) => h \in FreeStmt /\ tl \in Seq(FreeStmt)
    BY <1>4, <1>h, HeadTailProperties
  <2> QED BY <2>1, <2>3, <2>4
<1>12. Link(a, x, m, S, fn.n)
  <2>1. h \notin FreeStmt => Exits({h}, r, x, S, fn.n)
    <3> HAVE h \notin FreeStmt
    <3>1. Exits(ToSet(ss), y.k, x, S, fn.n)
      BY <1>10, <1>11
    <3>2. ToSet(ss) \subseteq NeverContinue => {h} \subseteq NeverContinue
      BY <1>11, <1>h
    <3>3. fn.n <= fn.n
      BY <1>3
    <3>4. Exits({h}, Visits(tl) \o y.k, x, S, fn.n)
      BY <1>3, <1>6, <3>1, <3>2, <3>3, ExitsOn
    <3> QED BY <3>4 DEF r
  <2>2. x.k = On(Visit(h), m.k)
    BY <1>5, <1>9, <1>10 DEF r
  <2>3. Lowers(a, x, m, S, fn.n) /\ ~EndsLoop(a)
    BY <1>8, <1>9, <2>1, <2>2 DEF Lowers, EndsLoop, d
  <2> QED BY <1>3, <1>9, <2>3, LinkOf
<1>13. Link(b, m, y, S, fn.n)
  <2>1. tl \notin Seq(FreeStmt) => Exits(ToSet(tl), y.k, m, S, fn.n)
    <3> HAVE tl \notin Seq(FreeStmt)
    <3>1. Exits(ToSet(ss), y.k, x, S, fn.n)
      BY <1>10, <1>11
    <3>2. ToSet(ss) \subseteq NeverContinue => ToSet(tl) \subseteq NeverContinue
      BY <1>11, <1>h
    <3>3. fn.n <= fn.n
      BY <1>3
    <3> QED BY <1>3, <1>7, <1>9, <3>1, <3>2, <3>3, ExitsKept
  <2>2. /\ y.k[1].depth \in 0 .. Len(m.c)
        /\ Begin(m.c, y.k[1].depth) = Begin(y.c, y.k[1].depth)
    <3>1. Len(d) \in Nat
      BY <1>7
    <3> QED BY <1>7, <1>9, <1>10, <3>1, SMTT(30) DEF Wider
  <2>3. Lowers(b, m, y, S, fn.n) /\ ~EndsLoop(b)
    BY <1>8, <1>9, <1>10, <2>1, <2>2 DEF Lowers, EndsLoop, r
  <2> QED BY <1>3, <1>9, <2>3, LinkOf
<1>14. Tells(fn', S, P(x.k, x.c))
  BY <1>2 DEF Now
<1>15. Present(x)' /\ Then(<<a, b>>)
  BY <1>3, <1>h, <1>r DEF Present, a, b
<1> QED BY <1>1, <1>8, <1>12, <1>13, <1>14, <1>15, SrcSplits

\* The elements of a brace.
LEMMA BraceElementMeans ==
    ASSUME GenInv, MemInv, SrcInv, BraceElement
    PROVE  SrcInv'
<1>1. todo # << >> /\ Head(todo).op = "brace" /\ todo[1] = Head(todo)
  BY GenInvParts DEF BraceElement, Running
<1>2. CASE BraceEnds /\ Then(<< >>) /\ Fine /\ UNCHANGED <<fn, cleanups>> /\ SameDests
  BY <1>1, <1>2, BraceEndMeans DEF Fine, SameDests
<1>3. CASE Abort("brace element without insertion point")
  BY <1>3, AbortMeans
<1>4. CASE /\ ~BraceEnds
           /\ Then(<<Visit(Head(Frame.rest)), [op |-> "brace", rest |-> Tail(Frame.rest), first |-> FALSE]>>)
           /\ UNCHANGED fn /\ SameCleanups /\ SameDests /\ Fine
  BY <1>1, <1>4, BraceGoesMeans DEF Fine, SameDests, SameCleanups, Frame, BraceEnds
<1> QED BY <1>2, <1>3, <1>4 DEF BraceElement, Require

\* A beginning of a beginning; the last but one.
LEMMA BeginBegin ==
    ASSUME NEW c \in Seq(Name), NEW i \in 0 .. Len(c), NEW j \in 0 .. i
    PROVE  Begin(Begin(c, i), j) = Begin(c, j) /\ Begin(c, i) \in Seq(Name) /\ Len(Begin(c, i)) = i
<1>1. Begin(c, i) \in Seq(Name) /\ Len(Begin(c, i)) = i /\ \A l \in 1 .. i : Begin(c, i)[l] = c[l]
  BY BeginningOf DEF Begin
<1>2. j \in 0 .. Len(c)
  OBVIOUS
<1>3. Begin(c, j) \in Seq(Name) /\ Len(Begin(c, j)) = j /\ \A l \in 1 .. j : Begin(c, j)[l] = c[l]
  BY <1>2, BeginningOf DEF Begin
<1> DEFINE d == Begin(c, i)
           e == Begin(d, j)
<1>4. e \in Seq(Name) /\ Len(e) = j /\ \A l \in 1 .. j : e[l] = d[l]
  BY <1>1, BeginningOf DEF Begin
<1>5. \A l \in 1 .. j : e[l] = Begin(c, j)[l]
  <2> TAKE l \in 1 .. j
  <2>1. l \in 1 .. i
    OBVIOUS
  <2> QED BY <1>1, <1>3, <1>4, <2>1
<1> HIDE DEF e
<1>6. e = Begin(c, j)
  BY <1>3, <1>4, <1>5, SeqEqual
<1> QED BY <1>1, <1>6 DEF e

\* Emitting the cleanup of the innermost variable.
LEMMA CleanupTells ==
    ASSUME NEW f, Sound(f), NEW S, NEW q, NEW c \in Seq(Name), NEW i \in 1 .. Len(c),
           Tells(f, S, [src |-> q, live |-> Begin(c, i)])
    PROVE  /\ Tells(EmitCleanup(f, c[i]), S, [src |-> q, live |-> Begin(c, i - 1)])
           /\ EmitCleanup(f, c[i]).n = f.n
<1> DEFINE v == c[i]
           d == Begin(c, i)
           at == [src |-> q, live |-> d]
           to == [src |-> q, live |-> Begin(c, i - 1)]
           g == Emit(f, "destroy", v)
<1>1. v \in Name /\ f \in FunctionType /\ {"destroy", "dealloc"} \subseteq PlainOps
  BY SoundFields DEF PlainOps
<1>2. d \in Seq(Name) /\ Len(d) = i /\ d[i] = v /\ Begin(d, i - 1) = Begin(c, i - 1)
  <2>1. i \in 0 .. Len(c) /\ i - 1 \in 0 .. i /\ i \in 1 .. i
    OBVIOUS
  <2>2. d[i] = c[i]
    BY <2>1, BeginningOf DEF Begin
  <2> QED BY <2>1, <2>2, BeginBegin
<1>3. Conducts(Plain("destroy", v), at, at, S)
  BY DEF Conducts, Plain
<1>4. Conducts(Plain("dealloc", v), at, to, S)
  <2>1. at.live # << >> /\ v = at.live[Len(at.live)] /\ to = [src |-> at.src, live |-> SubSeq(at.live, 1, Len(at.live) - 1)]
    BY <1>2, SMTT(30) DEF Begin
  <2>2. Plain("dealloc", v).op = "dealloc" /\ Plain("dealloc", v).id = v
    BY DEF Plain
  <2> HIDE DEF at, to, v
  <2> QED BY <2>1, <2>2 DEF Conducts
<1> HIDE DEF v, at, to
<1>5. Tells(g, S, at)
  BY <1>1, <1>3, EmitTells DEF at
<1>6. Sound(g) /\ g.n = f.n /\ g \in FunctionType
  BY <1>1, PlainSound, SoundFields
<1> HIDE DEF g
<1>7. Tells(Emit(g, "dealloc", v), S, to) /\ Emit(g, "dealloc", v).n = f.n
  BY <1>1, <1>4, <1>5, <1>6, EmitTells, PlainSound
<1> QED BY <1>7 DEF EmitCleanup, g, v, to

\* The end of a scope: its variables go one after the other, the innermost first; the
\* source has left it already.
LEMMA EndScopeMeans ==
    ASSUME GenInv, SrcInv, EndScope
    PROVE  SrcInv'
<1>1. todo # << >> /\ Head(todo).op = "endScope"
  BY DEF EndScope, Running
<1>2. PICK S, x, y, z : Ahead(S, x, y, z)
  BY <1>1, SrcAt
<1>3. Lowers(todo[1], x, y, S, fn.n) /\ Tells(fn, S, Now(todo[1], x, S)) /\ todo[1] = Head(todo)
      /\ todo[1] \in Frames /\ Sound(fn)
  BY <1>1, <1>2, AheadParts
<1>4. x \in Ghosts /\ y \in Ghosts /\ x.c \in Seq(Name) /\ x.k \in Conts /\ y.k \in Conts /\ x.c = cleanups
      /\ x.bd = breakDests /\ x.cd = continueDests /\ y.bd = x.bd /\ y.cd = x.cd /\ Len(x.c) \in Nat
  BY <1>1, <1>2, <1>3, AheadParts DEF EndsLoop
<1>d. PICK to, d : to = todo[1] /\ d = to.depth
  OBVIOUS
<1>5. /\ d \in 0 .. Len(x.c) /\ x.k = On(Leave(d), y.k) /\ y.c = Begin(x.c, d) /\ to.op = "endScope"
  BY <1>1, <1>3, <1>d DEF Lowers
<1>6. Tail(x.k) = y.k
  <2>1. Leave(d) \in SFrames
    BY <1>4, <1>5, SFrameForms
  <2> QED BY <1>4, <1>5, <2>1, OnParts
<1>7. Tells(fn, S, [src |-> State(y.k, y.c), live |-> x.c])
  BY <1>1, <1>3, <1>d, <1>5, <1>6 DEF Now
<1>8. UNCHANGED <<prog, breakDests, continueDests>>
  BY DEF EndScope, SameDests, Fine
<1>9. CASE Depth = Frame.depth
  <2>1. Then(<< >>) /\ UNCHANGED <<fn, cleanups>>
    BY <1>9 DEF EndScope, SameCleanups, Depth
  <2>2. d = Len(x.c)
    BY <1>3, <1>4, <1>9, <1>d DEF Depth, Frame
  <2>3. y.c = x.c
    BY <1>4, <1>5, <2>2, WiderMore
  <2>4. Tells(fn', S, P(y.k, y.c)) /\ Present(y)' /\ fn'.n = fn.n
    BY <1>4, <1>7, <1>8, <2>1, <2>3 DEF P, Present
  <2> QED BY <1>1, <1>2, <1>8, <2>1, <2>4, SrcDrops
<1>10. CASE Depth # Frame.depth
  <2> DEFINE i == Len(x.c)
             e == Begin(x.c, i - 1)
  <2>1. fn' = EmitCleanup(fn, x.c[i]) /\ cleanups' = e /\ UNCHANGED todo
    BY <1>4, <1>10 DEF EndScope, Depth, Frame, Begin
  <2>2. i \in 1 .. i /\ d \in 0 .. i - 1 /\ i - 1 \in 0 .. i /\ i \in Nat
    BY <1>3, <1>4, <1>5, <1>10, <1>d DEF Depth, Frame
  <2>3. e \in Seq(Name) /\ Len(e) = i - 1 /\ Begin(e, d) = y.c
    BY <1>4, <1>5, <2>2, BeginBegin
  <2>4. Begin(x.c, i) = x.c
    BY <1>4, WiderMore
  <2>5. Tells(fn', S, [src |-> State(y.k, y.c), live |-> e]) /\ fn'.n = fn.n
    BY <1>3, <1>4, <1>7, <2>1, <2>2, <2>4, CleanupTells, ZenonT(60)
  <2> HIDE DEF e
  <2>6. PICK w \in Ghosts : w.k = x.k /\ w.c = e /\ w.bd = x.bd /\ w.cd = x.cd
    BY <1>4, <2>3, GhostWith, ZenonT(60)
  <2>7. Link(to, w, y, S, fn.n)
    <3>1. Lowers(to, w, y, S, fn.n) /\ ~EndsLoop(to)
      BY <1>5, <1>d, <2>2, <2>3, <2>6 DEF Lowers, EndsLoop
    <3> QED BY <1>4, <2>6, <3>1, LinkOf
  <2>8. Now(to, w, S) = [src |-> State(y.k, y.c), live |-> e]
    BY <1>5, <1>6, <1>d, <2>3, <2>6 DEF Now
  <2>9. Then(<<to>>) /\ to \in Frames
    <3>1. todo \in Seq(Frames)
      BY GenInvParts
    <3> QED BY <1>1, <1>3, <1>d, <2>1, <3>1, FirstAndRest DEF Then
  <2>10. Present(w)'
    BY <1>4, <1>8, <2>1, <2>6 DEF Present
  <2> QED BY <1>1, <1>2, <1>8, <2>5, <2>7, <2>8, <2>9, <2>10, SrcMoves
<1> QED BY <1>9, <1>10

\* An exit of the source ends the code too.
LEMMA ExitTells ==
    ASSUME NEW f, Sound(f), HasValidIP(f), NEW S, NEW kk, NEW c, Tells(f, S, P(kk, c)),
           NEW op \in {"return", "unreachable"}, NEW name \in Name,
           NEW inst, inst = [op |-> op, id |-> name, succs |-> << >>], SourceEvent(kk) = ExitEvent(inst)
    PROVE  (\A y : Tells(CreateExit(f, op, name), S, y)) /\ CreateExit(f, op, name).n = f.n
<1>1. inst \in Inst /\ IsTerm(inst) /\ inst.op = op /\ f \in FunctionType
  BY SoundFields DEF Inst, IsTerm, TermOps
<1>2. Awaits(P(kk, c), ExitEvent(inst), State(kk, c))
  BY ReachesSelf DEF Awaits, P, State
<1>3. Conducts(inst, P(kk, c), P(kk, c), S)
  BY <1>1, <1>2 DEF Conducts
<1>4. CreateExit(f, op, name) = Terminate(f, inst)
  BY DEF CreateExit
<1>5. \A y : Tells(Terminate(f, inst), S, y)
  BY <1>1, <1>3, TerminateTells
<1>6. CreateExit(f, op, name).n = f.n
  BY ExitSound
<1> QED BY <1>4, <1>5, <1>6

\* A return, or its abort without a value.
LEMMA VisitReturnMeans ==
    ASSUME GenInv, SrcInv, VisitReturn
    PROVE  SrcInv'
<1>1. todo # << >> /\ Head(todo).op = "visit" /\ Head(todo).stmt.kind = "return"
  BY DEF VisitReturn, Visiting, Running
<1>2. PICK S, x, y, z : Ahead(S, x, y, z)
  BY <1>1, SrcAt
<1>s. PICK s : s = Head(todo).stmt
  OBVIOUS
<1>3. Lowers(todo[1], x, y, S, fn.n) /\ Tells(fn, S, Now(todo[1], x, S)) /\ todo[1] = Head(todo)
      /\ todo[1] \in Frames /\ Sound(fn) /\ HasValidIP(fn)
  BY <1>1, <1>2, AheadParts DEF NeedsIP
<1>4. x \in Ghosts /\ y \in Ghosts /\ x.k \in Conts /\ y.k \in Conts /\ x.c = cleanups
      /\ x.bd = breakDests /\ x.cd = continueDests /\ y.bd = x.bd /\ y.cd = x.cd
  BY <1>1, <1>2, <1>3, AheadParts DEF EndsLoop
<1>5. CASE Abort("null return value")
  BY <1>5, AbortMeans
<1>6. CASE Stmt.id # NoName /\ fn' = CreateExit(fn, "return", Stmt.id) /\ Then(<< >>)
           /\ SameCleanups /\ SameDests /\ Fine
  <2>1. s \in LoopStmt /\ s.id \in Name /\ s.id # NoName /\ s.kind = "return"
    BY <1>1, <1>3, <1>6, <1>s, FrameFields, StatementParts DEF Stmt
  <2>2. x.k = On(Visit(s), y.k) /\ y.c = x.c /\ Tells(fn, S, P(x.k, x.c))
    BY <1>1, <1>3, <1>s, <2>1 DEF Lowers, Now
  <2>3. SourceEvent(x.k) = Event("return", s.id)
    BY <1>4, <2>1, <2>2, SFrameForms, StatementEvents
  <2>4. SourceEvent(x.k) = ExitEvent([op |-> "return", id |-> s.id, succs |-> << >>])
    BY <2>1, <2>3 DEF ExitEvent
  <2>5. Tells(fn', S, P(y.k, y.c)) /\ fn'.n = fn.n
    BY <1>3, <1>6, <1>s, <2>1, <2>2, <2>4, ExitTells DEF Stmt
  <2>6. Present(y)' /\ UNCHANGED prog
    BY <1>4, <1>6, <2>2 DEF Present, SameCleanups, SameDests, Fine
  <2> QED BY <1>1, <1>2, <1>6, <2>5, <2>6, SrcDrops
<1> QED BY <1>5, <1>6 DEF VisitReturn

\* A break or a continue: the source leaves the scopes and statements inside the loop
\* at once, the code is going to.
LEMMA VisitJumpMeans ==
    ASSUME GenInv, SrcInv, VisitJump
    PROVE  SrcInv'
<1>1. todo # << >> /\ Head(todo).op = "visit" /\ Head(todo).stmt.kind \in {"break", "continue"}
  BY DEF VisitJump, Visiting, Running
<1>2. PICK S, x, y, z : Ahead(S, x, y, z)
  BY <1>1, SrcAt
<1>s. PICK s, dests : s = Head(todo).stmt /\ dests = IF s.kind = "break" THEN breakDests ELSE continueDests
  OBVIOUS
<1>3. Lowers(todo[1], x, y, S, fn.n) /\ Tells(fn, S, Now(todo[1], x, S)) /\ todo[1] = Head(todo)
      /\ todo[1] \in Frames /\ Sound(fn) /\ HasValidIP(fn)
  BY <1>1, <1>2, AheadParts DEF NeedsIP
<1>4. x \in Ghosts /\ y \in Ghosts /\ x.k \in Conts /\ y.k \in Conts /\ x.c = cleanups
      /\ x.bd = breakDests /\ x.cd = continueDests /\ y.bd = x.bd /\ y.cd = x.cd
      /\ x.c \in Seq(Name) /\ Len(x.c) \in Nat
  BY <1>1, <1>2, <1>3, AheadParts DEF EndsLoop
<1> DEFINE dest == dests[Len(dests)]
           n == Len(x.c)
           to == [op |-> "branch", dest |-> dest, top |-> n]
<1>5. CASE Abort("branch without insertion point")
  BY <1>5, AbortMeans
<1>6. CASE Then(<<[op |-> "branch", dest |-> dest, top |-> Depth]>>)
           /\ UNCHANGED fn /\ SameCleanups /\ SameDests /\ Fine
  <2>1. s \in LoopStmt /\ s.kind \in {"break", "continue"} /\ s \notin FreeStmt /\ s.kind # "var"
    BY <1>1, <1>3, <1>s, FrameFields, FreeParts
  <2>2. x.k = On(Visit(s), y.k) /\ y.c = x.c /\ Tells(fn, S, P(x.k, x.c)) /\ Exits({s}, y.k, x, S, fn.n)
    BY <1>1, <1>3, <1>s, <2>1 DEF Lowers, Now
  <2>3. Lands(s.kind, y.k, x.c, dests, S, fn.n)
    <3>1. s.kind = "continue" => ~({s} \subseteq NeverContinue)
      BY NeverParts
    <3> QED BY <1>4, <1>s, <2>1, <2>2, <3>1 DEF Exits
  <2>4. PICK p \in Conts, fr \in SFrames, q \in Conts :
           /\ y.k = p \o On(fr, q) /\ Clear(p, s.kind) /\ Stops(fr, s.kind)
           /\ fr.depth \in 0 .. Len(x.c) /\ dest.depth = fr.depth
           /\ Starts(S, fn.n, dest.block, P(IF s.kind = "break" THEN q ELSE On(fr, q), Begin(x.c, fr.depth)))
    BY <2>3 DEF Lands
  <2>5. dest \in Dests
    BY <1>1, <1>3, <1>s, JumpTarget
  <2>6. to \in Frames /\ to.op = "branch" /\ to.dest = dest /\ to.top = n
    BY <1>4, <2>5, FrameForms
  <2>7. Begin(x.c, n) = x.c
    BY <1>4, WiderMore
  <2> DEFINE l == IF s.kind = "break" THEN q ELSE On(fr, q)
  <2>8. Reaches(State(x.k, x.c), State(l, Begin(x.c, fr.depth)))
    BY <2>1, <2>2, <2>4, JumpStep
  <2> HIDE DEF to, l
  <2>9. S[dest.block] = P(l, Begin(x.c, fr.depth)) /\ dest.block \in 1 .. fn.n
    BY <2>4 DEF Starts, l
  <2>10. Link(to, x, y, S, fn.n)
    <3>1. Lowers(to, x, y, S, fn.n) /\ ~EndsLoop(to)
      BY <1>4, <2>2, <2>4, <2>6, <2>9 DEF Lowers, EndsLoop, P
    <3> QED BY <1>4, <3>1, LinkOf
  <2>11. Follows(P(x.k, x.c), Now(to, x, S))
    BY <2>6, <2>7, <2>8, <2>9 DEF Now, P, Follows
  <2>12. Tells(fn', S, Now(to, x, S))
    BY <1>6, <2>2, <2>11, TellsOn
  <2>13. Present(x)' /\ UNCHANGED prog /\ Then(<<to>>)
    BY <1>4, <1>6 DEF Present, SameCleanups, SameDests, Fine, Depth, to
  <2> QED BY <1>1, <1>2, <1>6, <2>6, <2>10, <2>12, <2>13, SrcMoves
<1> QED BY <1>5, <1>6, <1>s DEF VisitJump, Require, Stmt

\* The cleanups a branch passes, and the branch.
LEMMA ThreadCleanupMeans ==
    ASSUME GenInv, SrcInv, ThreadCleanup
    PROVE  SrcInv'
<1>1. todo # << >> /\ Head(todo).op = "branch"
  BY DEF ThreadCleanup, Running
<1>2. PICK S, x, y, z : Ahead(S, x, y, z)
  BY <1>1, SrcAt
<1>s. PICK dest, top : dest = Head(todo).dest /\ top = Head(todo).top
  OBVIOUS
<1>3. Lowers(todo[1], x, y, S, fn.n) /\ Tells(fn, S, Now(todo[1], x, S)) /\ todo[1] = Head(todo)
      /\ todo[1] \in Frames /\ Sound(fn) /\ HasValidIP(fn)
  BY <1>1, <1>2, AheadParts DEF NeedsIP
<1>4. x \in Ghosts /\ y \in Ghosts /\ x.k \in Conts /\ y.k \in Conts /\ x.c = cleanups
      /\ x.bd = breakDests /\ x.cd = continueDests /\ y.bd = x.bd /\ y.cd = x.cd
      /\ x.c \in Seq(Name) /\ Len(x.c) \in Nat
  BY <1>1, <1>2, <1>3, AheadParts DEF EndsLoop
<1>5. dest \in Dests /\ top \in Nat /\ Head(todo) = [op |-> "branch", dest |-> dest, top |-> top]
      /\ dest.block \in Block /\ dest.depth \in Nat
  BY <1>1, <1>3, <1>s, FrameFields, SMTT(30) DEF Dests
<1>6. /\ y.c = x.c /\ dest.depth \in 0 .. top /\ top <= Len(x.c) /\ dest.block \in 1 .. fn.n
      /\ S[dest.block].live = Begin(x.c, dest.depth)
      /\ Tells(fn, S, [src |-> S[dest.block].src, live |-> Begin(x.c, top)])
  BY <1>1, <1>3, <1>s DEF Lowers, Now
<1>7. UNCHANGED <<prog, cleanups, breakDests, continueDests>>
  BY DEF ThreadCleanup, SameCleanups, SameDests, Fine
<1>8. CASE top > dest.depth
  <2> DEFINE to == [op |-> "branch", dest |-> dest, top |-> top - 1]
  <2>1. fn' = EmitCleanup(fn, x.c[top]) /\ Then(<<to>>)
    <3>1. [Frame EXCEPT !.top = @ - 1] = to
      BY <1>5 DEF Frame
    <3> QED BY <1>4, <1>5, <1>8, <3>1 DEF ThreadCleanup, Frame
  <2>2. top \in 1 .. Len(x.c) /\ top - 1 \in Nat /\ dest.depth \in 0 .. top - 1 /\ top - 1 <= Len(x.c)
    BY <1>4, <1>5, <1>6, <1>8
  <2>3. to \in Frames /\ to.op = "branch" /\ to.dest = dest /\ to.top = top - 1
    BY <1>5, <2>2, FrameForms
  <2>4. Tells(fn', S, [src |-> S[dest.block].src, live |-> Begin(x.c, top - 1)]) /\ fn'.n = fn.n
    BY <1>3, <1>4, <1>6, <2>1, <2>2, CleanupTells, ZenonT(60)
  <2> HIDE DEF to
  <2>5. Link(to, x, y, S, fn.n)
    <3>1. Lowers(to, x, y, S, fn.n) /\ ~EndsLoop(to)
      BY <1>6, <2>2, <2>3 DEF Lowers, EndsLoop
    <3> QED BY <1>4, <3>1, LinkOf
  <2>6. Now(to, x, S) = [src |-> S[dest.block].src, live |-> Begin(x.c, top - 1)]
    BY <2>3 DEF Now
  <2>7. Present(x)'
    BY <1>4, <1>7 DEF Present
  <2> QED BY <1>1, <1>2, <1>7, <2>1, <2>3, <2>4, <2>5, <2>6, <2>7, SrcMoves
<1>9. CASE ~(top > dest.depth)
  <2>1. fn' = Jump(fn, dest.block) /\ Then(<< >>)
    BY <1>5, <1>9 DEF ThreadCleanup, Frame
  <2>2. top = dest.depth
    BY <1>5, <1>6, <1>9
  <2>3. Follows([src |-> S[dest.block].src, live |-> Begin(x.c, top)], S[dest.block])
    BY <1>6, <2>2, ReachesSelf DEF Follows
  <2>4. fn \in FunctionType /\ fn'.n = fn.n
    <3>1. fn \in FunctionType
      BY <1>3, SoundFields
    <3>2. fn'.n = fn.n
      BY <1>3, <2>1, SoundCounts, Counts
    <3> QED BY <3>1, <3>2
  <2>5. Tells(fn', S, P(y.k, y.c))
    BY <1>3, <1>5, <1>6, <2>1, <2>3, <2>4, JumpTells
  <2>6. Present(y)'
    BY <1>4, <1>6, <1>7 DEF Present
  <2> QED BY <1>1, <1>2, <1>7, <2>1, <2>4, <2>5, <2>6, SrcDrops
<1> QED BY <1>8, <1>9
-----------------------------------------------------------------------------
(* Conditions and their joins *)

\* exitTrue leaves by the join, if the end of the arm can be reached.
LEMMA ExitTrueTells ==
    ASSUME NEW f, Sound(f), NEW S, NEW x, Tells(f, S, x), NEW c,
           c.cont # NoBlock => c.cont \in Block /\ Follows(x, S[c.cont])
    PROVE  Tells(ExitTrue(f, c), S, x) /\ ExitTrue(f, c).n = f.n
<1>1. f \in FunctionType /\ Jump(f, c.cont).n = f.n
  BY SoundFields, SoundCounts, Counts
<1>2. CASE c.cont = NoBlock \/ ~HasValidIP(f)
  BY <1>2 DEF ExitTrue
<1>3. CASE c.cont # NoBlock /\ HasValidIP(f)
  <2>1. \A y : Tells(Jump(f, c.cont), S, y)
    BY <1>1, <1>3, JumpTells
  <2> QED BY <1>1, <1>3, <2>1 DEF ExitTrue
<1> QED BY <1>2, <1>3

\* The blocks of a condition are the next ones.
LEMMA ConditionCounts ==
    ASSUME NEW f, Sound(f), NEW cond, NEW hasFalse \in BOOLEAN, NEW invert \in BOOLEAN
    PROVE  EnterTrue(EmitCondition(f, cond, hasFalse, invert), CondBlocks(f, hasFalse)).n
              = f.n + (IF hasFalse THEN 3 ELSE 2)
<1> DEFINE e == EmitCondition(f, cond, hasFalse, invert)
           one == NewBlock(f)
           two == NewBlock(one)
           all == IF hasFalse THEN NewBlock(two) ELSE two
<1>1. Counted(f) /\ f.n \in Nat
  BY SoundCounts
<1>2. Counted(one) /\ one.n = f.n + 1
  BY <1>1, Counts
<1> HIDE DEF one
<1>3. Counted(two) /\ two.n = f.n + 2
  BY <1>1, <1>2, Counts
<1> HIDE DEF two
<1>4. Counted(all) /\ all.n = f.n + (IF hasFalse THEN 3 ELSE 2)
  BY <1>1, <1>3, Counts
<1>5. PICK inst : e = Terminate(all, inst)
  BY DEF EmitCondition, CreateCondBranch, one, two
<1> HIDE DEF all, e
<1>6. Counted(e) /\ e.n = f.n + (IF hasFalse THEN 3 ELSE 2)
  BY <1>4, <1>5, Counts
<1>7. EnterTrue(e, CondBlocks(f, hasFalse)).n = e.n
  BY <1>6, Counts DEF EnterTrue
<1> QED BY <1>6, <1>7 DEF e

\* Condition c opens at function f, where the source is about to test: g is the code
\* at the start of the true arm.
Condition(f, g, c, hasFalse, S) ==
    /\ Sound(g) /\ c \in CondRecs /\ c.cont = f.n + 1 /\ c.true = f.n + 2
    /\ c.false = (IF hasFalse THEN f.n + 3 ELSE NoBlock)
    /\ g.n = f.n + (IF hasFalse THEN 3 ELSE 2) /\ HasValidIP(g)
    /\ 1 .. g.n \subseteq Block /\ c.cont # NoBlock
    /\ Tells(g, S, S[f.n + 2])
\* One without false code, as loops have.
LoopCondition(f, g, c, S) == Condition(f, g, c, FALSE, S)

\* The code after the condition is emitted is at the start of the true block.
LEMMA ConditionMeans ==
    ASSUME NEW f, Sound(f), HasValidIP(f), NEW S, NEW kk, NEW d, Tells(f, S, P(kk, d)),
           NEW cond \in Name, SourceEvent(kk) = Event("condbr", cond),
           NEW hasFalse \in BOOLEAN, NEW invert \in BOOLEAN,
           f.n + (IF hasFalse THEN 3 ELSE 2) <= MaxBlock,
           S[f.n + 2] = P(AfterTest(kk, d, ~invert), d),
           S[IF hasFalse THEN f.n + 3 ELSE f.n + 1] = P(AfterTest(kk, d, invert), d)
    PROVE  Condition(f, EnterTrue(EmitCondition(f, cond, hasFalse, invert), CondBlocks(f, hasFalse)),
                     CondBlocks(f, hasFalse), hasFalse, S)
<1> DEFINE c == CondBlocks(f, hasFalse)
           g == EnterTrue(EmitCondition(f, cond, hasFalse, invert), c)
<1>1. c.true = f.n + 2 /\ c.cont = f.n + 1 /\ c.false = (IF hasFalse THEN f.n + 3 ELSE NoBlock)
  BY DEF CondBlocks
<1>2. Sound(g) /\ c \in CondRecs /\ g.ip = c.true /\ c.cont \in Block /\ c.true \in Block
  BY ConditionSound
<1>3. g.n = f.n + (IF hasFalse THEN 3 ELSE 2)
  BY ConditionCounts
<1>4. Tells(g, S, S[f.n + 2])
  <2>1. S[c.true] = P(AfterTest(kk, d, ~invert), d)
        /\ S[IF hasFalse THEN c.false ELSE c.cont] = P(AfterTest(kk, d, invert), d)
    BY <1>1
  <2>2. Tells(g, S, S[c.true])
    BY <2>1, ConditionTells
  <2> QED BY <1>1, <2>2
<1> HIDE DEF c, g
<1>5. 1 .. g.n \subseteq Block /\ NoBlock \notin Block
  BY <1>2, SoundFields, MaxBlockAssumption DEF Block, NoBlock
<1>6. HasValidIP(g) /\ c.cont # NoBlock
  BY <1>2, <1>5 DEF HasValidIP
<1>7. Condition(f, g, c, hasFalse, S)
  BY <1>1, <1>2, <1>3, <1>4, <1>5, <1>6 DEF Condition
<1> QED BY <1>7 DEF c, g

\* A condition that is not inverted.
LEMMA TestMeans ==
    ASSUME NEW f, Sound(f), HasValidIP(f), NEW S, NEW kk, NEW d, Tells(f, S, P(kk, d)),
           NEW cond \in Name, SourceEvent(kk) = Event("condbr", cond), NEW hasFalse \in BOOLEAN,
           f.n + (IF hasFalse THEN 3 ELSE 2) <= MaxBlock,
           S[f.n + 2] = P(Taken(kk, d), d),
           S[IF hasFalse THEN f.n + 3 ELSE f.n + 1] = P(Skipped(kk, d), d)
    PROVE  Condition(f, EnterTrue(EmitCondition(f, cond, hasFalse, FALSE), CondBlocks(f, hasFalse)),
                     CondBlocks(f, hasFalse), hasFalse, S)
<1> DEFINE no == FALSE
<1>1. no \in BOOLEAN /\ ~no = TRUE /\ no = FALSE
  OBVIOUS
<1>2. S[f.n + 2] = P(AfterTest(kk, d, ~no), d)
      /\ S[IF hasFalse THEN f.n + 3 ELSE f.n + 1] = P(AfterTest(kk, d, no), d)
  BY <1>1 DEF Taken, Skipped
<1>3. no \in BOOLEAN
  OBVIOUS
<1> HIDE DEF no
<1>4. Condition(f, EnterTrue(EmitCondition(f, cond, hasFalse, no), CondBlocks(f, hasFalse)),
                CondBlocks(f, hasFalse), hasFalse, S)
  BY <1>2, <1>3, ConditionMeans
<1> QED BY <1>4 DEF no

\* One without false code, as loops have.
LEMMA LoopTestMeans ==
    ASSUME NEW f, Sound(f), HasValidIP(f), NEW S, NEW kk, NEW d, Tells(f, S, P(kk, d)),
           NEW cond \in Name, SourceEvent(kk) = Event("condbr", cond), f.n + 2 <= MaxBlock,
           S[f.n + 2] = P(Taken(kk, d), d), S[f.n + 1] = P(Skipped(kk, d), d)
    PROVE  LoopCondition(f, EnterTrue(EmitCondition(f, cond, FALSE, FALSE), CondBlocks(f, FALSE)),
                         CondBlocks(f, FALSE), S)
<1> DEFINE no == FALSE
<1>1. f.n + (IF no THEN 3 ELSE 2) <= MaxBlock
      /\ S[IF no THEN f.n + 3 ELSE f.n + 1] = P(Skipped(kk, d), d)
  OBVIOUS
<1>2. no \in BOOLEAN
  OBVIOUS
<1> HIDE DEF no
<1>3. Condition(f, EnterTrue(EmitCondition(f, cond, no, FALSE), CondBlocks(f, no)),
                CondBlocks(f, no), no, S)
  BY <1>1, <1>2, TestMeans
<1> QED BY <1>3 DEF no, LoopCondition

\* The inverted one of a for-each.
LEMMA InvertedMeans ==
    ASSUME NEW f, Sound(f), HasValidIP(f), NEW S, NEW kk, NEW d, Tells(f, S, P(kk, d)),
           NEW cond \in Name, SourceEvent(kk) = Event("condbr", cond), f.n + 2 <= MaxBlock,
           S[f.n + 2] = P(Skipped(kk, d), d), S[f.n + 1] = P(Taken(kk, d), d)
    PROVE  LoopCondition(f, EnterTrue(EmitCondition(f, cond, FALSE, TRUE), CondBlocks(f, FALSE)),
                         CondBlocks(f, FALSE), S)
<1> DEFINE no == FALSE
           yes == TRUE
<1>1. f.n + (IF no THEN 3 ELSE 2) <= MaxBlock
      /\ S[f.n + 2] = P(AfterTest(kk, d, ~yes), d)
      /\ S[IF no THEN f.n + 3 ELSE f.n + 1] = P(AfterTest(kk, d, yes), d)
  <2>1. (~yes) = FALSE /\ yes = TRUE
    OBVIOUS
  <2> QED BY <2>1 DEF Taken, Skipped
<1>2. no \in BOOLEAN /\ yes \in BOOLEAN
  OBVIOUS
<1> HIDE DEF no, yes
<1>3. Condition(f, EnterTrue(EmitCondition(f, cond, no, yes), CondBlocks(f, no)),
                CondBlocks(f, no), no, S)
  BY <1>1, <1>2, ConditionMeans
<1> QED BY <1>3 DEF no, yes, LoopCondition

\* The arms of an if, and its join: after either arm the source is where it would be
\* without it.
LEMMA VisitIfMeans ==
    ASSUME GenInv, SrcInv, VisitIf
    PROVE  SrcInv'
<1>1. todo # << >> /\ Head(todo).op = "visit" /\ Head(todo).stmt.kind = "if"
  BY DEF VisitIf, Visiting, Running
<1>2. PICK S, x, y, z : Ahead(S, x, y, z)
  BY <1>1, SrcAt
<1>s. PICK s, n : s = Head(todo).stmt /\ n = fn.n
  OBVIOUS
<1>3. Lowers(todo[1], x, y, S, fn.n) /\ Tells(fn, S, Now(todo[1], x, S)) /\ todo[1] = Head(todo)
      /\ todo[1] \in Frames /\ Sound(fn) /\ HasValidIP(fn)
  BY <1>1, <1>2, AheadParts DEF NeedsIP
<1>4. x \in Ghosts /\ y \in Ghosts /\ x.k \in Conts /\ y.k \in Conts /\ x.c = cleanups
      /\ x.bd = breakDests /\ x.cd = continueDests /\ y.bd = x.bd /\ y.cd = x.cd
      /\ x.c \in Seq(Name) /\ Len(x.c) \in Nat /\ Wider(x.c, x.c) /\ n \in Nat
  BY <1>1, <1>2, <1>3, <1>s, AheadParts DEF EndsLoop
<1> DEFINE hasFalse == s.else # NoStmt
           c == CondBlocks(fn, hasFalse)
           g == EnterTrue(EmitCondition(fn, s.cond, hasFalse, FALSE), c)
           a == Visit(s.then)
           b == [op |-> "ifTrueExit", cond |-> c, else |-> s.else]
<1>5. CASE Abort("condition without insertion point")
  BY <1>5, AbortMeans
<1>6. CASE /\ fn.n + (IF hasFalse THEN 3 ELSE 2) <= MaxBlock /\ fn' = g
           /\ Then(<<a, b>>) /\ SameCleanups /\ SameDests /\ Fine
  <2>1. s \in LoopStmt /\ s.kind = "if" /\ s.cond \in Name /\ s.then \in LoopStmt
        /\ s.else \in LoopStmt \cup {NoStmt} /\ hasFalse \in BOOLEAN
    BY <1>1, <1>3, <1>s, FrameFields, StatementParts
  <2>2. x.k = On(Visit(s), y.k) /\ y.c = x.c /\ Tells(fn, S, P(x.k, x.c))
        /\ (s \notin FreeStmt => Exits({s}, y.k, x, S, n))
    BY <1>1, <1>3, <1>s, <2>1 DEF Lowers, Now
  <2>3. s.then.kind # "var" /\ (hasFalse => s.else.kind # "var")
    <3>1. DeclaresOnce(s)
      BY <2>1, ScopeAssumption
    <3>2. Inside(s.then, s, << >>) /\ (hasFalse => Inside(s.else, s, << >>))
      BY <2>1, <3>1 DEF DeclaresOnce
    <3> QED BY <3>2 DEF Inside
  <2> DEFINE U == [d \in Block |-> IF d = n + 1 THEN P(y.k, x.c)
                                   ELSE IF d = n + 2 THEN P(On(Visit(s.then), y.k), x.c)
                                   ELSE P(On(Visit(s.else), y.k), x.c)]
             T == Chosen(fn, S, U)
  <2>4. Tells(fn, T, P(x.k, x.c)) /\ Agree(S, T, n) /\ \A d \in Block : d > n => T[d] = U[d]
    BY <1>3, <1>s, <2>2, ChosenTells
  <2>5. n + 1 \in Block /\ n + 2 \in Block /\ (hasFalse => n + 3 \in Block)
    BY <1>4, <1>6, <1>s, MaxBlockAssumption, SMTT(30) DEF Block
  <2>6. T[n + 1] = P(y.k, x.c) /\ T[n + 2] = P(On(Visit(s.then), y.k), x.c)
        /\ (hasFalse => T[n + 3] = P(On(Visit(s.else), y.k), x.c))
    <3> HIDE DEF T
    <3> QED BY <1>4, <2>4, <2>5
  <2> HIDE DEF U, T
  <2>7. Condition(fn, fn', c, hasFalse, T)
    <3>1. SourceEvent(x.k) = Event("condbr", s.cond) /\ Visit(s) \in SFrames
      BY <1>4, <2>1, <2>2, SFrameForms, StatementEvents
    <3>2. /\ Taken(x.k, x.c) = On(Visit(s.then), y.k)
          /\ Skipped(x.k, x.c) = IF hasFalse THEN On(Visit(s.else), y.k) ELSE y.k
      BY <1>4, <2>1, <2>2, AfterIf
    <3>3. T[fn.n + 2] = P(Taken(x.k, x.c), x.c)
          /\ T[IF hasFalse THEN fn.n + 3 ELSE fn.n + 1] = P(Skipped(x.k, x.c), x.c)
      BY <1>s, <2>6, <3>2
    <3> HIDE DEF hasFalse
    <3>4. fn' = EnterTrue(EmitCondition(fn, s.cond, hasFalse, FALSE), CondBlocks(fn, hasFalse))
          /\ fn.n + (IF hasFalse THEN 3 ELSE 2) <= MaxBlock
      BY <1>6
    <3>5. Condition(fn, EnterTrue(EmitCondition(fn, s.cond, hasFalse, FALSE), CondBlocks(fn, hasFalse)),
                    CondBlocks(fn, hasFalse), hasFalse, T)
      BY <1>3, <2>1, <2>4, <3>1, <3>3, <3>4, TestMeans, ZenonT(60)
    <3> QED BY <3>4, <3>5
  <2>8. PICK m : m = fn'.n
    OBVIOUS
  <2>9. /\ c \in CondRecs /\ c.cont = n + 1 /\ c.cont # NoBlock /\ c.false = (IF hasFalse THEN n + 3 ELSE NoBlock)
        /\ m = n + (IF hasFalse THEN 3 ELSE 2) /\ Tells(fn', T, T[n + 2])
    BY <1>s, <2>7, <2>8 DEF Condition
  <2>10. /\ a \in Frames /\ a.op = "visit" /\ a.stmt = s.then
         /\ b \in Frames /\ b.op = "ifTrueExit" /\ b.cond = c /\ b.else = s.else
    <3> HIDE DEF c
    <3> QED BY <2>1, <2>9, FrameForms DEF Visit
  <2>11. PICK w \in Ghosts : w.k = On(Visit(s.then), y.k) /\ w.c = x.c /\ w.bd = x.bd /\ w.cd = x.cd
    <3>1. On(Visit(s.then), y.k) \in Conts
      BY <1>4, <2>1, SFrameForms, OnParts
    <3> QED BY <1>4, <3>1, GhostWith
  <2>12. m \in Nat /\ n <= m
    BY <1>4, <2>9
  <2> HIDE DEF a, b, c, g
  <2>13. s.then \notin FreeStmt => Exits({s.then}, y.k, w, T, m)
    <3>1. {s} \subseteq NeverContinue => {s.then} \subseteq NeverContinue
      BY <2>1, NeverParts
    <3> QED BY <1>4, <2>1, <2>2, <2>4, <2>11, <2>12, <3>1, FreeParts, ExitsKept
  <2>14. hasFalse /\ s.else \notin FreeStmt => Exits({s.else}, y.k, y, T, m)
    <3>1. hasFalse /\ {s} \subseteq NeverContinue => {s.else} \subseteq NeverContinue
      BY <2>1, NeverParts
    <3>2. s \in FreeStmt => ~(hasFalse /\ s.else \notin FreeStmt)
      BY <2>1, FreeParts
    <3> QED BY <1>4, <2>1, <2>2, <2>4, <2>12, <3>1, <3>2, ExitsKept
  <2>15. Link(a, w, y, T, m)
    <3>1. Lowers(a, w, y, T, m) /\ ~EndsLoop(a)
      BY <2>2, <2>3, <2>10, <2>11, <2>13 DEF Lowers, EndsLoop
    <3> QED BY <1>4, <2>11, <3>1, LinkOf
  <2>16. Link(b, y, y, T, m)
    <3>1. Starts(T, m, n + 1, P(y.k, y.c))
          /\ (hasFalse => Starts(T, m, n + 3, P(On(Visit(s.else), y.k), y.c)))
      BY <1>4, <2>2, <2>6, <2>9 DEF Starts
    <3>2. Lowers(b, y, y, T, m) /\ ~EndsLoop(b)
      BY <2>3, <2>9, <2>10, <2>14, <3>1 DEF Lowers, EndsLoop
    <3> QED BY <1>4, <3>2, LinkOf
  <2>17. Leads(<<a, b>>, w, y, T, m) /\ <<a, b>> \in Seq(Frames) /\ <<a, b>>[1] = a
    BY <2>10, <2>15, <2>16, LeadsTwo
  <2>18. Present(w)' /\ UNCHANGED prog /\ todo' = <<a, b>> \o Tail(todo)
    BY <1>4, <1>6, <2>11 DEF Present, SameCleanups, SameDests, Fine, Then
  <2>19. Tells(fn', T, P(w.k, w.c))
    BY <2>6, <2>9, <2>11
  <2> DEFINE fs == <<a, b>>
  <2>20. fs \in Seq(Frames) /\ fs[1].op # "branch" /\ Leads(fs, w, y, T, fn'.n) /\ todo' = fs \o Tail(todo)
         /\ Agree(S, T, fn.n) /\ fn.n <= fn'.n /\ fn'.n \in Nat
    BY <1>s, <2>4, <2>8, <2>10, <2>12, <2>17, <2>18
  <2> HIDE DEF fs
  <2> QED BY <1>1, <1>2, <2>18, <2>19, <2>20, SrcGoes
<1> QED BY <1>5, <1>6, <1>s DEF VisitIf, Require, Stmt

\* After exitTrue no code can be reached.
LEMMA ExitTrueLost ==
    ASSUME NEW f, Sound(f), NEW c, c.cont # NoBlock, c.cont \in f.linked
    PROVE  LET g == ExitTrue(f, c)
           IN  Sound(g) /\ ~HasValidIP(g) /\ g.linked = f.linked /\ g.emitted = f.emitted
<1>1. CASE ~HasValidIP(f)
  BY <1>1 DEF ExitTrue
<1>2. CASE HasValidIP(f)
  <2>1. ExitTrue(f, c) = Jump(f, c.cont)
    BY <1>2 DEF ExitTrue
  <2>2. Sound(Jump(f, c.cont)) /\ Jump(f, c.cont).ip = NoBlock
        /\ Jump(f, c.cont).linked = f.linked /\ Jump(f, c.cont).emitted = f.emitted
    BY <1>2, JumpSound
  <2> QED BY <2>1, <2>2 DEF HasValidIP
<1> QED BY <1>1, <1>2

\* The true arm leaves by the join; the false one starts where the source goes when
\* the condition does not hold.
LEMMA IfTrueExitMeans ==
    ASSUME GenInv, SrcInv, IfTrueExit
    PROVE  SrcInv'
<1>1. todo # << >> /\ Head(todo).op = "ifTrueExit"
  BY DEF IfTrueExit, Running
<1>2. PICK S, x, y, z : Ahead(S, x, y, z)
  BY <1>1, SrcAt
<1>s. PICK c, else, f : c = Head(todo).cond /\ else = Head(todo).else /\ f = ExitTrue(fn, c)
  OBVIOUS
<1>3. Lowers(todo[1], x, y, S, fn.n) /\ Tells(fn, S, Now(todo[1], x, S)) /\ todo[1] = Head(todo)
      /\ todo[1] \in Frames /\ Sound(fn)
  BY <1>1, <1>2, AheadParts
<1>4. x \in Ghosts /\ y \in Ghosts /\ x.k \in Conts /\ y.k \in Conts /\ x.c = cleanups
      /\ x.bd = breakDests /\ x.cd = continueDests /\ y.bd = x.bd /\ y.cd = x.cd
      /\ x.c \in Seq(Name) /\ Len(x.c) \in Nat
  BY <1>1, <1>2, <1>3, AheadParts DEF EndsLoop
<1>5. /\ c \in CondRecs /\ else \in LoopStmt \cup {NoStmt} /\ c.cont # NoBlock /\ c.cont \in Block
      /\ c.cont \in fn.linked /\ (c.false # NoBlock => c.false \in fn.linked \ fn.emitted /\ else \in LoopStmt)
  <2>1. c \in CondRecs /\ else \in LoopStmt \cup {NoStmt} /\ FrameFits(Head(todo), fn)
        /\ Owned(Head(todo)) \subseteq Pending(fn)
    BY <1>1, <1>3, <1>s, FrameFields, GenInvParts
  <2>2. c.cont # NoBlock /\ (c.false # NoBlock => else \in LoopStmt)
        /\ Owned(Head(todo)) = {c.cont, c.false} \ {NoBlock}
    BY <1>1, <1>s, <2>1, SMTT(30) DEF FrameFits, Owned
  <2> QED BY <2>1, <2>2 DEF CondRecs, Pending
<1>6. /\ x.k = y.k /\ y.c = x.c /\ Starts(S, fn.n, c.cont, P(x.k, x.c))
      /\ c.false # NoBlock => /\ Starts(S, fn.n, c.false, P(On(Visit(else), y.k), x.c))
                              /\ else.kind # "var"
                              /\ else \notin FreeStmt => Exits({else}, y.k, x, S, fn.n)
      /\ Tells(fn, S, P(x.k, x.c))
  BY <1>1, <1>3, <1>s, <1>5 DEF Lowers, Now
<1>7. Tells(f, S, P(x.k, x.c)) /\ f.n = fn.n /\ Sound(f) /\ ~HasValidIP(f)
      /\ f.linked = fn.linked /\ f.emitted = fn.emitted
  BY <1>3, <1>5, <1>6, <1>s, FollowsSelf, ExitTrueTells, ExitTrueLost DEF Starts
<1> DEFINE a == Visit(else)
           b == [op |-> "ifFalseExit", cond |-> c]
           d == [op |-> "complete", cond |-> c]
<1>8. CASE c.false # NoBlock /\ fn' = Start(f, c.false) /\ Then(<<a, b>>) /\ SameCleanups /\ SameDests /\ Fine
  <2>1. /\ a \in Frames /\ a.op = "visit" /\ a.stmt = else
        /\ b \in Frames /\ b.op = "ifFalseExit" /\ b.cond = c
    BY <1>5, <1>8, FrameForms DEF Visit
  <2>2. PICK w \in Ghosts : w.k = On(Visit(else), y.k) /\ w.c = x.c /\ w.bd = x.bd /\ w.cd = x.cd
    <3>1. On(Visit(else), y.k) \in Conts
      BY <1>4, <1>5, <1>8, SFrameForms, OnParts
    <3> QED BY <1>4, <3>1, GhostWith
  <2>3. Tells(fn', S, P(w.k, w.c))
    <3>1. Tells(Start(f, c.false), S, S[c.false])
      BY <1>5, <1>7, <1>8, StartTells
    <3> QED BY <1>6, <1>8, <2>2, <3>1 DEF Starts
  <2>4. fn'.n = fn.n
    BY <1>7, <1>8, SoundCounts, Counts
  <2> HIDE DEF a, b
  <2>5. else \notin FreeStmt => Exits({else}, y.k, w, S, fn.n)
    BY <1>4, <1>6, <1>8, <2>2 DEF Exits
  <2>6. Link(a, w, y, S, fn.n) /\ Link(b, y, y, S, fn.n)
    <3>1. Lowers(a, w, y, S, fn.n) /\ ~EndsLoop(a)
      BY <1>6, <1>8, <2>1, <2>2, <2>5 DEF Lowers, EndsLoop
    <3>2. Lowers(b, y, y, S, fn.n) /\ ~EndsLoop(b)
      BY <1>6, <2>1 DEF Lowers, EndsLoop
    <3> QED BY <1>4, <2>2, <3>1, <3>2, LinkOf
  <2>7. Present(w)' /\ UNCHANGED prog
    BY <1>4, <1>8, <2>2 DEF Present, SameCleanups, SameDests, Fine
  <2> QED BY <1>1, <1>2, <1>8, <2>1, <2>3, <2>4, <2>6, <2>7, SrcSplits
<1>9. CASE fn' = f /\ Then(<<d>>) /\ SameCleanups /\ SameDests /\ Fine
  <2>1. d \in Frames /\ d.op = "complete" /\ d.cond = c
    BY <1>5, FrameForms
  <2> HIDE DEF d
  <2>2. Link(d, x, y, S, fn.n)
    <3>1. Lowers(d, x, y, S, fn.n) /\ ~EndsLoop(d)
      BY <1>6, <2>1 DEF Lowers, EndsLoop
    <3> QED BY <1>4, <3>1, LinkOf
  <2>3. Present(x)' /\ UNCHANGED prog
    BY <1>4, <1>9 DEF Present, SameCleanups, SameDests, Fine
  <2> QED BY <1>1, <1>2, <1>7, <1>9, <2>1, <2>2, <2>3, SrcMoves
<1>10. ASSUME NEW what, Abort(what) PROVE SrcInv'
  BY <1>10, AbortMeans, SMTT(60)
<1> QED BY <1>8, <1>9, <1>10, <1>s DEF IfTrueExit, Require, Frame

\* The false arm leaves by the join too; a branch that is taken back leaves the code
\* where the source gets to the join.
LEMMA IfFalseExitMeans ==
    ASSUME GenInv, SrcInv, IfFalseExit
    PROVE  SrcInv'
<1>1. todo # << >> /\ Head(todo).op = "ifFalseExit"
  BY DEF IfFalseExit, Running
<1>2. PICK S, x, y, z : Ahead(S, x, y, z)
  BY <1>1, SrcAt
<1>s. PICK c, cont : c = Head(todo).cond /\ cont = c.cont
  OBVIOUS
<1>3. Lowers(todo[1], x, y, S, fn.n) /\ Tells(fn, S, Now(todo[1], x, S)) /\ todo[1] = Head(todo)
      /\ todo[1] \in Frames /\ Sound(fn) /\ fn \in FunctionType
  BY <1>1, <1>2, AheadParts
<1>4. x \in Ghosts /\ y \in Ghosts /\ x.k \in Conts /\ y.k \in Conts /\ x.c = cleanups
      /\ x.bd = breakDests /\ x.cd = continueDests /\ y.bd = x.bd /\ y.cd = x.cd
      /\ x.c \in Seq(Name) /\ Len(x.c) \in Nat
  BY <1>1, <1>2, <1>3, AheadParts DEF EndsLoop
<1>5. c \in CondRecs /\ cont # NoBlock /\ cont \in Block /\ OneJump(fn, cont)
  <2>1. c \in CondRecs /\ FrameFits(Head(todo), fn)
    BY <1>1, <1>3, <1>s, FrameFields, GenInvParts, SMTT(30)
  <2> QED BY <1>1, <1>s, <2>1 DEF FrameFits, CondRecs
<1>6. /\ x.k = y.k /\ y.c = x.c /\ S[cont] = P(x.k, x.c) /\ Starts(S, fn.n, cont, P(x.k, x.c))
      /\ Tells(fn, S, P(x.k, x.c))
  BY <1>1, <1>3, <1>s, <1>5 DEF Lowers, Now, Starts
<1> DEFINE pred == Head(fn.preds[cont])
           zapped == [EraseTerminator(fn, pred) EXCEPT !.ip = pred]
           to == [op |-> "complete", cond |-> c]
           done == Then(<<to>>) /\ SameCleanups /\ SameDests /\ Fine
<1>7. ASSUME done, Tells(fn', S, P(x.k, x.c)), fn'.n = fn.n
      PROVE  SrcInv'
  <2>1. to \in Frames /\ to.op = "complete" /\ to.cond = c
    BY <1>5, FrameForms
  <2>2. Present(x)' /\ UNCHANGED prog /\ Then(<<to>>)
    BY <1>4, <1>7 DEF Present, SameCleanups, SameDests, Fine
  <2> HIDE DEF to
  <2>3. Link(to, x, y, S, fn.n)
    <3>1. Lowers(to, x, y, S, fn.n) /\ ~EndsLoop(to)
      BY <1>6, <1>s, <2>1 DEF Lowers, EndsLoop
    <3> QED BY <1>4, <3>1, LinkOf
  <2> QED BY <1>1, <1>2, <1>7, <2>1, <2>2, <2>3, SrcMoves
<1>8. CASE PredEmpty(fn, cont) /\ UNCHANGED fn /\ done
  BY <1>6, <1>7, <1>8
<1>9. CASE ~PredEmpty(fn, cont) /\ ~HasValidIP(fn) /\ fn' = zapped /\ done
  <2>1. zapped.n = fn.n
    BY <1>3, <1>5, <1>9, ZapSound
  <2>2. Tells(zapped, S, S[cont])
    BY <1>3, <1>5, <1>6, <1>9, ZapTells
  <2> QED BY <1>6, <1>7, <1>9, <2>1, <2>2
<1>10. CASE ~PredEmpty(fn, cont) /\ HasValidIP(fn) /\ fn' = Jump(fn, cont) /\ done
  <2>1. Tells(fn', S, P(x.k, x.c))
    BY <1>3, <1>5, <1>6, <1>10, FollowsSelf, JumpTells
  <2>2. fn'.n = fn.n
    BY <1>3, <1>10, SoundCounts, Counts
  <2> QED BY <1>7, <1>10, <2>1, <2>2
<1>11. ASSUME NEW what, Abort(what) PROVE SrcInv'
  BY <1>11, AbortMeans
<1> QED BY <1>8, <1>9, <1>10, <1>11, <1>s, ZenonT(60) DEF IfFalseExit, Require, Frame

\* The join starts where the source is after either arm.
LEMMA CompleteMeans ==
    ASSUME GenInv, SrcInv, Complete
    PROVE  SrcInv'
<1>1. todo # << >> /\ Head(todo).op = "complete"
  BY DEF Complete, Running
<1>2. PICK S, x, y, z : Ahead(S, x, y, z)
  BY <1>1, SrcAt
<1>s. PICK cont : cont = Head(todo).cond.cont
  OBVIOUS
<1>3. Lowers(todo[1], x, y, S, fn.n) /\ Tells(fn, S, Now(todo[1], x, S)) /\ todo[1] = Head(todo)
      /\ todo[1] \in Frames /\ Sound(fn) /\ fn \in FunctionType
  BY <1>1, <1>2, AheadParts
<1>4. x \in Ghosts /\ y \in Ghosts /\ x.c = cleanups
      /\ x.bd = breakDests /\ x.cd = continueDests /\ y.bd = x.bd /\ y.cd = x.cd
  BY <1>1, <1>2, <1>3, AheadParts DEF EndsLoop
<1>5. cont # NoBlock => cont \in fn.linked \ fn.emitted
  <2>1. Owned(Head(todo)) \subseteq Pending(fn)
    BY <1>1, <1>3, GenInvParts, SMTT(30)
  <2> QED BY <1>1, <1>s, <2>1 DEF Owned, Pending
<1>6. /\ x.k = y.k /\ y.c = x.c /\ (cont # NoBlock => S[cont] = P(x.k, x.c))
      /\ Tells(fn, S, P(x.k, x.c))
  BY <1>1, <1>3, <1>s DEF Lowers, Now, Starts
<1> DEFINE done == Then(<< >>) /\ SameCleanups /\ SameDests /\ Fine
<1>7. ASSUME done, Tells(fn', S, P(x.k, x.c)), fn'.n = fn.n
      PROVE  SrcInv'
  <2>1. Present(y)' /\ UNCHANGED prog /\ Then(<< >>)
    BY <1>4, <1>6, <1>7 DEF Present, SameCleanups, SameDests, Fine
  <2> QED BY <1>1, <1>2, <1>6, <1>7, <2>1, SrcDrops
<1>8. CASE UNCHANGED fn /\ done
  BY <1>6, <1>7, <1>8
<1>9. CASE fn' = EraseBlock(fn, cont) /\ done
  <2>1. Tells(fn', S, P(x.k, x.c))
    BY <1>3, <1>6, <1>9, NewTells
  <2>2. fn'.n = fn.n
    BY <1>3, <1>9, SoundCounts, Counts
  <2> QED BY <1>7, <1>9, <2>1, <2>2
<1>10. CASE cont # NoBlock /\ fn' = Start(fn, cont) /\ done
  <2>1. Tells(fn', S, P(x.k, x.c))
    BY <1>3, <1>5, <1>6, <1>10, FollowsSelf, StartTells
  <2>2. fn'.n = fn.n
    BY <1>3, <1>10, SoundCounts, Counts
  <2> QED BY <1>7, <1>10, <2>1, <2>2
<1>11. ASSUME NEW what, Abort(what) PROVE SrcInv'
  BY <1>11, AbortMeans
<1> QED BY <1>8, <1>9, <1>10, <1>11, <1>s DEF Complete, Require, Frame
-----------------------------------------------------------------------------
(* Loops *)

\* A while, a do-while and a for-each have a condition.
LEMMA TestedParts ==
    ASSUME NEW s \in LoopStmt, s.kind \in {"while", "dowhile", "foreach"}
    PROVE  s.cond # NoName
BY StatementAssumption DEF Grammar, Made

\* The body of a loop is no declaration.
LEMMA LoopBody ==
    ASSUME NEW s \in LoopStmt, s.kind \in {"while", "dowhile", "for", "foreach"}
    PROVE  s.body.kind # "var"
<1>1. DeclaresOnce(s)
  BY ScopeAssumption
<1>2. \E vs : Inside(s.body, s, vs)
  <2>1. CASE s.kind \in {"while", "dowhile"}
    BY <1>1, <2>1 DEF DeclaresOnce
  <2>2. CASE s.kind = "for"
    BY <1>1, <2>2 DEF DeclaresOnce
  <2>3. CASE s.kind = "foreach"
    BY <1>1, <2>3 DEF DeclaresOnce
  <2> QED BY <2>1, <2>2, <2>3
<1> QED BY <1>2 DEF Inside

\* w is inside the loop around x: a break goes to block bb, a continue to block cb.
Within(w, x, kk, c, bb, cb) ==
    LET dest(b) == [block |-> b, depth |-> Len(x.c)]
    IN  /\ w \in Ghosts /\ w.k = kk /\ w.c = c
        /\ w.bd = Append(x.bd, dest(bb)) /\ w.cd = Append(x.cd, dest(cb))
        /\ Popped(w.bd) = x.bd /\ Popped(w.cd) = x.cd
        /\ w.bd # << >> /\ w.bd[Len(w.bd)] = dest(bb)
        /\ w.cd # << >> /\ w.cd[Len(w.cd)] = dest(cb)

\* There is a ghost of a statement inside a loop.
LEMMA GhostWithin ==
    ASSUME NEW x \in Ghosts, NEW kk \in Conts, NEW c \in Seq(Name), NEW bb \in Block, NEW cb \in Block
    PROVE  \E w : Within(w, x, kk, c, bb, cb)
<1> DEFINE b == [block |-> bb, depth |-> Len(x.c)]
           d == [block |-> cb, depth |-> Len(x.c)]
           w == [k |-> kk, c |-> c, bd |-> Append(x.bd, b), cd |-> Append(x.cd, d)]
<1>1. x.bd \in Seq(Dests) /\ x.cd \in Seq(Dests) /\ x.c \in Seq(Name)
  BY DEF Ghosts
<1>2. b \in Dests /\ d \in Dests
  BY <1>1 DEF Dests
<1>3. ASSUME NEW ds \in Seq(Dests), NEW e \in Dests
      PROVE  /\ Append(ds, e) \in Seq(Dests) /\ Popped(Append(ds, e)) = ds
             /\ Append(ds, e) # << >> /\ Append(ds, e)[Len(Append(ds, e))] = e
  BY DEF Popped
<1> HIDE DEF b, d
<1>4. w \in Ghosts
  BY <1>1, <1>2, <1>3 DEF Ghosts
<1>5. /\ Popped(w.bd) = x.bd /\ w.bd # << >> /\ w.bd[Len(w.bd)] = b
      /\ Popped(w.cd) = x.cd /\ w.cd # << >> /\ w.cd[Len(w.cd)] = d
  BY <1>1, <1>2, <1>3
<1>6. w.k = kk /\ w.c = c /\ w.bd = Append(x.bd, b) /\ w.cd = Append(x.cd, d)
  OBVIOUS
<1> HIDE DEF w
<1>7. Within(w, x, kk, c, bb, cb)
  BY <1>4, <1>5, <1>6 DEF Within, b, d
<1> QED BY <1>7

\* The jumps of a loop land at its end and at its test.
LEMMA LoopExits ==
    ASSUME NEW x \in Ghosts, NEW w, NEW kk, NEW bb, NEW cb, Within(w, x, kk, x.c, bb, cb),
           NEW s \in LoopStmt, NEW r \in Conts, NEW l, l = On(Loop(s, Len(x.c)), r),
           NEW S, NEW n, Starts(S, n, bb, P(r, x.c)),
           NEW T, T \subseteq NeverContinue \/ Starts(S, n, cb, P(l, x.c))
    PROVE  Exits(T, l, w, S, n)
<1> DEFINE d == Len(x.c)
           fr == Loop(s, d)
           none == << >>
<1>1. x.c \in Seq(Name) /\ d \in Nat /\ fr \in SFrames
  BY SFrameForms DEF Ghosts
<1>2. none \in Conts /\ none \o On(fr, r) = On(fr, r) /\ \A kind : Clear(none, kind)
  <2>1. On(fr, r) \in Conts
    BY <1>1, OnParts
  <2>2. none \o On(fr, r) = On(fr, r)
    BY <2>1, ListOn
  <2> QED BY <2>2 DEF Conts, Clear
<1>3. fr.op = "loop" /\ fr.depth = d /\ \A kind : Stops(fr, kind)
  BY DEF Loop, Stops
<1>4. Begin(x.c, d) = x.c /\ d \in 0 .. Len(x.c)
  BY <1>1, WiderMore
<1>5. w.c = x.c /\ w.bd # << >> /\ w.bd[Len(w.bd)].depth = d /\ w.bd[Len(w.bd)].block = bb
      /\ w.cd # << >> /\ w.cd[Len(w.cd)].depth = d /\ w.cd[Len(w.cd)].block = cb
  BY DEF Within
<1> HIDE DEF d, fr, none
<1>6. l = none \o On(fr, r)
  BY <1>2 DEF fr, d
<1>7. Lands("break", l, w.c, w.bd, S, n)
  BY <1>1, <1>2, <1>3, <1>4, <1>5, <1>6 DEF Lands
<1>8. T \subseteq NeverContinue \/ Lands("continue", l, w.c, w.cd, S, n)
  BY <1>1, <1>2, <1>3, <1>4, <1>5, <1>6 DEF Lands
<1> QED BY <1>7, <1>8 DEF Exits

\* The frames of the end of a loop.
LEMMA FinallyFrames ==
    ASSUME NEW bb \in Block, NEW cond \in CondRecs
    PROVE  Finally(cond, bb) \in Seq(Frames)
<1> DEFINE a == [op |-> "complete", cond |-> cond]
           b == [op |-> "endLoop", end |-> bb]
<1>1. a \in Frames /\ b \in Frames /\ Finally(cond, bb) = <<a, b>>
  BY FrameForms DEF Finally
<1> HIDE DEF a, b
<1> QED BY <1>1

\* The end of a loop, from the ghost inside it to the one after it.
LEMMA FinallyLeads ==
    ASSUME NEW y \in Ghosts, NEW w \in Ghosts, w.k = y.k, w.c = y.c,
           Popped(w.bd) = y.bd, Popped(w.cd) = y.cd, NEW bb \in Block, NEW cond \in CondRecs,
           NEW S, NEW n, Starts(S, n, bb, P(y.k, y.c)),
           cond.cont # NoBlock => Starts(S, n, cond.cont, P(y.k, y.c))
    PROVE  Finally(cond, bb) \in Seq(Frames) /\ Leads(Finally(cond, bb), w, y, S, n)
<1> DEFINE a == [op |-> "complete", cond |-> cond]
           b == [op |-> "endLoop", end |-> bb]
<1>1. a \in Frames /\ a.op = "complete" /\ a.cond = cond /\ b \in Frames /\ b.op = "endLoop" /\ b.end = bb
  BY FrameForms
<1>2. Finally(cond, bb) = <<a, b>>
  BY DEF Finally
<1> HIDE DEF a, b
<1>4. Link(a, w, w, S, n)
  <2>1. Lowers(a, w, w, S, n) /\ ~EndsLoop(a)
    BY <1>1 DEF Lowers, EndsLoop
  <2> QED BY <2>1, LinkOf
<1>5. Link(b, w, y, S, n)
  <2>1. Lowers(b, w, y, S, n) /\ EndsLoop(b)
    BY <1>1 DEF Lowers, EndsLoop
  <2> QED BY <2>1 DEF Link
<1> QED BY <1>1, <1>2, <1>4, <1>5, LeadsTwo

\* The head of a loop that starts where the source gets to silently.
Headed(g, n, S) ==
    /\ Sound(g) /\ g.n = fn.n + n + 1 /\ HasValidIP(g) /\ 1 .. g.n \subseteq Block
    /\ Tells(g, S, S[fn.n + 1])

\* The head of a loop starts where the loop does.
LEMMA HeadMeans ==
    ASSUME Sound(fn), NEW n \in {1, 2}, fn.n + n + 1 <= MaxBlock, NEW S, NEW x, Tells(fn, S, x),
           Follows(x, S[fn.n + 1])
    PROVE  Headed(LoopHead(n), n, S)
<1>1. fn.n \in Nat /\ n \in Nat
  BY SoundCounts
<1>2. Sound(LoopHead(n)) /\ LoopHead(n).n = fn.n + n + 1 /\ LoopHead(n).ip = fn.n + 1
  BY LoopHeadSound
<1>3. 1 .. fn.n + n + 1 \subseteq Block /\ fn.n + 1 # NoBlock
  BY <1>1, MaxBlockAssumption DEF Block, NoBlock
<1>4. Tells(LoopHead(n), S, S[fn.n + 1])
  BY HeadTells
<1> HIDE DEF LoopHead
<1> QED BY <1>2, <1>3, <1>4 DEF Headed, HasValidIP

\* The ghosts of the end of a loop with a test, from the jump back on.
LEMMA TailLeads ==
    ASSUME NEW x \in Ghosts, NEW y \in Ghosts, y.c = x.c, y.bd = x.bd, y.cd = x.cd, NEW l \in Conts,
           NEW w, NEW bb \in Block, NEW cb \in Block, Within(w, x, l, x.c, bb, cb),
           NEW loop \in Block, NEW cond \in CondRecs, NEW S, NEW n,
           Starts(S, n, loop, P(l, x.c)), Starts(S, n, bb, P(y.k, x.c)),
           cond.cont # NoBlock => Starts(S, n, cond.cont, P(y.k, x.c))
    PROVE  LET fs == <<[op |-> "loopBack", loop |-> loop, cond |-> cond]>>
           IN  fs \o Finally(cond, bb) \in Seq(Frames) /\ Leads(fs \o Finally(cond, bb), w, y, S, n)
<1> DEFINE a == [op |-> "loopBack", loop |-> loop, cond |-> cond]
           fs == <<a>>
<1>1. a \in Frames /\ a.op = "loopBack" /\ a.loop = loop
  BY FrameForms
<1> HIDE DEF a
<1>2. y.k \in Conts /\ x.c \in Seq(Name)
  BY DEF Ghosts
<1>3. PICK m : Within(m, x, y.k, x.c, bb, cb)
  BY <1>2, GhostWithin
<1>4. m \in Ghosts /\ m.k = y.k /\ m.c = x.c /\ Popped(m.bd) = x.bd /\ Popped(m.cd) = x.cd
      /\ w \in Ghosts /\ w.k = l /\ w.c = x.c /\ m.bd = w.bd /\ m.cd = w.cd
  BY <1>3 DEF Within
<1>5. Link(a, w, m, S, n)
  <2>1. Lowers(a, w, m, S, n) /\ ~EndsLoop(a)
    BY <1>1, <1>4 DEF Lowers, EndsLoop
  <2> QED BY <1>4, <2>1, LinkOf
<1>6. fs \in Seq(Frames) /\ Leads(fs, w, m, S, n)
  BY <1>1, <1>5, LeadsOne
<1>7. Finally(cond, bb) \in Seq(Frames) /\ Leads(Finally(cond, bb), m, y, S, n)
  BY <1>4, FinallyLeads
<1> HIDE DEF fs
<1>8. fs \o Finally(cond, bb) \in Seq(Frames) /\ Leads(fs \o Finally(cond, bb), w, y, S, n)
  <2>1. Leads(fs \o Finally(cond, bb), w, y, S, n)
    BY <1>6, <1>7, LeadsBoth
  <2>2. fs \o Finally(cond, bb) \in Seq(Frames)
    BY <1>6, <1>7, Concatenated
  <2> QED BY <2>1, <2>2
<1> QED BY <1>8 DEF fs, a

\* A step that opens a loop.
LEMMA SrcOpens ==
    ASSUME GenInv, todo # << >>, NEW S, NEW x, NEW y, NEW z, Ahead(S, x, y, z),
           NEW fs \in Seq(Frames), fs[1].op # "branch", Then(fs), SameCleanups, Fine,
           NEW bb, NEW cb, PushDests(bb, cb), NEW T, Agree(S, T, fn.n), fn.n <= fn'.n, fn'.n \in Nat,
           NEW kk, NEW w, Within(w, x, kk, x.c, bb, cb), Leads(fs, w, y, T, fn'.n), Tells(fn', T, P(kk, x.c))
    PROVE  SrcInv'
<1>1. x.c = cleanups /\ x.bd = breakDests /\ x.cd = continueDests
  BY AheadParts
<1>2. Present(w)'
  BY <1>1 DEF Present, Within, PushDests, SameCleanups, Depth
<1>3. UNCHANGED prog /\ todo' = fs \o Tail(todo) /\ w.k = kk /\ w.c = x.c
  BY DEF Fine, Then, Within
<1> QED BY <1>2, <1>3, SrcGoes

\* The first of two frames in front of others.
LEMMA SplitFirst ==
    ASSUME NEW a \in Frames, NEW b \in Frames, NEW q \in Seq(Frames)
    PROVE  <<a, b>> \o q = <<a>> \o (<<b>> \o q)
<1> DEFINE p == <<a>>
           r == <<b>>
<1>1. p \in Seq(Frames) /\ r \in Seq(Frames)
  OBVIOUS
<1>3. p \o r = <<a, b>>
  BY PairOf
<1> HIDE DEF p, r
<1>2. (p \o r) \o q = p \o (r \o q)
  BY <1>1, ConcatAssociative, SMTT(30)
<1> QED BY <1>3, <1>2 DEF p, r

\* The test of a while or a do-while.
LEMMA WhileTests ==
    ASSUME NEW s \in LoopStmt, s.kind \in {"while", "dowhile"}, NEW d \in Nat, NEW r \in Conts,
           NEW c, Len(c) \in Nat, NEW l, l = On(Loop(s, d), r)
    PROVE  Taken(l, c) = On(Visit(s.body), l) /\ Skipped(l, c) = r
BY AfterLoop

\* What follows a condition without false code.
LEMMA LoopConditionParts ==
    ASSUME NEW f, NEW g, NEW c, NEW S, LoopCondition(f, g, c, S), NEW n, f.n = n, n \in Nat
    PROVE  /\ c \in CondRecs /\ c.cont = n + 1 /\ c.false = NoBlock /\ g.n = n + 2
           /\ Tells(g, S, S[n + 2]) /\ Sound(g) /\ HasValidIP(g)
BY DEF LoopCondition, Condition

\* A while loop: the source tests at its head again and again.
LEMMA VisitWhileMeans ==
    ASSUME GenInv, SrcInv, VisitWhile
    PROVE  SrcInv'
<1>1. todo # << >> /\ Head(todo).op = "visit" /\ Head(todo).stmt.kind = "while"
  BY DEF VisitWhile, Visiting, Running
<1>2. PICK S, x, y, z : Ahead(S, x, y, z)
  BY <1>1, SrcAt
<1>s. PICK s, n, d : s = Head(todo).stmt /\ n = fn.n /\ d = Len(x.c)
  OBVIOUS
<1>3. Lowers(todo[1], x, y, S, fn.n) /\ Tells(fn, S, Now(todo[1], x, S)) /\ todo[1] = Head(todo)
      /\ todo[1] \in Frames /\ Sound(fn)
  BY <1>1, <1>2, AheadParts
<1>4. x \in Ghosts /\ y \in Ghosts /\ x.k \in Conts /\ y.k \in Conts /\ y.bd = x.bd /\ y.cd = x.cd
      /\ x.c \in Seq(Name) /\ d \in Nat /\ Wider(x.c, x.c) /\ n \in Nat
  BY <1>1, <1>2, <1>3, <1>s, AheadParts DEF EndsLoop
<1>5. s \in LoopStmt /\ s.kind = "while" /\ s.cond \in Name /\ s.cond # NoName /\ s.body \in LoopStmt
      /\ s.body.kind # "var"
  BY <1>1, <1>3, <1>s, FrameFields, StatementParts, TestedParts, LoopBody, SMTT(30)
<1>6. x.k = On(Visit(s), y.k) /\ y.c = x.c /\ Tells(fn, S, P(x.k, x.c))
  BY <1>1, <1>3, <1>s, <1>5 DEF Lowers, Now
<1> DEFINE l == On(Loop(s, d), y.k)
           h == LoopHead(1)
           c == CondBlocks(h, FALSE)
           a == Visit(s.body)
           b == [op |-> "loopBack", loop |-> n + 1, cond |-> c]
<1>7. /\ n + 4 <= MaxBlock /\ fn' = EnterTrue(EmitCondition(h, s.cond, FALSE, FALSE), c)
      /\ PushDests(n + 2, n + 1) /\ Then(<<a, b>> \o Finally(c, n + 2)) /\ SameCleanups /\ Fine
  <2>1. NextBlock(fn) = n + 1 /\ NextBlock(fn) + 1 = n + 2 /\ Stmt = s
    BY <1>4, <1>s DEF NextBlock, Stmt
  <2> HIDE DEF h
  <2>2. PICK head \in {h} :
           /\ fn' = EnterTrue(EmitCondition(head, s.cond, FALSE, FALSE), CondBlocks(head, FALSE))
           /\ PushDests(n + 2, n + 1)
           /\ Then(<<a, [op |-> "loopBack", loop |-> n + 1, cond |-> CondBlocks(head, FALSE)]>>
                   \o Finally(CondBlocks(head, FALSE), n + 2))
    BY <2>1 DEF VisitWhile, h
  <2>3. n + 4 <= MaxBlock /\ SameCleanups /\ Fine
    BY <1>s DEF VisitWhile
  <2> QED BY <2>2, <2>3
<1>8. n + 1 \in Block /\ n + 2 \in Block /\ n + 3 \in Block /\ n + 4 \in Block
  BY <1>4, <1>7, MaxBlockAssumption DEF Block
<1>9. l \in Conts /\ Visit(s) \in SFrames /\ On(Visit(s.body), l) \in Conts
  BY <1>4, <1>5, SFrameForms, OnParts
<1> DEFINE U == [e \in Block |-> IF e = n + 1 THEN P(l, x.c)
                                 ELSE IF e = n + 4 THEN P(On(Visit(s.body), l), x.c) ELSE P(y.k, x.c)]
           T == Chosen(fn, S, U)
<1>10. Tells(fn, T, P(x.k, x.c)) /\ Agree(S, T, n) /\ \A e \in Block : e > n => T[e] = U[e]
  BY <1>3, <1>s, <1>6, ChosenTells
<1>11. T[n + 1] = P(l, x.c) /\ T[n + 2] = P(y.k, x.c) /\ T[n + 3] = P(y.k, x.c)
       /\ T[n + 4] = P(On(Visit(s.body), l), x.c)
  <2> HIDE DEF T, l
  <2> QED BY <1>4, <1>8, <1>10
<1> HIDE DEF U, T
<1>12. Headed(h, 1, T)
  <2>1. Reaches(State(x.k, x.c), State(l, x.c))
    BY <1>4, <1>5, <1>6, <1>s, WhileStep
  <2> HIDE DEF l, h
  <2>2. Follows(P(x.k, x.c), T[fn.n + 1])
    BY <1>s, <1>11, <2>1 DEF Follows, P
  <2>3. fn.n + 1 + 1 <= MaxBlock
    BY <1>4, <1>7, <1>s, MaxBlockAssumption, SMTT(30)
  <2> QED BY <1>3, <1>10, <2>2, <2>3, HeadMeans DEF h
<1>13. Sound(h) /\ h.n = n + 2 /\ HasValidIP(h) /\ Tells(h, T, P(l, x.c))
  <2> HIDE DEF l, h
  <2> QED BY <1>4, <1>11, <1>12, <1>s DEF Headed
<1>14. LoopCondition(h, fn', c, T)
  <2>1. SourceEvent(l) = Event("condbr", s.cond)
    BY <1>4, <1>5, LoopEvent
  <2>2. Taken(l, x.c) = On(Visit(s.body), l) /\ Skipped(l, x.c) = y.k
    BY <1>4, <1>5, <1>s, WhileTests
  <2> HIDE DEF l, h
  <2>3. T[h.n + 2] = P(Taken(l, x.c), x.c) /\ T[h.n + 1] = P(Skipped(l, x.c), x.c)
        /\ h.n + 2 <= MaxBlock
    <3>1. h.n + 2 = n + 4 /\ h.n + 1 = n + 3
      BY <1>4, <1>13
    <3> QED BY <1>7, <1>11, <2>2, <3>1
  <2> QED BY <1>5, <1>7, <1>13, <2>1, <2>3, LoopTestMeans
<1> HIDE DEF h
<1>15. /\ c \in CondRecs /\ c.cont = n + 3 /\ fn'.n = n + 4
       /\ Tells(fn', T, P(On(Visit(s.body), l), x.c))
  <2> HIDE DEF c, l
  <2>1. n + 2 \in Nat /\ n + 2 + 1 = n + 3 /\ n + 2 + 2 = n + 4
    BY <1>4
  <2> QED BY <1>11, <1>13, <1>14, <2>1, LoopConditionParts
<1>16. PICK m : m = fn'.n
  OBVIOUS
<1>17. Starts(T, m, n + 1, P(l, x.c)) /\ Starts(T, m, n + 2, P(y.k, x.c)) /\ Starts(T, m, n + 3, P(y.k, x.c))
  BY <1>4, <1>11, <1>15, <1>16 DEF Starts
<1> HIDE DEF c
<1>18. a \in Frames /\ a.op = "visit" /\ a.stmt = s.body /\ b \in Frames
  BY <1>5, <1>8, <1>15, FrameForms DEF Visit
<1>19. PICK w : Within(w, x, On(Visit(s.body), l), x.c, n + 2, n + 1)
  BY <1>4, <1>8, <1>9, GhostWithin
<1>20. PICK v : Within(v, x, l, x.c, n + 2, n + 1)
  BY <1>4, <1>8, <1>9, GhostWithin
<1>21. Exits({s.body}, l, v, T, m)
  BY <1>4, <1>5, <1>17, <1>20, <1>s, LoopExits
<1> HIDE DEF a, l
<1>22. /\ w \in Ghosts /\ w.k = On(Visit(s.body), l) /\ w.c = x.c /\ v \in Ghosts /\ v.k = l /\ v.c = x.c
       /\ v.bd = w.bd /\ v.cd = w.cd
  BY <1>19, <1>20 DEF Within
<1>23. Link(a, w, v, T, m)
  <2>1. Exits({s.body}, l, w, T, m)
    BY <1>21, <1>22 DEF Exits
  <2>2. Lowers(a, w, v, T, m) /\ ~EndsLoop(a)
    BY <1>5, <1>18, <1>22, <2>1 DEF Lowers, EndsLoop
  <2> QED BY <1>22, <2>2, LinkOf
<1>24. <<b>> \o Finally(c, n + 2) \in Seq(Frames) /\ Leads(<<b>> \o Finally(c, n + 2), v, y, T, m)
       /\ Finally(c, n + 2) \in Seq(Frames)
  <2>1. Finally(c, n + 2) \in Seq(Frames)
    BY <1>8, <1>15, FinallyFrames
  <2> QED BY <1>4, <1>6, <1>8, <1>9, <1>15, <1>17, <1>20, <2>1, TailLeads DEF l
<1> DEFINE tail == <<b>> \o Finally(c, n + 2)
           fs == <<a>> \o tail
<1>25. <<a>> \in Seq(Frames) /\ Leads(<<a>>, w, v, T, m)
  BY <1>18, <1>23, LeadsOne
<1>26. Then(fs)
  BY <1>7, <1>18, <1>24, SplitFirst
<1> HIDE DEF tail, b
<1>27. fs \in Seq(Frames) /\ fs[1] = a /\ Leads(fs, w, y, T, m)
  <2>1. tail \in Seq(Frames) /\ Leads(tail, v, y, T, m)
    BY <1>24 DEF tail
  <2>2. Leads(fs, w, y, T, m)
    BY <1>25, <2>1, LeadsBoth
  <2>3. fs \in Seq(Frames) /\ fs[1] = a
    BY <1>18, <2>1
  <2> QED BY <2>2, <2>3
<1> HIDE DEF fs
<1>28. Agree(S, T, fn.n) /\ fn.n <= fn'.n /\ fn'.n \in Nat
  BY <1>4, <1>10, <1>15, <1>s
<1> QED BY <1>1, <1>2, <1>7, <1>15, <1>16, <1>18, <1>19, <1>26, <1>27, <1>28, SrcOpens

\* Back to the head of the loop; what comes after it is not reached from here.
LEMMA LoopBackMeans ==
    ASSUME GenInv, SrcInv, LoopBack
    PROVE  SrcInv'
<1>1. todo # << >> /\ Head(todo).op = "loopBack"
  BY DEF LoopBack, Running
<1>2. PICK S, x, y, z : Ahead(S, x, y, z)
  BY <1>1, SrcAt
<1>s. PICK loop, g : loop = Head(todo).loop /\ g = (IF HasValidIP(fn) THEN Jump(fn, loop) ELSE fn)
  OBVIOUS
<1>3. Lowers(todo[1], x, y, S, fn.n) /\ Tells(fn, S, Now(todo[1], x, S)) /\ todo[1] = Head(todo)
      /\ todo[1] \in Frames /\ Sound(fn) /\ fn \in FunctionType
  BY <1>1, <1>2, AheadParts
<1>4. x \in Ghosts /\ y \in Ghosts /\ x.c = cleanups
      /\ x.bd = breakDests /\ x.cd = continueDests /\ y.bd = x.bd /\ y.cd = x.cd
  BY <1>1, <1>2, <1>3, AheadParts DEF EndsLoop
<1>5. loop \in Block
  BY <1>1, <1>3, <1>s, FrameFields, SMTT(30)
<1>6. y.c = x.c /\ S[loop] = P(x.k, x.c) /\ Tells(fn, S, P(x.k, x.c))
  BY <1>1, <1>3, <1>s DEF Lowers, Now, Starts
<1>7. Tells(g, S, P(y.k, y.c)) /\ g.n = fn.n /\ ~HasValidIP(g)
  <2>1. CASE HasValidIP(fn)
    <3>1. ~HasValidIP(Jump(fn, loop)) /\ Tells(Jump(fn, loop), S, P(y.k, y.c))
      BY <1>3, <1>5, <1>6, <2>1, FollowsSelf, JumpTells
    <3>2. Jump(fn, loop).n = fn.n
      BY <1>3, SoundCounts, Counts
    <3> QED BY <1>s, <2>1, <3>1, <3>2
  <2>2. CASE ~HasValidIP(fn)
    BY <1>6, <1>s, <2>2, LostTells
  <2> QED BY <2>1, <2>2
<1>8. fn' = g /\ Then(<< >>) /\ SameCleanups /\ SameDests /\ Fine
  <2>1. fn' = ExitTrue(g, Head(todo).cond) /\ Then(<< >>) /\ SameCleanups /\ SameDests /\ Fine
    BY <1>s DEF LoopBack, Frame
  <2> QED BY <1>7, <2>1 DEF ExitTrue
<1>9. Present(y)' /\ UNCHANGED prog
  BY <1>4, <1>6, <1>8 DEF Present, SameCleanups, SameDests, Fine
<1> QED BY <1>1, <1>2, <1>7, <1>8, <1>9, SrcDrops

\* The end of a loop starts where its breaks go.
LEMMA EndLoopMeans ==
    ASSUME GenInv, SrcInv, EndLoop
    PROVE  SrcInv'
<1>1. todo # << >> /\ Head(todo).op = "endLoop"
  BY DEF EndLoop, Running
<1>2. PICK S, x, y, z : Ahead(S, x, y, z)
  BY <1>1, SrcAt
<1>s. PICK end : end = Head(todo).end
  OBVIOUS
<1>3. Lowers(todo[1], x, y, S, fn.n) /\ Tells(fn, S, Now(todo[1], x, S)) /\ todo[1] = Head(todo)
      /\ todo[1] \in Frames /\ Sound(fn)
  BY <1>1, <1>2, AheadParts
<1>4. x \in Ghosts /\ y \in Ghosts /\ x.c = cleanups /\ x.bd = breakDests /\ x.cd = continueDests
  BY <1>1, <1>2, AheadParts
<1>5. y.bd = Popped(x.bd) /\ y.cd = Popped(x.cd)
  BY <1>1, <1>2, <1>3, SMTT(30) DEF Ahead, Link, EndsLoop
<1>6. y.c = x.c /\ x.k = y.k /\ S[end] = P(x.k, x.c) /\ Tells(fn, S, P(x.k, x.c))
  BY <1>1, <1>3, <1>s DEF Lowers, Now, Starts
<1>7. end \in Pending(fn)
  <2>1. Owned(Head(todo)) \subseteq Pending(fn)
    BY <1>1, <1>3, GenInvParts
  <2> QED BY <1>1, <1>s, <2>1 DEF Owned
<1>8. /\ fn' = EmitOrDelete(fn, end) /\ Then(<< >>) /\ SameCleanups /\ Fine
      /\ breakDests' = Popped(x.bd) /\ continueDests' = Popped(x.cd)
  BY <1>4, <1>s DEF EndLoop, Popped, Frame
<1>9. Tells(fn', S, P(y.k, y.c)) /\ fn'.n = fn.n
  <2>1. Tells(fn', S, P(y.k, y.c))
    BY <1>3, <1>6, <1>7, <1>8, EmitOrDeleteTells
  <2>2. fn'.n = fn.n
    BY <1>3, <1>8, SoundCounts, Counts DEF EmitOrDelete
  <2> QED BY <2>1, <2>2
<1>10. Present(y)' /\ UNCHANGED prog
  BY <1>4, <1>5, <1>6, <1>8 DEF Present, SameCleanups, Fine
<1> QED BY <1>1, <1>2, <1>8, <1>9, <1>10, SrcDrops

\* The body of a do-while starts at once; a continue in it would go back there, not to
\* the condition.
LEMMA VisitDoWhileMeans ==
    ASSUME NoDoContinue, GenInv, SrcInv, VisitDoWhile
    PROVE  SrcInv'
<1>1. todo # << >> /\ Head(todo).op = "visit" /\ Head(todo).stmt.kind = "dowhile"
  BY DEF VisitDoWhile, Visiting, Running
<1>2. PICK S, x, y, z : Ahead(S, x, y, z)
  BY <1>1, SrcAt
<1>s. PICK s, n, d : s = Head(todo).stmt /\ n = fn.n /\ d = Len(x.c)
  OBVIOUS
<1>3. Lowers(todo[1], x, y, S, fn.n) /\ Tells(fn, S, Now(todo[1], x, S)) /\ todo[1] = Head(todo)
      /\ todo[1] \in Frames /\ Sound(fn)
  BY <1>1, <1>2, AheadParts
<1>4. x \in Ghosts /\ y \in Ghosts /\ x.k \in Conts /\ y.k \in Conts /\ y.bd = x.bd /\ y.cd = x.cd
      /\ x.c \in Seq(Name) /\ d \in Nat /\ Wider(x.c, x.c) /\ n \in Nat
  BY <1>1, <1>2, <1>3, <1>s, AheadParts DEF EndsLoop
<1>5. s \in LoopStmt /\ s.kind = "dowhile" /\ s.cond \in Name /\ s.body \in LoopStmt
      /\ s.body.kind # "var"
  BY <1>1, <1>3, <1>s, FrameFields, StatementParts, LoopBody, SMTT(30)
<1>6. x.k = On(Visit(s), y.k) /\ y.c = x.c /\ Tells(fn, S, P(x.k, x.c))
  BY <1>1, <1>3, <1>s, <1>5 DEF Lowers, Now
<1> DEFINE l == On(Loop(s, d), y.k)
           kb == On(Visit(s.body), l)
           a == Visit(s.body)
           b == [op |-> "doCondition", loop |-> n + 1, cond |-> s.cond]
<1>7. /\ n + 2 <= MaxBlock /\ fn' = LoopHead(1)
      /\ PushDests(n + 2, n + 1) /\ Then(<<a, b>>) /\ SameCleanups /\ Fine
  <2>1. NextBlock(fn) = n + 1 /\ NextBlock(fn) + 1 = n + 2 /\ Stmt = s
    BY <1>4, <1>s DEF NextBlock, Stmt
  <2> QED BY <1>s, <2>1 DEF VisitDoWhile, LoopHead
<1>8. n + 1 \in Block /\ n + 2 \in Block
  BY <1>4, <1>7, MaxBlockAssumption DEF Block
<1>9. l \in Conts /\ kb \in Conts
  BY <1>4, <1>5, SFrameForms, OnParts
<1> DEFINE U == [e \in Block |-> IF e = n + 1 THEN P(kb, x.c) ELSE P(y.k, x.c)]
           T == Chosen(fn, S, U)
<1>10. Tells(fn, T, P(x.k, x.c)) /\ Agree(S, T, n) /\ \A e \in Block : e > n => T[e] = U[e]
  BY <1>3, <1>s, <1>6, ChosenTells
<1>11. T[n + 1] = P(kb, x.c) /\ T[n + 2] = P(y.k, x.c)
  <2> HIDE DEF T, kb
  <2> QED BY <1>4, <1>8, <1>10
<1> HIDE DEF U, T
<1>12. Reaches(State(x.k, x.c), State(kb, x.c))
  BY <1>4, <1>5, <1>6, <1>s, DoWhileStep
<1>13. Headed(fn', 1, T)
  <2> HIDE DEF kb
  <2>1. Follows(P(x.k, x.c), T[fn.n + 1])
    BY <1>s, <1>11, <1>12 DEF Follows, P
  <2>2. fn.n + 1 + 1 <= MaxBlock
    BY <1>4, <1>7, <1>s, MaxBlockAssumption
  <2> QED BY <1>3, <1>7, <1>10, <2>1, <2>2, HeadMeans
<1>14. fn'.n = n + 2 /\ Tells(fn', T, P(kb, x.c))
  <2> HIDE DEF kb
  <2> QED BY <1>4, <1>11, <1>13, <1>s DEF Headed
<1>15. PICK m : m = fn'.n
  OBVIOUS
<1>16. Starts(T, m, n + 1, P(kb, x.c)) /\ Starts(T, m, n + 2, P(y.k, x.c))
  BY <1>4, <1>11, <1>14, <1>15 DEF Starts
<1>17. a \in Frames /\ a.op = "visit" /\ a.stmt = s.body
       /\ b \in Frames /\ b.op = "doCondition" /\ b.loop = n + 1 /\ b.cond = s.cond
  BY <1>5, <1>8, FrameForms DEF Visit
<1>18. PICK w : Within(w, x, kb, x.c, n + 2, n + 1)
  BY <1>4, <1>8, <1>9, GhostWithin
<1>19. PICK v : Within(v, x, l, x.c, n + 2, n + 1)
  BY <1>4, <1>8, <1>9, GhostWithin
<1>20. Exits({s.body}, l, v, T, m)
  <2>1. {s.body} \subseteq NeverContinue
    BY <1>5 DEF NoDoContinue
  <2> QED BY <1>4, <1>5, <1>16, <1>19, <1>s, <2>1, LoopExits
<1>21. b.loop + 1 = n + 2
  BY <1>4, <1>17
<1> HIDE DEF a, b
<1>22. /\ w \in Ghosts /\ w.k = kb /\ w.c = x.c /\ v \in Ghosts /\ v.k = l /\ v.c = x.c
       /\ v.bd = w.bd /\ v.cd = w.cd /\ Popped(v.bd) = y.bd /\ Popped(v.cd) = y.cd
  BY <1>4, <1>18, <1>19 DEF Within
<1>23. Link(a, w, v, T, m)
  <2> HIDE DEF l
  <2>1. Exits({s.body}, l, w, T, m)
    BY <1>20, <1>22 DEF Exits
  <2>2. Lowers(a, w, v, T, m) /\ ~EndsLoop(a)
    BY <1>5, <1>17, <1>22, <2>1 DEF Lowers, EndsLoop
  <2> QED BY <1>22, <2>2, LinkOf
<1>24. Link(b, v, y, T, m)
  <2>1. v.k = On(Loop(s, Len(v.c)), y.k) /\ kb = On(Visit(s.body), v.k)
    BY <1>22, <1>s
  <2> HIDE DEF l, kb
  <2>2. Starts(T, m, b.loop, P(On(Visit(s.body), v.k), v.c)) /\ Starts(T, m, b.loop + 1, P(y.k, v.c))
    BY <1>16, <1>17, <1>21, <1>22, <2>1
  <2>3. Lowers(b, v, y, T, m) /\ EndsLoop(b)
    BY <1>5, <1>6, <1>17, <1>22, <2>1, <2>2 DEF Lowers, EndsLoop
  <2> QED BY <1>4, <1>22, <2>3 DEF Link
<1> HIDE DEF l, kb
<1> DEFINE fs == <<a, b>>
<1>25. fs \in Seq(Frames) /\ fs[1] = a /\ Leads(fs, w, y, T, m) /\ Then(fs)
  BY <1>7, <1>17, <1>23, <1>24, LeadsTwo
<1> HIDE DEF fs
<1>26. Agree(S, T, fn.n) /\ fn.n <= fn'.n /\ fn'.n \in Nat
  BY <1>4, <1>10, <1>14, <1>s
<1> QED BY <1>1, <1>2, <1>7, <1>14, <1>15, <1>17, <1>18, <1>25, <1>26, SrcOpens

\* The condition of a do-while, or the end of the loop if its body does not get there.
LEMMA DoConditionMeans ==
    ASSUME GenInv, SrcInv, DoCondition
    PROVE  SrcInv'
<1>1. todo # << >> /\ Head(todo).op = "doCondition"
  BY DEF DoCondition, Running
<1>2. PICK S, x, y, z : Ahead(S, x, y, z)
  BY <1>1, SrcAt
<1>s. PICK loop, cond, n : loop = Head(todo).loop /\ cond = Head(todo).cond /\ n = fn.n
  OBVIOUS
<1>3. Lowers(todo[1], x, y, S, fn.n) /\ Tells(fn, S, Now(todo[1], x, S)) /\ todo[1] = Head(todo)
      /\ todo[1] \in Frames /\ Sound(fn)
  BY <1>1, <1>2, AheadParts
<1>4. x \in Ghosts /\ y \in Ghosts /\ x.k \in Conts /\ y.k \in Conts /\ x.c = cleanups
      /\ x.bd = breakDests /\ x.cd = continueDests /\ x.c \in Seq(Name) /\ Len(x.c) \in Nat
      /\ n \in 0 .. MaxBlock
  BY <1>1, <1>2, <1>3, <1>s, AheadParts, SoundFields
<1>5. y.bd = Popped(x.bd) /\ y.cd = Popped(x.cd)
  BY <1>1, <1>2, <1>3 DEF Ahead, Link, EndsLoop
<1>6. loop \in Block /\ cond \in Name
  BY <1>1, <1>3, <1>s, FrameFields, SMTT(30)
<1>7. y.c = x.c /\ Tells(fn, S, P(x.k, x.c))
  BY <1>1, <1>3 DEF Lowers, Now
<1>8. PICK s \in LoopStmt : /\ s.kind = "dowhile" /\ s.cond = cond
                            /\ x.k = On(Loop(s, Len(x.c)), y.k)
                            /\ Starts(S, n, loop, P(On(Visit(s.body), x.k), x.c))
                            /\ Starts(S, n, loop + 1, P(y.k, x.c))
  BY <1>1, <1>3, <1>s DEF Lowers
<1>9. loop \in 1 .. n /\ loop + 1 \in 1 .. n /\ loop + 1 \in Block
  BY <1>4, <1>8, MaxBlockAssumption DEF Starts, Block
<1>10. PICK w \in Ghosts : w.k = y.k /\ w.c = x.c /\ w.bd = x.bd /\ w.cd = x.cd
  BY <1>4, GhostWith
<1>11. PICK end : end = loop + 1
  OBVIOUS
<1> DEFINE c == CondBlocks(fn, FALSE)
           g == EnterTrue(EmitCondition(fn, cond, FALSE, FALSE), c)
           h == Jump(g, loop)
           to == [op |-> "endLoop", end |-> end]
<1>12. CASE /\ HasValidIP(fn) /\ fn.n + 2 <= MaxBlock /\ fn' = ExitTrue(h, c)
            /\ Then(Finally(c, end)) /\ SameCleanups /\ SameDests /\ Fine
  <2> DEFINE U == [e \in Block |-> IF e = n + 1 THEN P(y.k, x.c) ELSE P(On(Visit(s.body), x.k), x.c)]
             T == Chosen(fn, S, U)
  <2>1. Tells(fn, T, P(x.k, x.c)) /\ Agree(S, T, n) /\ \A e \in Block : e > n => T[e] = U[e]
    BY <1>3, <1>s, <1>7, ChosenTells
  <2>2. n + 1 \in Block /\ n + 2 \in Block
    BY <1>4, <1>12, <1>s, MaxBlockAssumption, SMTT(30) DEF Block
  <2>3. T[n + 1] = P(y.k, x.c) /\ T[n + 2] = P(On(Visit(s.body), x.k), x.c)
    <3> HIDE DEF T
    <3> QED BY <1>4, <2>1, <2>2
  <2> HIDE DEF U, T
  <2>4. LoopCondition(fn, g, c, T)
    <3>1. SourceEvent(x.k) = Event("condbr", cond)
      BY <1>4, <1>8, TestedParts, LoopEvent
    <3>2. Taken(x.k, x.c) = On(Visit(s.body), x.k) /\ Skipped(x.k, x.c) = y.k
      BY <1>4, <1>8, WhileTests
    <3>3. T[fn.n + 2] = P(Taken(x.k, x.c), x.c) /\ T[fn.n + 1] = P(Skipped(x.k, x.c), x.c)
      BY <1>s, <2>3, <3>2
    <3> QED BY <1>3, <1>6, <1>12, <2>1, <3>1, <3>3, LoopTestMeans
  <2> HIDE DEF g
  <2>5. /\ c \in CondRecs /\ c.cont = n + 1 /\ g.n = n + 2 /\ Sound(g) /\ HasValidIP(g)
        /\ Tells(g, T, T[n + 2])
    <3> HIDE DEF c
    <3> QED BY <1>4, <1>s, <2>4, LoopConditionParts
  <2> HIDE DEF c
  <2>6. (\A v : Tells(h, T, v)) /\ ~HasValidIP(h) /\ h.n = n + 2
    <3>1. T[loop] = T[n + 2]
      BY <1>8, <1>9, <2>1, <2>3 DEF Agree, Starts
    <3>2. Follows(T[n + 2], T[loop])
      BY <3>1, FollowsSelf
    <3>3. g \in FunctionType
      BY <2>5, SoundFields
    <3>4. (\A v : Tells(h, T, v)) /\ ~HasValidIP(h)
      BY <1>6, <2>5, <3>2, <3>3, JumpTells
    <3>5. h.n = g.n
      BY <2>5, SoundCounts, Counts
    <3> QED BY <2>5, <3>4, <3>5
  <2> HIDE DEF h
  <2>7. fn' = h
    BY <1>12, <2>6 DEF ExitTrue
  <2>8. Starts(T, n + 2, end, P(y.k, y.c)) /\ Starts(T, n + 2, c.cont, P(y.k, y.c))
    BY <1>4, <1>7, <1>8, <1>9, <1>11, <2>1, <2>3, <2>5 DEF Starts, Agree
  <2>9. Finally(c, end) \in Seq(Frames) /\ Leads(Finally(c, end), w, y, T, n + 2)
    BY <1>4, <1>5, <1>7, <1>9, <1>10, <1>11, <2>5, <2>8, FinallyLeads
  <2>10. Finally(c, end)[1].op # "branch"
    BY DEF Finally
  <2>11. PICK fs : fs = Finally(c, end)
    OBVIOUS
  <2>12. fs \in Seq(Frames) /\ Leads(fs, w, y, T, fn'.n) /\ (fs # << >> => fs[1].op # "branch")
         /\ todo' = fs \o Tail(todo) /\ UNCHANGED prog
    BY <1>12, <2>6, <2>7, <2>9, <2>10, <2>11 DEF Then, Fine
  <2>13. Present(w)' /\ Tells(fn', T, P(w.k, w.c))
    BY <1>4, <1>10, <1>12, <2>6, <2>7 DEF Present, SameCleanups, SameDests
  <2>14. Agree(S, T, fn.n) /\ fn.n <= fn'.n /\ fn'.n \in Nat
    BY <1>4, <1>s, <2>1, <2>6, <2>7
  <2> QED BY <1>1, <1>2, <1>10, <2>12, <2>13, <2>14, SrcGoes
<1>13. CASE ~HasValidIP(fn) /\ UNCHANGED fn /\ Then(<<to>>) /\ SameCleanups /\ SameDests /\ Fine
  <2>1. to \in Frames /\ to.op = "endLoop" /\ to.end = end
    BY <1>9, <1>11, FrameForms
  <2>2. Present(w)' /\ UNCHANGED prog /\ Then(<<to>>) /\ fn'.n = fn.n
    BY <1>4, <1>10, <1>13 DEF Present, SameCleanups, SameDests, Fine
  <2>3. Tells(fn', S, P(w.k, w.c))
    BY <1>7, <1>13, LostTells
  <2> HIDE DEF to
  <2>4. Link(to, w, y, S, fn.n)
    <3>1. Lowers(to, w, y, S, fn.n) /\ EndsLoop(to)
      BY <1>7, <1>8, <1>10, <1>11, <1>s, <2>1 DEF Lowers, EndsLoop
    <3> QED BY <1>4, <1>5, <1>10, <3>1 DEF Link
  <2> QED BY <1>1, <1>2, <1>10, <2>1, <2>2, <2>3, <2>4, SrcMoves
<1> QED BY <1>11, <1>12, <1>13, <1>s DEF DoCondition, Frame

\* The ghosts around the declaration of variables, and around the end of their scope.
LEMMA BindLink ==
    ASSUME NEW w \in Ghosts, NEW v \in Ghosts, NEW vs \in Seq(Name), w.k = On(Visit(Vars(vs)), v.k),
           v.c = w.c \o vs, v.bd = w.bd, v.cd = w.cd, NEW S, NEW n
    PROVE  Link(Bind(vs), w, v, S, n) /\ Bind(vs) \in Frames
<1> DEFINE fr == Bind(vs)
           s == Vars(vs)
<1>1. fr.op = "bind" /\ fr.vars = vs /\ fr \in Frames
  BY FrameForms DEF Bind
<1>2. s.kind = "var" /\ s.vars = vs /\ Visit(s) \in SFrames
  BY SFrameForms DEF Vars
<1> HIDE DEF fr
<1>3. Lowers(fr, w, v, S, n)
  <2>1. w.k = On(Visit(s), v.k)
    OBVIOUS
  <2> HIDE DEF s
  <2> QED BY <1>1, <1>2, <2>1 DEF Lowers
<1>4. Link(fr, w, v, S, n)
  BY <1>1, <1>3, LinkOf DEF EndsLoop
<1> QED BY <1>1, <1>4 DEF fr

\* The ghosts around the end of a scope.
LEMMA ScopeLink ==
    ASSUME NEW v \in Ghosts, NEW y \in Ghosts, NEW d, d = Len(y.c), NEW vs \in Seq(Name),
           v.k = On(Leave(d), y.k), v.c = y.c \o vs, v.bd = y.bd, v.cd = y.cd, NEW S, NEW n
    PROVE  LET fr == [op |-> "endScope", depth |-> d]
           IN  Link(fr, v, y, S, n) /\ fr \in Frames
<1> DEFINE fr == [op |-> "endScope", depth |-> d]
<1>1. y.c \in Seq(Name) /\ v.c \in Seq(Name)
  BY DEF Ghosts
<1>2. d \in Nat /\ d \in 0 .. Len(v.c) /\ y.c = Begin(v.c, d)
  <2>1. Len(y.c) \in Nat /\ Begin(y.c, Len(y.c)) = y.c /\ Wider(y.c, v.c) /\ Len(v.c) \in Nat
    BY <1>1, WiderMore
  <2> QED BY <2>1 DEF Wider
<1>3. fr.op = "endScope" /\ fr.depth = d /\ fr \in Frames
  BY <1>2, FrameForms
<1> HIDE DEF fr
<1>4. Lowers(fr, v, y, S, n)
  BY <1>2, <1>3 DEF Lowers
<1>5. Link(fr, v, y, S, n)
  BY <1>3, <1>4, LinkOf DEF EndsLoop
<1> QED BY <1>3, <1>5 DEF fr

\* The ghosts around a call in a clause of a for, if there is one.
LEMMA MaybeLeads ==
    ASSUME NEW name \in Callable, NEW w \in Ghosts, NEW v \in Ghosts, w.k = Maybe(name) \o v.k,
           v.c = w.c, v.bd = w.bd, v.cd = w.cd, NEW S, NEW n
    PROVE  Maybe(name) \in Seq(Frames) /\ Leads(Maybe(name), w, v, S, n)
<1>1. v.k \in Conts
  BY DEF Ghosts
<1>2. CASE name = NoName
  <2>1. Maybe(name) = << >>
    BY <1>2 DEF Maybe
  <2>2. w.k = v.k
    BY <1>1, <1>2, MaybeConts
  <2>3. w = v
    BY <2>2 DEF Ghosts
  <2> QED BY <2>1, <2>3, LeadsNone
<1>3. CASE name # NoName
  <2> DEFINE a == Visit(CallOf(name))
  <2>1. /\ CallOf(name) \in FreeStmt /\ CallOf(name) \in LoopStmt
        /\ w.k = On(Visit(CallOf(name)), v.k) /\ CallOf(name).kind = "call"
    BY <1>1, <1>3, MaybeConts DEF CallOf
  <2>2. Maybe(name) = <<a>>
    BY <1>3 DEF Maybe
  <2>3. a \in Frames /\ a.op = "visit" /\ a.stmt = CallOf(name)
    BY <2>1, FrameForms DEF Visit
  <2> HIDE DEF a
  <2>4. Lowers(a, w, v, S, n) /\ ~EndsLoop(a)
    BY <2>1, <2>3 DEF Lowers, EndsLoop
  <2>5. Link(a, w, v, S, n)
    BY <2>4, LinkOf
  <2> QED BY <2>2, <2>3, <2>5, LeadsOne
<1> QED BY <1>2, <1>3

\* The head of a for or a for-each is next.
LEMMA LoopLink ==
    ASSUME NEW w \in Ghosts, NEW v \in Ghosts, NEW s \in LoopStmt, w.k = On(Loop(s, Len(w.c)), v.k),
           v.c = w.c, v.bd = w.bd, v.cd = w.cd, NEW op \in {"forHead", "forEachHead"}, NEW S, NEW n
    PROVE  LET fr == [op |-> op, stmt |-> s]
           IN  Link(fr, w, v, S, n) /\ fr \in Frames
<1> DEFINE fr == [op |-> op, stmt |-> s]
<1>1. fr.op \in {"forHead", "forEachHead"} /\ fr.stmt = s /\ fr \in Frames
  BY FrameForms
<1> HIDE DEF fr
<1>2. Lowers(fr, w, v, S, n) /\ ~EndsLoop(fr)
  BY <1>1 DEF Lowers, EndsLoop
<1>3. Link(fr, w, v, S, n)
  BY <1>2, LinkOf
<1> QED BY <1>1, <1>3 DEF fr

\* The scope of a for loop: its variables, its initializer and the loop.
LEMMA VisitForMeans ==
    ASSUME GenInv, SrcInv, VisitFor
    PROVE  SrcInv'
<1>1. todo # << >> /\ Head(todo).op = "visit" /\ Head(todo).stmt.kind = "for"
  BY DEF VisitFor, Visiting, Running
<1>2. PICK S, x, y, z : Ahead(S, x, y, z)
  BY <1>1, SrcAt
<1>s. PICK s, n, d : s = Head(todo).stmt /\ n = fn.n /\ d = Len(x.c)
  OBVIOUS
<1>3. Lowers(todo[1], x, y, S, fn.n) /\ Tells(fn, S, Now(todo[1], x, S)) /\ todo[1] = Head(todo)
      /\ todo[1] \in Frames /\ Sound(fn)
  BY <1>1, <1>2, AheadParts
<1>4. x \in Ghosts /\ y \in Ghosts /\ x.k \in Conts /\ y.k \in Conts /\ y.bd = x.bd /\ y.cd = x.cd
      /\ x.c = cleanups /\ x.bd = breakDests /\ x.cd = continueDests
      /\ x.c \in Seq(Name) /\ d \in Nat /\ n \in Nat /\ Agree(S, S, n) /\ Depth = d
  BY <1>1, <1>2, <1>3, <1>s, AheadParts DEF EndsLoop, Depth
<1>5. s \in LoopStmt /\ s.kind = "for" /\ s.vars \in Seq(Name) /\ s.init \in Callable
  BY <1>1, <1>3, <1>s, FrameFields, StatementParts, ForParts, SMTT(30)
<1>6. x.k = On(Visit(s), y.k) /\ y.c = x.c /\ Tells(fn, S, P(x.k, x.c))
  BY <1>1, <1>3, <1>s, <1>5 DEF Lowers, Now
<1> DEFINE a == Bind(s.vars)
           m == Maybe(s.init)
           h == [op |-> "forHead", stmt |-> s]
           e == [op |-> "endScope", depth |-> d]
           c == x.c \o s.vars
           lv == On(Leave(d), y.k)
           l == On(Loop(s, Len(c)), lv)
           ki == m \o l
           kv == On(Visit(Vars(s.vars)), ki)
<1>7. Then(((<<a>> \o m) \o <<h>>) \o <<e>>) /\ UNCHANGED <<fn, prog, cleanups, breakDests, continueDests>>
  BY <1>4, <1>s DEF VisitFor, Stmt, Scoped, SameCleanups, SameDests, Fine
<1>8. c \in Seq(Name) /\ Len(c) \in Nat /\ Len(c) = d + Len(s.vars)
  BY <1>4, <1>5, <1>s
<1>9. lv \in Conts /\ l \in Conts /\ ki \in Conts /\ kv \in Conts
  <2>1. lv \in Conts
    BY <1>4, SFrameForms, OnParts
  <2> HIDE DEF lv
  <2>2. l \in Conts
    BY <1>5, <1>8, <2>1, SFrameForms, OnParts
  <2> HIDE DEF l, m
  <2>3. ki \in Conts
    BY <1>5, <2>2, MaybeConts DEF m
  <2> HIDE DEF ki
  <2> QED BY <1>5, <2>1, <2>2, <2>3, SFrameForms, OnParts
<1>10. Reaches(State(x.k, x.c), State(kv, x.c))
  BY <1>4, <1>5, <1>6, <1>8, <1>s, ForStep
<1> HIDE DEF c, kv, ki, l, lv
<1>g. \A kk \in Conts, cc \in Seq(Name) :
        \E w \in Ghosts : w.k = kk /\ w.c = cc /\ w.bd = x.bd /\ w.cd = x.cd
  <2>1. x \in Ghosts
    BY <1>4
  <2> QED BY ONLY <2>1, GhostWith
<1>11. PICK w \in Ghosts : w.k = kv /\ w.c = x.c /\ w.bd = x.bd /\ w.cd = x.cd
  BY <1>4, <1>9, <1>g
<1>12. PICK v1 \in Ghosts : v1.k = ki /\ v1.c = c /\ v1.bd = x.bd /\ v1.cd = x.cd
  BY <1>8, <1>9, <1>g
<1>13. PICK v2 \in Ghosts : v2.k = l /\ v2.c = c /\ v2.bd = x.bd /\ v2.cd = x.cd
  BY <1>8, <1>9, <1>g
<1>14. PICK v3 \in Ghosts : v3.k = lv /\ v3.c = c /\ v3.bd = x.bd /\ v3.cd = x.cd
  BY <1>8, <1>9, <1>g
<1>15. Link(a, w, v1, S, n) /\ a \in Frames
  <2>1. w.k = On(Visit(Vars(s.vars)), v1.k) /\ v1.c = w.c \o s.vars
    BY <1>11, <1>12 DEF c, kv
  <2> QED BY <1>5, <1>11, <1>12, <2>1, BindLink
<1>16. m \in Seq(Frames) /\ Leads(m, v1, v2, S, n)
  BY <1>5, <1>12, <1>13, MaybeLeads DEF ki
<1>17. Link(h, v2, v3, S, n) /\ h \in Frames
  <2>1. v2.k = On(Loop(s, Len(v2.c)), v3.k)
    BY <1>13, <1>14 DEF l
  <2> QED BY <1>5, <1>13, <1>14, <2>1, LoopLink
<1>18. Link(e, v3, y, S, n) /\ e \in Frames
  <2>1. v3.c = y.c \o s.vars /\ d = Len(y.c)
    BY <1>6, <1>14, <1>s DEF c
  <2> QED BY <1>4, <1>5, <1>14, <2>1, ScopeLink DEF lv
<1>19. Tells(fn', S, P(w.k, w.c)) /\ Present(w)'
  <2>1. Follows(P(x.k, x.c), P(w.k, w.c))
    BY <1>10, <1>11 DEF Follows, P
  <2>2. Tells(fn', S, P(w.k, w.c))
    BY <1>6, <1>7, <2>1, TellsOn
  <2> QED BY <1>4, <1>7, <1>11, <2>2 DEF Present
<1> HIDE DEF a, m, h, e
<1>20. <<a>> \in Seq(Frames) /\ Leads(<<a>>, w, v1, S, n) /\ <<h>> \in Seq(Frames) /\ Leads(<<h>>, v2, v3, S, n)
       /\ <<e>> \in Seq(Frames) /\ Leads(<<e>>, v3, y, S, n)
  BY <1>15, <1>17, <1>18, LeadsOne
<1> DEFINE p == <<a>>
           ph == <<h>>
           pe == <<e>>
           q == p \o m
           t == q \o ph
           fs == t \o pe
<1>21. p \in Seq(Frames) /\ p # << >> /\ p[1] = a
  BY <1>20
<1>22. q \in Seq(Frames) /\ Leads(q, w, v2, S, n) /\ q # << >> /\ q[1] = a
  <2>1. Leads(p, w, v1, S, n)
    BY <1>20
  <2> HIDE DEF p
  <2>2. Leads(p \o m, w, v2, S, n)
    BY <1>16, <1>21, <2>1, LeadsBoth
  <2>3. p \o m \in Seq(Frames) /\ p \o m # << >> /\ (p \o m)[1] = a
    BY <1>16, <1>21, ConcatProperties
  <2> QED BY <2>2, <2>3
<1>23. t \in Seq(Frames) /\ Leads(t, w, v3, S, n) /\ t # << >> /\ t[1] = a
  <2>1. ph \in Seq(Frames) /\ Leads(ph, v2, v3, S, n)
    BY <1>20
  <2> HIDE DEF q, ph
  <2>2. Leads(q \o ph, w, v3, S, n)
    BY <1>22, <2>1, LeadsBoth
  <2>3. q \o ph \in Seq(Frames) /\ q \o ph # << >> /\ (q \o ph)[1] = a
    BY <1>22, <2>1, ConcatProperties
  <2> QED BY <2>2, <2>3
<1>24. fs \in Seq(Frames) /\ Leads(fs, w, y, S, n) /\ fs # << >> /\ fs[1] = a
  <2>1. pe \in Seq(Frames) /\ Leads(pe, v3, y, S, n)
    BY <1>20
  <2> HIDE DEF t, pe
  <2>2. Leads(t \o pe, w, y, S, n)
    BY <1>23, <2>1, LeadsBoth
  <2>3. t \o pe \in Seq(Frames) /\ t \o pe # << >> /\ (t \o pe)[1] = a
    BY <1>23, <2>1, ConcatProperties
  <2> QED BY <2>2, <2>3
<1>25. todo' = fs \o Tail(todo) /\ UNCHANGED prog
  BY <1>7 DEF Then
<1> HIDE DEF fs
<1>26. fs[1].op # "branch"
  BY <1>24 DEF a, Bind
<1>27. fn'.n = fn.n /\ fn.n <= fn'.n /\ fn'.n \in Nat
  BY <1>4, <1>7, <1>s
<1> QED BY <1>1, <1>2, <1>4, <1>11, <1>19, <1>24, <1>25, <1>26, <1>27, <1>s, SrcGoes

\* The same of a for-each.
LEMMA VisitForEachMeans ==
    ASSUME GenInv, SrcInv, VisitForEach
    PROVE  SrcInv'
<1>1. todo # << >> /\ Head(todo).op = "visit" /\ Head(todo).stmt.kind = "foreach"
  BY DEF VisitForEach, Visiting, Running
<1>2. PICK S, x, y, z : Ahead(S, x, y, z)
  BY <1>1, SrcAt
<1>s. PICK s, n, d : s = Head(todo).stmt /\ n = fn.n /\ d = Len(x.c)
  OBVIOUS
<1>3. Lowers(todo[1], x, y, S, fn.n) /\ Tells(fn, S, Now(todo[1], x, S)) /\ todo[1] = Head(todo)
      /\ todo[1] \in Frames /\ Sound(fn)
  BY <1>1, <1>2, AheadParts
<1>4. x \in Ghosts /\ y \in Ghosts /\ x.k \in Conts /\ y.k \in Conts /\ y.bd = x.bd /\ y.cd = x.cd
      /\ x.c = cleanups /\ x.bd = breakDests /\ x.cd = continueDests
      /\ x.c \in Seq(Name) /\ d \in Nat /\ n \in Nat /\ Agree(S, S, n) /\ Depth = d
  BY <1>1, <1>2, <1>3, <1>s, AheadParts DEF EndsLoop, Depth
<1>5. s \in LoopStmt /\ s.kind = "foreach" /\ s.range \in Seq(Name)
  BY <1>1, <1>3, <1>s, FrameFields, StatementParts, SMTT(30)
<1>6. x.k = On(Visit(s), y.k) /\ y.c = x.c /\ Tells(fn, S, P(x.k, x.c))
  BY <1>1, <1>3, <1>s, <1>5 DEF Lowers, Now
<1> DEFINE a == Bind(s.range)
           h == [op |-> "forEachHead", stmt |-> s]
           e == [op |-> "endScope", depth |-> d]
           c == x.c \o s.range
           lv == On(Leave(d), y.k)
           l == On(Loop(s, Len(c)), lv)
           kv == On(Visit(Vars(s.range)), l)
<1>7. Then(<<a, h>> \o <<e>>) /\ UNCHANGED <<fn, prog, cleanups, breakDests, continueDests>>
  BY <1>4, <1>s DEF VisitForEach, Stmt, Scoped, SameCleanups, SameDests, Fine
<1>8. c \in Seq(Name) /\ Len(c) \in Nat /\ Len(c) = d + Len(s.range)
  BY <1>4, <1>5, <1>s
<1>9. lv \in Conts /\ l \in Conts /\ kv \in Conts
  <2>1. lv \in Conts
    BY <1>4, SFrameForms, OnParts
  <2> HIDE DEF lv
  <2>2. l \in Conts
    BY <1>5, <1>8, <2>1, SFrameForms, OnParts
  <2> HIDE DEF l
  <2> QED BY <1>5, <2>1, <2>2, SFrameForms, OnParts
<1>10. Reaches(State(x.k, x.c), State(kv, x.c))
  BY <1>4, <1>5, <1>6, <1>8, <1>s, ForEachStep
<1> HIDE DEF c
<1>g. \A kk \in Conts, cc \in Seq(Name) :
        \E w \in Ghosts : w.k = kk /\ w.c = cc /\ w.bd = x.bd /\ w.cd = x.cd
  <2>1. x \in Ghosts
    BY <1>4
  <2> QED BY ONLY <2>1, GhostWith
<1>11. PICK w \in Ghosts : w.k = kv /\ w.c = x.c /\ w.bd = x.bd /\ w.cd = x.cd
  BY <1>4, <1>9, <1>g
<1>12. PICK v1 \in Ghosts : v1.k = l /\ v1.c = c /\ v1.bd = x.bd /\ v1.cd = x.cd
  BY <1>8, <1>9, <1>g
<1>13. PICK v2 \in Ghosts : v2.k = lv /\ v2.c = c /\ v2.bd = x.bd /\ v2.cd = x.cd
  BY <1>8, <1>9, <1>g
<1>14. Link(a, w, v1, S, n) /\ a \in Frames
  <2>1. w.k = On(Visit(Vars(s.range)), v1.k) /\ v1.c = w.c \o s.range
    BY <1>11, <1>12 DEF c
  <2> QED BY <1>5, <1>11, <1>12, <2>1, BindLink
<1>15. Link(h, v1, v2, S, n) /\ h \in Frames
  <2>1. v1.k = On(Loop(s, Len(v1.c)), v2.k)
    BY <1>12, <1>13
  <2> QED BY <1>5, <1>12, <1>13, <2>1, LoopLink
<1>16. Link(e, v2, y, S, n) /\ e \in Frames
  <2>1. v2.c = y.c \o s.range /\ d = Len(y.c)
    BY <1>6, <1>13, <1>s DEF c
  <2> QED BY <1>4, <1>5, <1>13, <2>1, ScopeLink
<1>17. Tells(fn', S, P(w.k, w.c)) /\ Present(w)'
  <2> HIDE DEF kv
  <2>1. Follows(P(x.k, x.c), P(w.k, w.c))
    BY <1>10, <1>11 DEF Follows, P
  <2>2. Tells(fn', S, P(w.k, w.c))
    BY <1>6, <1>7, <2>1, TellsOn
  <2> QED BY <1>4, <1>7, <1>11, <2>2 DEF Present
<1> HIDE DEF a, h, e, kv, l, lv
<1> DEFINE q == <<a, h>>
           pe == <<e>>
           fs == q \o pe
<1>18. q \in Seq(Frames) /\ Leads(q, w, v2, S, n) /\ Len(q) = 2 /\ q # << >> /\ q[1] = a
  BY <1>14, <1>15, LeadsTwo
<1>19. pe \in Seq(Frames) /\ Leads(pe, v2, y, S, n)
  BY <1>16, LeadsOne
<1>20. fs \in Seq(Frames) /\ Leads(fs, w, y, S, n) /\ fs # << >> /\ fs[1] = a
  <2> HIDE DEF q, pe
  <2> QED BY <1>18, <1>19, LeadsBoth, ConcatProperties
<1>21. todo' = fs \o Tail(todo) /\ UNCHANGED prog
  BY <1>7 DEF Then
<1> HIDE DEF fs
<1>22. fs[1].op # "branch"
  BY <1>20 DEF a, Bind
<1>23. fn'.n = fn.n /\ fn.n <= fn'.n /\ fn'.n \in Nat
  BY <1>4, <1>7, <1>s
<1> QED BY <1>1, <1>2, <1>4, <1>11, <1>17, <1>20, <1>21, <1>22, <1>23, <1>s, SrcGoes

\* The increment of a for starts where its continues go.
LEMMA ForIncMeans ==
    ASSUME GenInv, SrcInv, ForInc
    PROVE  SrcInv'
<1>1. todo # << >> /\ Head(todo).op = "forInc"
  BY DEF ForInc, Running
<1>2. PICK S, x, y, z : Ahead(S, x, y, z)
  BY <1>1, SrcAt
<1>s. PICK inc, call, n : inc = Head(todo).inc /\ call = Head(todo).call /\ n = fn.n
  OBVIOUS
<1>3. Lowers(todo[1], x, y, S, fn.n) /\ Tells(fn, S, Now(todo[1], x, S)) /\ todo[1] = Head(todo)
      /\ todo[1] \in Frames /\ Sound(fn)
  BY <1>1, <1>2, AheadParts
<1>4. x \in Ghosts /\ y \in Ghosts /\ x.k \in Conts /\ y.k \in Conts /\ y.bd = x.bd /\ y.cd = x.cd
      /\ x.c = cleanups /\ x.bd = breakDests /\ x.cd = continueDests
      /\ x.c \in Seq(Name) /\ Len(x.c) \in Nat /\ n \in Nat /\ Agree(S, S, n)
  BY <1>1, <1>2, <1>3, <1>s, AheadParts DEF EndsLoop
<1>5. call \in Callable /\ inc \in Pending(fn)
  <2>1. call \in Callable /\ Owned(Head(todo)) \subseteq Pending(fn)
    BY <1>1, <1>3, <1>s, FrameFields, GenInvParts, SMTT(30)
  <2> QED BY <1>1, <1>s, <2>1 DEF Owned
<1>6. /\ y.c = x.c /\ S[inc] = P(x.k, x.c) /\ Tells(fn, S, P(x.k, x.c))
      /\ \E s \in LoopStmt : s.inc = call /\ x.k = On(Inc(s, Len(x.c)), y.k)
  BY <1>1, <1>3, <1>s DEF Lowers, Now, Starts
<1>7. /\ fn' = EmitOrDelete(fn, inc) /\ SameCleanups /\ SameDests /\ Fine
      /\ Then(IF HasValidIP(fn') THEN Maybe(call) ELSE << >>)
  BY <1>s DEF ForInc, Frame
<1>8. Tells(fn', S, P(x.k, x.c)) /\ fn'.n = fn.n
  <2>1. Tells(fn', S, P(x.k, x.c))
    BY <1>3, <1>5, <1>6, <1>7, EmitOrDeleteTells
  <2>2. fn'.n = fn.n
    BY <1>3, <1>7, SoundCounts, Counts DEF EmitOrDelete
  <2> QED BY <2>1, <2>2
<1>9. CASE HasValidIP(fn')
  <2>1. Maybe(call) \o y.k \in Conts
    BY <1>4, <1>5, MaybeConts
  <2>2. PICK w \in Ghosts : w.k = Maybe(call) \o y.k /\ w.c = x.c /\ w.bd = x.bd /\ w.cd = x.cd
    BY <1>4, <2>1, GhostWith, ZenonT(60)
  <2>3. Reaches(State(x.k, x.c), State(w.k, x.c))
    BY <1>4, <1>6, <2>2, IncStep
  <2>4. Tells(fn', S, P(w.k, w.c))
    <3>1. Follows(P(x.k, x.c), P(w.k, w.c))
      BY <2>2, <2>3 DEF Follows, P
    <3> QED BY <1>8, <3>1, TellsOn
  <2>5. PICK fs : fs = Maybe(call)
    OBVIOUS
  <2>6. fs \in Seq(Frames) /\ Leads(fs, w, y, S, fn'.n)
    BY <1>4, <1>5, <1>6, <2>2, <2>5, MaybeLeads
  <2>7. fs # << >> => fs[1].op # "branch"
    <3> HAVE fs # << >>
    <3>1. 1 \in DOMAIN fs
      BY <2>6
    <3> QED BY <1>5, <2>5, <3>1, MaybeFrames
  <2>8. todo' = fs \o Tail(todo) /\ UNCHANGED prog /\ Present(w)'
    BY <1>4, <1>7, <1>9, <2>2, <2>5 DEF Then, Fine, Present, SameCleanups, SameDests
  <2>9. Agree(S, S, fn.n) /\ fn.n <= fn'.n /\ fn'.n \in Nat
    BY <1>4, <1>8, <1>s
  <2> QED BY <1>1, <1>2, <2>2, <2>4, <2>6, <2>7, <2>8, <2>9, SrcGoes
<1>10. CASE ~HasValidIP(fn')
  <2>1. Then(<< >>) /\ UNCHANGED prog /\ Present(y)'
    BY <1>4, <1>6, <1>7, <1>10 DEF Fine, Present, SameCleanups, SameDests
  <2>2. Tells(fn', S, P(y.k, y.c))
    BY <1>8, <1>10, LostTells
  <2> QED BY <1>1, <1>2, <1>8, <2>1, <2>2, SrcDrops
<1> QED BY <1>9, <1>10

\* The first of three frames in front of others.
LEMMA SplitThree ==
    ASSUME NEW a \in Frames, NEW b \in Frames, NEW d \in Frames, NEW q \in Seq(Frames)
    PROVE  <<a, b, d>> \o q = <<a>> \o (<<b>> \o (<<d>> \o q))
<1> DEFINE p == <<a>>
           r == <<b, d>>
<1>1. p \in Seq(Frames) /\ r \in Seq(Frames)
  OBVIOUS
<1>2. p \o r = <<a, b, d>>
  BY TripleOf
<1>3. r \o q = <<b>> \o (<<d>> \o q)
  BY SplitFirst
<1> HIDE DEF p, r
<1>4. (p \o r) \o q = p \o (r \o q)
  BY <1>1, ConcatAssociative, SMTT(30)
<1> QED BY <1>2, <1>3, <1>4 DEF p

\* The jumps in the body of a for land at its end and at its increment.
LEMMA IncExits ==
    ASSUME NEW x \in Ghosts, NEW w, NEW kk, NEW bb, NEW cb, Within(w, x, kk, x.c, bb, cb),
           NEW s \in LoopStmt, NEW r \in Conts, NEW l, l = On(Loop(s, Len(x.c)), r),
           NEW i, i = On(Inc(s, Len(x.c)), l),
           NEW S, NEW n, Starts(S, n, bb, P(r, x.c)), Starts(S, n, cb, P(i, x.c)), NEW T
    PROVE  Exits(T, i, w, S, n)
<1> DEFINE d == Len(x.c)
           fl == Loop(s, d)
           fi == Inc(s, d)
           none == << >>
           one == <<fi>>
<1>1. x.c \in Seq(Name) /\ d \in Nat /\ fl \in SFrames /\ fi \in SFrames
  BY SFrameForms DEF Ghosts
<1>2. fl.op = "loop" /\ fl.depth = d /\ Stops(fl, "break")
      /\ fi.op = "inc" /\ fi.depth = d /\ Stops(fi, "continue") /\ ~Stops(fi, "break")
  BY DEF Loop, Inc, Stops
<1> HIDE DEF fl, fi
<1>3. On(fl, r) \in Conts /\ On(fi, l) \in Conts
  BY <1>1, OnParts DEF fl, d
<1>4. none \in Conts /\ Clear(none, "continue") /\ i = none \o On(fi, l)
  <2>1. none \o On(fi, l) = On(fi, l)
    BY <1>3, ListOn
  <2>2. i = On(fi, l)
    BY DEF fi, d
  <2> QED BY <2>1, <2>2 DEF Conts, Clear
<1>5. one \in Conts /\ Clear(one, "break") /\ i = one \o On(fl, r)
  <2>1. one \in Conts /\ Clear(one, "break")
    BY <1>1, <1>2 DEF Conts, Clear
  <2>2. i = one \o On(fl, r)
    BY DEF On, fi, fl, d
  <2> QED BY <2>1, <2>2
<1>6. Begin(x.c, d) = x.c /\ d \in 0 .. Len(x.c)
  BY <1>1, WiderMore
<1>7. w.c = x.c /\ w.bd # << >> /\ w.bd[Len(w.bd)].depth = d /\ w.bd[Len(w.bd)].block = bb
      /\ w.cd # << >> /\ w.cd[Len(w.cd)].depth = d /\ w.cd[Len(w.cd)].block = cb
  BY SMTT(30) DEF Within
<1>8. i = On(fi, l)
  BY DEF fi, d
<1>9. l \in Conts
  BY <1>3 DEF fl, d
<1> HIDE DEF d, none, one
<1>10. Lands("break", i, w.c, w.bd, S, n)
  BY <1>1, <1>2, <1>5, <1>6, <1>7 DEF Lands
<1>11. Lands("continue", i, w.c, w.cd, S, n)
  BY <1>1, <1>2, <1>4, <1>6, <1>7, <1>8, <1>9 DEF Lands
<1> QED BY <1>10, <1>11 DEF Exits

\* The loop of a for: its test, if it has one, its body and its increment.
LEMMA ForHeadMeans ==
    ASSUME GenInv, SrcInv, ForHead
    PROVE  SrcInv'
<1>1. todo # << >> /\ Head(todo).op = "forHead"
  BY DEF ForHead, Running
<1>2. PICK S, x, y, z : Ahead(S, x, y, z)
  BY <1>1, SrcAt
<1>s. PICK s, n, d, l : s = Head(todo).stmt /\ n = fn.n /\ d = Len(x.c) /\ l = x.k
  OBVIOUS
<1>3. Lowers(todo[1], x, y, S, fn.n) /\ Tells(fn, S, Now(todo[1], x, S)) /\ todo[1] = Head(todo)
      /\ todo[1] \in Frames /\ Sound(fn)
  BY <1>1, <1>2, AheadParts
<1>4. x \in Ghosts /\ y \in Ghosts /\ x.k \in Conts /\ y.k \in Conts /\ y.bd = x.bd /\ y.cd = x.cd
      /\ x.c = cleanups /\ x.bd = breakDests /\ x.cd = continueDests
      /\ x.c \in Seq(Name) /\ d \in Nat /\ n \in Nat
  BY <1>1, <1>2, <1>3, <1>s, AheadParts DEF EndsLoop
<1>5. s \in LoopStmt /\ s.kind = "for" /\ s.cond \in Name /\ s.body \in LoopStmt
      /\ s.body.kind # "var" /\ s.inc \in Callable
  <2>1. FrameFits(Head(todo), fn) /\ s \in LoopStmt
    BY <1>1, <1>3, <1>s, FrameFields, GenInvParts
  <2>2. s.kind = "for"
    BY <1>1, <1>s, <2>1 DEF FrameFits
  <2> QED BY <2>1, <2>2, StatementParts, ForParts, LoopBody
<1>6. l = On(Loop(s, d), y.k) /\ y.c = x.c /\ Tells(fn, S, P(l, x.c)) /\ l \in Conts
  BY <1>1, <1>3, <1>4, <1>s DEF Lowers, Now
<1>7. CASE ~HasValidIP(fn) /\ Then(<< >>) /\ UNCHANGED fn /\ SameDests /\ SameCleanups /\ Fine
  <2>1. UNCHANGED prog /\ Present(y)'
    BY <1>4, <1>6, <1>7 DEF Fine, Present, SameCleanups, SameDests
  <2>2. Tells(fn', S, P(y.k, y.c))
    BY <1>6, <1>7, LostTells
  <2> QED BY <1>1, <1>2, <1>7, <2>1, <2>2, SrcDrops
<1> DEFINE ki == On(Inc(s, d), l)
           kb == On(Visit(s.body), ki)
           h == LoopHead(2)
           a == Visit(s.body)
           i == [op |-> "forInc", inc |-> n + 2, call |-> s.inc]
           b(c) == [op |-> "loopBack", loop |-> n + 1, cond |-> c]
           infinite == s.cond = NoName
           U == [e \in Block |-> IF e = n + 1 THEN P(l, x.c) ELSE IF e = n + 2 THEN P(ki, x.c)
                                 ELSE IF e = n + 5 THEN P(kb, x.c) ELSE P(y.k, x.c)]
           T == Chosen(fn, S, U)
<1>8. ki \in Conts /\ kb \in Conts
  <2>1. ki \in Conts
    BY <1>4, <1>5, <1>6, SFrameForms, OnParts
  <2> HIDE DEF ki
  <2> QED BY <1>5, <2>1, SFrameForms, OnParts
<1> HIDE DEF ki, kb
<1>9. Tells(fn, T, P(l, x.c)) /\ Agree(S, T, n) /\ \A e \in Block : e > n => T[e] = U[e]
  BY <1>3, <1>s, <1>6, ChosenTells
<1>10. ASSUME n + 5 <= MaxBlock
       PROVE  n + 1 \in Block /\ n + 2 \in Block /\ n + 3 \in Block /\ n + 4 \in Block /\ n + 5 \in Block
  BY <1>4, <1>10, MaxBlockAssumption DEF Block
<1>11. ASSUME n + 5 <= MaxBlock
       PROVE  /\ T[n + 1] = P(l, x.c) /\ T[n + 2] = P(ki, x.c) /\ T[n + 3] = P(y.k, x.c)
              /\ T[n + 4] = P(y.k, x.c) /\ T[n + 5] = P(kb, x.c)
  <2> HIDE DEF T
  <2> QED BY <1>4, <1>9, <1>10, <1>11
<1> HIDE DEF U, T
<1>12. ASSUME NEW c \in CondRecs, NEW m \in Nat, fn'.n = m, n + 3 <= m, n + 5 <= MaxBlock,
              c.cont # NoBlock => Starts(T, m, c.cont, P(y.k, x.c)),
              Tells(fn', T, P(kb, x.c)), PushDests(n + 3, n + 2),
              Then(<<a, i, b(c)>> \o Finally(c, n + 3)), SameCleanups, Fine
       PROVE  SrcInv'
  <2>1. Starts(T, m, n + 1, P(l, x.c)) /\ Starts(T, m, n + 2, P(ki, x.c)) /\ Starts(T, m, n + 3, P(y.k, x.c))
    BY <1>4, <1>11, <1>12 DEF Starts
  <2> DEFINE bc == b(c)
  <2>2. a \in Frames /\ a.op = "visit" /\ a.stmt = s.body /\ bc \in Frames
        /\ i \in Frames /\ i.op = "forInc" /\ i.inc = n + 2 /\ i.call = s.inc
    BY <1>5, <1>10, <1>12, FrameForms DEF Visit
  <2>3. PICK w : Within(w, x, kb, x.c, n + 3, n + 2)
    BY <1>4, <1>8, <1>10, <1>12, GhostWithin
  <2>4. PICK v : Within(v, x, ki, x.c, n + 3, n + 2)
    BY <1>4, <1>8, <1>10, <1>12, GhostWithin
  <2>5. PICK u : Within(u, x, l, x.c, n + 3, n + 2)
    BY <1>4, <1>6, <1>10, <1>12, GhostWithin
  <2>6. /\ w \in Ghosts /\ w.k = kb /\ w.c = x.c /\ v \in Ghosts /\ v.k = ki /\ v.c = x.c
        /\ u \in Ghosts /\ u.k = l /\ u.c = x.c
        /\ v.bd = w.bd /\ v.cd = w.cd /\ u.bd = v.bd /\ u.cd = v.cd
    BY <2>3, <2>4, <2>5 DEF Within
  <2>7. Exits({s.body}, ki, v, T, m)
    BY <1>4, <1>5, <1>6, <1>s, <2>1, <2>4, IncExits DEF ki
  <2>8. <<bc>> \o Finally(c, n + 3) \in Seq(Frames) /\ Leads(<<bc>> \o Finally(c, n + 3), u, y, T, m)
        /\ Finally(c, n + 3) \in Seq(Frames)
    <3>1. Finally(c, n + 3) \in Seq(Frames)
      BY <1>10, <1>12, FinallyFrames
    <3> QED BY <1>4, <1>6, <1>10, <1>12, <2>1, <2>5, <3>1, TailLeads
  <2>9. Then(<<a>> \o (<<i>> \o (<<bc>> \o Finally(c, n + 3))))
    <3> DEFINE q == Finally(c, n + 3)
    <3>1. Then(<<a, i, bc>> \o q) /\ q \in Seq(Frames) /\ a \in Frames /\ i \in Frames /\ bc \in Frames
      BY <1>12, <2>2, <2>8
    <3> HIDE DEF a, i, bc, q
    <3>2. <<a, i, bc>> \o q = <<a>> \o (<<i>> \o (<<bc>> \o q))
      BY <3>1, SplitThree, ZenonT(60)
    <3>3. Then(<<a>> \o (<<i>> \o (<<bc>> \o q)))
      BY <3>1, <3>2
    <3> QED BY <3>3 DEF q
  <2> HIDE DEF a, i, bc
  <2>10. Link(a, w, v, T, m)
    <3>1. Exits({s.body}, ki, w, T, m)
      BY <2>6, <2>7 DEF Exits
    <3>2. w.k = On(Visit(a.stmt), v.k)
      BY <2>2, <2>6 DEF kb
    <3>3. Lowers(a, w, v, T, m) /\ ~EndsLoop(a)
      BY <1>5, <2>2, <2>6, <3>1, <3>2 DEF Lowers, EndsLoop
    <3> QED BY <2>6, <3>3, LinkOf
  <2>11. Link(i, v, u, T, m)
    <3>1. v.k = On(Inc(s, Len(v.c)), u.k) /\ Starts(T, m, i.inc, P(v.k, v.c))
      BY <1>s, <2>1, <2>2, <2>6 DEF ki
    <3>2. Lowers(i, v, u, T, m) /\ ~EndsLoop(i)
      BY <1>5, <2>2, <2>6, <3>1 DEF Lowers, EndsLoop
    <3> QED BY <2>6, <3>2, LinkOf
  <2> DEFINE tail == <<bc>> \o Finally(c, n + 3)
             pi == <<i>>
             more == pi \o tail
             pa == <<a>>
             fs == pa \o more
  <2>12. pi \in Seq(Frames) /\ Leads(pi, v, u, T, m) /\ pa \in Seq(Frames) /\ Leads(pa, w, v, T, m)
         /\ pa # << >> /\ pa[1] = a
    BY <2>2, <2>10, <2>11, LeadsOne
  <2>13. tail \in Seq(Frames) /\ Leads(tail, u, y, T, m)
    BY <2>8
  <2> HIDE DEF tail, pi, pa
  <2>14. more \in Seq(Frames) /\ Leads(more, v, y, T, m)
    <3>1. Leads(more, v, y, T, m)
      BY <2>12, <2>13, LeadsBoth
    <3> QED BY <2>12, <2>13, <3>1
  <2> HIDE DEF more
  <2>15. fs \in Seq(Frames) /\ fs[1] = a /\ Leads(fs, w, y, T, m)
    <3>1. Leads(fs, w, y, T, m)
      BY <2>12, <2>14, LeadsBoth
    <3>2. fs \in Seq(Frames) /\ fs[1] = a
      BY <2>12, <2>14, ConcatProperties
    <3> QED BY <3>1, <3>2
  <2>16. Then(fs)
    BY <2>9 DEF pa, more, pi, tail
  <2> HIDE DEF fs
  <2>17. fs[1].op # "branch" /\ Agree(S, T, fn.n) /\ fn.n <= fn'.n /\ fn'.n \in Nat
    BY <1>4, <1>9, <1>12, <1>s, <2>2, <2>15
  <2> QED BY <1>1, <1>2, <1>12, <2>3, <2>15, <2>16, <2>17, SrcOpens
<1>13. ASSUME n + 5 <= MaxBlock, HasValidIP(fn)
       PROVE  Headed(h, 2, T)
  <2> HIDE DEF h
  <2>1. Follows(P(l, x.c), T[fn.n + 1])
    BY <1>s, <1>11, <1>13, FollowsSelf
  <2>2. fn.n + 2 + 1 <= MaxBlock
    BY <1>4, <1>13, <1>s, MaxBlockAssumption
  <2> QED BY <1>3, <1>9, <2>1, <2>2, HeadMeans DEF h
<1>14. CASE /\ HasValidIP(fn) /\ n + 5 <= MaxBlock /\ infinite /\ fn' = h /\ PushDests(n + 3, n + 2)
            /\ Then(<<a, i, b(Always(n + 1))>> \o Finally(Always(n + 1), n + 3)) /\ SameCleanups /\ Fine
  <2> DEFINE c == Always(n + 1)
  <2>1. c \in CondRecs /\ c.cont = NoBlock
    BY <1>10, <1>14 DEF Always, CondRecs
  <2>2. Headed(h, 2, T)
    BY <1>13, <1>14
  <2>3. Reaches(State(l, x.c), State(kb, x.c))
    BY <1>4, <1>5, <1>6, <1>14, <1>s, ForeverStep, SMTT(30) DEF kb, ki
  <2> HIDE DEF h
  <2>4. fn'.n = n + 3 /\ Tells(fn', T, P(kb, x.c))
    <3>1. fn'.n = n + 3 /\ Tells(fn', T, P(l, x.c))
      BY <1>4, <1>11, <1>14, <1>s, <2>2 DEF Headed
    <3>2. Follows(P(l, x.c), P(kb, x.c))
      BY <2>3 DEF Follows, P
    <3> QED BY <3>1, <3>2, TellsOn
  <2>5. Then(<<a, i, b(c)>> \o Finally(c, n + 3))
    BY <1>14
  <2>6. n + 3 \in Nat /\ n + 3 <= n + 3
    BY <1>4
  <2> HIDE DEF c, a, i, b
  <2> QED BY <1>12, <1>14, <2>1, <2>4, <2>5, <2>6
<1> DEFINE c == CondBlocks(h, FALSE)
<1>15. CASE /\ HasValidIP(fn) /\ n + 5 <= MaxBlock /\ ~infinite /\ PushDests(n + 3, n + 2)
            /\ fn' = EnterTrue(EmitCondition(h, s.cond, FALSE, FALSE), c)
            /\ Then(<<a, i, b(c)>> \o Finally(c, n + 3)) /\ SameCleanups /\ Fine
  <2>1. Headed(h, 2, T)
    BY <1>13, <1>15
  <2>2. Sound(h) /\ h.n = n + 3 /\ HasValidIP(h) /\ Tells(h, T, P(l, x.c))
    <3> HIDE DEF h
    <3> QED BY <1>4, <1>11, <1>15, <1>s, <2>1 DEF Headed
  <2>3. LoopCondition(h, fn', c, T)
    <3>1. SourceEvent(l) = Event("condbr", s.cond)
      BY <1>4, <1>5, <1>6, <1>15, LoopEvent
    <3>2. Taken(l, x.c) = kb /\ Skipped(l, x.c) = y.k
      BY <1>4, <1>5, <1>6, <1>s, AfterLoop DEF kb, ki
    <3> HIDE DEF h
    <3>3. T[h.n + 2] = P(Taken(l, x.c), x.c) /\ T[h.n + 1] = P(Skipped(l, x.c), x.c)
          /\ h.n + 2 <= MaxBlock
      <4>1. h.n + 2 = n + 5 /\ h.n + 1 = n + 4
        BY <1>4, <2>2
      <4> QED BY <1>11, <1>15, <3>2, <4>1
    <3> QED BY <1>5, <1>15, <2>2, <3>1, <3>3, LoopTestMeans
  <2> HIDE DEF h
  <2>4. c \in CondRecs /\ c.cont = n + 4 /\ fn'.n = n + 5 /\ Tells(fn', T, P(kb, x.c))
    <3> HIDE DEF c
    <3>1. PICK r : r = n + 3
      OBVIOUS
    <3>2. r \in Nat /\ r + 1 = n + 4 /\ r + 2 = n + 5 /\ h.n = r
      BY <1>4, <2>2, <3>1
    <3>3. c \in CondRecs /\ c.cont = r + 1 /\ fn'.n = r + 2 /\ Tells(fn', T, T[r + 2])
      BY <2>3, <3>2, LoopConditionParts
    <3> QED BY <1>11, <1>15, <3>2, <3>3
  <2> HIDE DEF c
  <2>5. Starts(T, n + 5, c.cont, P(y.k, x.c))
    BY <1>4, <1>11, <1>15, <2>4 DEF Starts
  <2>6. n + 5 \in Nat /\ n + 3 <= n + 5
    BY <1>4
  <2> HIDE DEF a, i, b
  <2> QED BY <1>12, <1>15, <2>4, <2>5, <2>6
<1>16. CASE HasValidIP(fn) /\ ~(~HasValidIP(fn) /\ Then(<< >>) /\ UNCHANGED fn /\ SameDests)
  <2>1. NextBlock(fn) = n + 1 /\ NextBlock(fn) + 1 = n + 2 /\ NextBlock(fn) + 2 = n + 3
        /\ NextBlock(fn) + 4 = n + 5 /\ Stmt = s
    BY <1>4, <1>s DEF NextBlock, Stmt
  <2> HIDE DEF h
  <2>2. PICK head \in {h} :
           LET cc == IF infinite THEN Always(n + 1) ELSE CondBlocks(head, FALSE)
           IN  /\ n + 5 <= MaxBlock
               /\ fn' = IF infinite THEN head ELSE EnterTrue(EmitCondition(head, s.cond, FALSE, FALSE), cc)
               /\ PushDests(n + 3, n + 2)
               /\ Then(<<a, i, [op |-> "loopBack", loop |-> n + 1, cond |-> cc]>> \o Finally(cc, n + 3))
    BY <1>16, <2>1 DEF ForHead, h
  <2>3. SameCleanups /\ Fine
    BY DEF ForHead
  <2>4. CASE infinite
    BY <1>14, <1>16, <2>2, <2>3, <2>4
  <2>5. CASE ~infinite
    BY <1>15, <1>16, <2>2, <2>3, <2>5
  <2> QED BY <2>4, <2>5
<1>17. CASE ~HasValidIP(fn)
  BY <1>7, <1>17 DEF ForHead
<1> QED BY <1>16, <1>17

\* The loop of a for-each: its inverted test, and the scope around its body.
LEMMA ForEachHeadMeans ==
    ASSUME GenInv, SrcInv, ForEachHead
    PROVE  SrcInv'
<1>1. todo # << >> /\ Head(todo).op = "forEachHead"
  BY DEF ForEachHead, Running
<1>2. PICK S, x, y, z : Ahead(S, x, y, z)
  BY <1>1, SrcAt
<1>s. PICK s, n, d, l : s = Head(todo).stmt /\ n = fn.n /\ d = Len(x.c) /\ l = x.k
  OBVIOUS
<1>3. Lowers(todo[1], x, y, S, fn.n) /\ Tells(fn, S, Now(todo[1], x, S)) /\ todo[1] = Head(todo)
      /\ todo[1] \in Frames /\ Sound(fn)
  BY <1>1, <1>2, AheadParts
<1>4. x \in Ghosts /\ y \in Ghosts /\ x.k \in Conts /\ y.k \in Conts /\ y.bd = x.bd /\ y.cd = x.cd
      /\ x.c = cleanups /\ x.bd = breakDests /\ x.cd = continueDests
      /\ x.c \in Seq(Name) /\ d \in Nat /\ n \in Nat /\ Depth = d
  BY <1>1, <1>2, <1>3, <1>s, AheadParts DEF EndsLoop, Depth
<1>5. s \in LoopStmt /\ s.kind = "foreach" /\ s.cond \in Name /\ s.cond # NoName /\ s.body \in LoopStmt
      /\ s.body.kind # "var" /\ s.elem \in Seq(Name)
  <2>1. FrameFits(Head(todo), fn) /\ s \in LoopStmt
    BY <1>1, <1>3, <1>s, FrameFields, GenInvParts
  <2>2. s.kind = "foreach"
    BY <1>1, <1>s, <2>1, SMTT(30) DEF FrameFits
  <2> QED BY <2>1, <2>2, StatementParts, TestedParts, LoopBody
<1>6. l = On(Loop(s, d), y.k) /\ y.c = x.c /\ Tells(fn, S, P(l, x.c)) /\ l \in Conts
  BY <1>1, <1>3, <1>4, <1>s DEF Lowers, Now
<1>7. CASE ~HasValidIP(fn) /\ Then(<< >>) /\ UNCHANGED fn /\ SameDests /\ SameCleanups /\ Fine
  <2>1. UNCHANGED prog /\ Present(y)'
    BY <1>4, <1>6, <1>7 DEF Fine, Present, SameCleanups, SameDests
  <2>2. Tells(fn', S, P(y.k, y.c))
    BY <1>6, <1>7, LostTells
  <2> QED BY <1>1, <1>2, <1>7, <2>1, <2>2, SrcDrops
<1> DEFINE kl == On(Leave(d), l)
           kb == On(Visit(s.body), kl)
           ke == On(Visit(Vars(s.elem)), kb)
           e == x.c \o s.elem
           h == LoopHead(1)
           c == CondBlocks(h, FALSE)
           a == Bind(s.elem)
           i == Visit(s.body)
           o == [op |-> "endScope", depth |-> d]
           b == [op |-> "loopBack", loop |-> n + 1, cond |-> c]
           U == [j \in Block |-> IF j = n + 1 THEN P(l, x.c)
                                 ELSE IF j = n + 4 THEN P(ke, x.c) ELSE P(y.k, x.c)]
           T == Chosen(fn, S, U)
<1>8. kl \in Conts /\ kb \in Conts /\ ke \in Conts /\ Leave(d) \in SFrames
  <2>1. kl \in Conts /\ Leave(d) \in SFrames
    BY <1>4, <1>6, SFrameForms, OnParts
  <2> HIDE DEF kl
  <2>2. kb \in Conts
    BY <1>5, <2>1, SFrameForms, OnParts
  <2> HIDE DEF kb
  <2> QED BY <1>5, <2>1, <2>2, SFrameForms, OnParts
<1> HIDE DEF kl, kb, ke
<1>9. Tells(fn, T, P(l, x.c)) /\ Agree(S, T, n) /\ \A j \in Block : j > n => T[j] = U[j]
  BY <1>3, <1>s, <1>6, ChosenTells
<1>10. CASE /\ HasValidIP(fn) /\ n + 4 <= MaxBlock /\ PushDests(n + 2, n + 1)
            /\ fn' = EnterTrue(EmitCondition(h, s.cond, FALSE, TRUE), c)
            /\ Then(((<<a, i>> \o <<o>>) \o <<b>>) \o Finally(c, n + 2)) /\ SameCleanups /\ Fine
  <2>1. n + 1 \in Block /\ n + 2 \in Block /\ n + 3 \in Block /\ n + 4 \in Block
    BY <1>4, <1>10, MaxBlockAssumption DEF Block
  <2>2. T[n + 1] = P(l, x.c) /\ T[n + 2] = P(y.k, x.c) /\ T[n + 3] = P(y.k, x.c) /\ T[n + 4] = P(ke, x.c)
    <3> HIDE DEF T
    <3> QED BY <1>4, <1>9, <2>1
  <2> HIDE DEF U, T
  <2>3. Headed(h, 1, T)
    <3> HIDE DEF h
    <3>1. Follows(P(l, x.c), T[fn.n + 1])
      BY <1>s, <2>2, FollowsSelf
    <3>2. fn.n + 1 + 1 <= MaxBlock
      BY <1>4, <1>10, <1>s, MaxBlockAssumption
    <3> QED BY <1>3, <1>9, <3>1, <3>2, HeadMeans DEF h
  <2>4. Sound(h) /\ h.n = n + 2 /\ HasValidIP(h) /\ Tells(h, T, P(l, x.c))
    <3> HIDE DEF h
    <3> QED BY <1>4, <1>s, <2>2, <2>3 DEF Headed
  <2>5. LoopCondition(h, fn', c, T)
    <3>1. SourceEvent(l) = Event("condbr", s.cond)
      BY <1>4, <1>5, <1>6, LoopEvent
    <3>2. Skipped(l, x.c) = ke /\ Taken(l, x.c) = y.k
      BY <1>4, <1>5, <1>6, <1>s, AfterLoop DEF ke, kb, kl
    <3> HIDE DEF h
    <3>3. T[h.n + 2] = P(Skipped(l, x.c), x.c) /\ T[h.n + 1] = P(Taken(l, x.c), x.c)
          /\ h.n + 2 <= MaxBlock
      <4>1. h.n + 2 = n + 4 /\ h.n + 1 = n + 3
        BY <1>4, <2>4
      <4> QED BY <1>10, <2>2, <3>2, <4>1
    <3> QED BY <1>5, <1>10, <2>4, <3>1, <3>3, InvertedMeans
  <2> HIDE DEF h
  <2>6. c \in CondRecs /\ c.cont = n + 3 /\ fn'.n = n + 4 /\ Tells(fn', T, P(ke, x.c))
    <3> HIDE DEF c
    <3>1. PICK r : r = n + 2
      OBVIOUS
    <3>2. r \in Nat /\ r + 1 = n + 3 /\ r + 2 = n + 4 /\ h.n = r
      BY <1>4, <2>4, <3>1
    <3>3. c \in CondRecs /\ c.cont = r + 1 /\ fn'.n = r + 2 /\ Tells(fn', T, T[r + 2])
      BY <2>5, <3>2, LoopConditionParts
    <3> QED BY <2>2, <3>2, <3>3
  <2> HIDE DEF c
  <2>7. PICK m : m = fn'.n
    OBVIOUS
  <2>8. Starts(T, m, n + 1, P(l, x.c)) /\ Starts(T, m, n + 2, P(y.k, x.c)) /\ Starts(T, m, n + 3, P(y.k, x.c))
    BY <1>4, <2>2, <2>6, <2>7 DEF Starts
  <2>9. e \in Seq(Name) /\ Len(e) \in Nat /\ Wider(x.c, e)
    BY <1>4, <1>5, WiderMore
  <2> HIDE DEF e
  <2>10. PICK w : Within(w, x, ke, x.c, n + 2, n + 1)
    BY <1>4, <1>8, <2>1, GhostWithin
  <2>11. PICK v1 : Within(v1, x, kb, e, n + 2, n + 1)
    BY <1>4, <1>8, <2>1, <2>9, GhostWithin
  <2>12. PICK v2 : Within(v2, x, kl, e, n + 2, n + 1)
    BY <1>4, <1>8, <2>1, <2>9, GhostWithin
  <2>13. PICK v3 : Within(v3, x, l, x.c, n + 2, n + 1)
    BY <1>4, <1>6, <2>1, GhostWithin, SMTT(30)
  <2>14. /\ w \in Ghosts /\ w.k = ke /\ w.c = x.c /\ v1 \in Ghosts /\ v1.k = kb /\ v1.c = e
         /\ v2 \in Ghosts /\ v2.k = kl /\ v2.c = e /\ v3 \in Ghosts /\ v3.k = l /\ v3.c = x.c
         /\ v1.bd = w.bd /\ v1.cd = w.cd /\ v2.bd = v1.bd /\ v2.cd = v1.cd
         /\ v3.bd = v2.bd /\ v3.cd = v2.cd /\ v1.bd = v3.bd /\ v1.cd = v3.cd
    BY <2>10, <2>11, <2>12, <2>13 DEF Within
  <2>15. Exits({s.body}, kl, v1, T, m)
    <3>1. Exits({s.body}, l, v3, T, m)
      BY <1>4, <1>5, <1>6, <1>s, <2>8, <2>13, LoopExits
    <3> DEFINE p == <<Leave(d)>>
    <3>2. p \in Conts /\ Passed(p) /\ kl = p \o l
      <4>1. DOMAIN p = {1} /\ p[1] = Leave(d) /\ Leave(d).op = "leave"
        BY DEF Leave
      <4> QED BY <1>8, <4>1 DEF Conts, Passed, On, kl
    <3> HIDE DEF p
    <3>3. m \in Nat /\ m <= m /\ Agree(T, T, m)
      BY <1>4, <2>6, <2>7 DEF Agree
    <3>4. Exits({s.body}, p \o l, v1, T, m)
      BY <2>9, <2>14, <3>1, <3>2, <3>3, ExitsOn, SMTT(30)
    <3> QED BY <3>2, <3>4
  <2>16. Link(a, w, v1, T, m) /\ a \in Frames
    <3>1. w.k = On(Visit(Vars(s.elem)), v1.k) /\ v1.c = w.c \o s.elem
      BY <2>14 DEF ke, e
    <3> QED BY <1>5, <2>14, <3>1, BindLink
  <2>17. Link(i, v1, v2, T, m) /\ i \in Frames
    <3>1. i \in Frames /\ i.op = "visit" /\ i.stmt = s.body
      BY <1>5, FrameForms DEF Visit
    <3> HIDE DEF i
    <3>2. v1.k = On(Visit(i.stmt), v2.k)
      BY <2>14, <3>1 DEF kb
    <3>3. Exits({i.stmt}, v2.k, v1, T, m)
      BY <2>14, <2>15, <3>1
    <3>4. Lowers(i, v1, v2, T, m) /\ ~EndsLoop(i)
      BY <1>5, <2>14, <3>1, <3>2, <3>3 DEF Lowers, EndsLoop
    <3> QED BY <2>14, <3>1, <3>4, LinkOf
  <2>18. Link(o, v2, v3, T, m) /\ o \in Frames
    <3>1. d = Len(v3.c) /\ v2.k = On(Leave(d), v3.k) /\ v2.c = v3.c \o s.elem
      BY <1>s, <2>14 DEF kl, e
    <3> QED BY <1>5, <2>14, <3>1, ScopeLink
  <2>19. <<b>> \in Seq(Frames)
    <3>1. b \in Frames
      BY <2>1, <2>6, FrameForms
    <3> HIDE DEF b
    <3> QED BY <3>1
  <2>20. <<b>> \o Finally(c, n + 2) \in Seq(Frames) /\ Leads(<<b>> \o Finally(c, n + 2), v3, y, T, m)
         /\ Finally(c, n + 2) \in Seq(Frames)
    <3>1. Finally(c, n + 2) \in Seq(Frames)
      BY <2>1, <2>6, FinallyFrames
    <3> QED BY <1>4, <1>6, <2>1, <2>6, <2>8, <2>13, <3>1, TailLeads
  <2> HIDE DEF a, i, o, b
  <2> DEFINE q == <<a, i>>
             po == <<o>>
             pb == <<b>>
             qo == q \o po
             f == Finally(c, n + 2)
             fs == qo \o (pb \o f)
  <2>21. q \in Seq(Frames) /\ q # << >> /\ q[1] = a /\ Leads(q, w, v2, T, m)
    BY <2>16, <2>17, LeadsTwo
  <2>22. po \in Seq(Frames) /\ Leads(po, v2, v3, T, m)
    BY <2>18, LeadsOne
  <2>23. pb \in Seq(Frames) /\ f \in Seq(Frames) /\ pb \o f \in Seq(Frames) /\ Leads(pb \o f, v3, y, T, m)
    BY <2>19, <2>20
  <2>24. Then((qo \o pb) \o f)
    BY <1>10
  <2> HIDE DEF q, po, pb, f
  <2>25. qo \in Seq(Frames) /\ qo # << >> /\ qo[1] = a /\ Leads(qo, w, v3, T, m)
    <3>1. Leads(qo, w, v3, T, m)
      BY <2>21, <2>22, LeadsBoth
    <3>2. qo \in Seq(Frames) /\ qo # << >> /\ qo[1] = a
      BY <2>21, <2>22, ConcatProperties
    <3> QED BY <3>1, <3>2
  <2> HIDE DEF qo
  <2>26. fs \in Seq(Frames) /\ fs[1] = a /\ Leads(fs, w, y, T, m)
    <3>1. Leads(fs, w, y, T, m)
      BY <2>23, <2>25, LeadsBoth
    <3>2. fs \in Seq(Frames) /\ fs[1] = a
      BY <2>23, <2>25, ConcatProperties
    <3> QED BY <3>1, <3>2
  <2>27. Then(fs)
    <3>1. (qo \o pb) \o f = qo \o (pb \o f)
      BY <2>23, <2>25, ConcatAssociative, SMTT(60)
    <3> QED BY <2>24, <3>1
  <2> HIDE DEF fs
  <2>28. fs[1].op # "branch"
    BY <2>26 DEF a, Bind
  <2>29. Agree(S, T, fn.n) /\ fn.n <= fn'.n /\ fn'.n \in Nat
    BY <1>4, <1>9, <1>s, <2>6
  <2> QED BY <1>1, <1>2, <1>10, <2>6, <2>7, <2>10, <2>26, <2>27, <2>28, <2>29, SrcOpens
<1>11. CASE HasValidIP(fn)
  <2>1. NextBlock(fn) = n + 1 /\ NextBlock(fn) + 1 = n + 2 /\ NextBlock(fn) + 3 = n + 4 /\ Stmt = s
    BY <1>4, <1>s DEF NextBlock, Stmt
  <2> HIDE DEF h
  <2>2. PICK head \in {h} :
           LET cc == CondBlocks(head, FALSE)
           IN  /\ n + 4 <= MaxBlock
               /\ fn' = EnterTrue(EmitCondition(head, s.cond, FALSE, TRUE), cc)
               /\ PushDests(n + 2, n + 1)
               /\ Then((Scoped(<<a, i>>) \o <<[op |-> "loopBack", loop |-> n + 1, cond |-> cc]>>)
                       \o Finally(cc, n + 2))
    BY <1>11, <2>1 DEF ForEachHead, h
  <2>3. Scoped(<<a, i>>) = <<a, i>> \o <<o>>
    BY <1>4 DEF Scoped
  <2>4. SameCleanups /\ Fine
    BY DEF ForEachHead
  <2> QED BY <1>10, <1>11, <2>2, <2>3, <2>4
<1>12. CASE ~HasValidIP(fn)
  BY <1>7, <1>12 DEF ForEachHead
<1> QED BY <1>11, <1>12

\* The end of the function: so is that of the source.
LEMMA FinishFunctionMeans ==
    ASSUME GenInv, SrcInv, FinishFunction
    PROVE  SrcInv'
<1>1. PICK S, x, z : /\ Present(x) /\ z.k = << >> /\ Outset(S) /\ Leads(todo, x, z, S, fn.n)
                     /\ Tells(fn, S, IF todo = << >> THEN P(x.k, x.c) ELSE Now(todo[1], x, S))
  BY DEF SrcInv
<1>2. todo = << >> /\ HasValidIP(fn) /\ Sound(fn)
  BY DEF FinishFunction, GenInv
<1>3. x = z /\ Tells(fn, S, P(x.k, x.c))
  BY <1>1, <1>2, LeadsNone
<1>4. PICK op, inst : op = (IF prog.void THEN "return" ELSE "unreachable")
                      /\ inst = [op |-> op, id |-> NoName, succs |-> << >>]
  OBVIOUS
<1>5. NoName \in Name /\ SourceEvent(x.k) = ExitEvent(inst) /\ op \in {"return", "unreachable"}
  BY <1>1, <1>3, <1>4, EndEvent, StatementAssumption DEF ExitEvent
<1>6. fn' = CreateExit(fn, op, NoName) /\ UNCHANGED <<todo, cleanups, breakDests, continueDests, prog>>
  BY <1>4 DEF FinishFunction, SameCleanups, SameDests, Fine
<1>7. Tells(fn', S, P(x.k, x.c)) /\ fn'.n = fn.n
  BY <1>2, <1>3, <1>4, <1>5, <1>6, ExitTells
<1>8. Present(x)' /\ Outset(S)'
  BY <1>1, <1>6 DEF Present, Outset
<1> QED BY <1>1, <1>2, <1>6, <1>7, <1>8 DEF SrcInv

-----------------------------------------------------------------------------
\* One case per visitor.
LEMMA StepMeans ==
    ASSUME NoDoContinue, GenInv, MemInv, SrcInv, SILGenStep
    PROVE  SrcInv'
BY VisitExprMeans, VisitPatternBindingMeans, BindVarMeans, VisitBraceMeans, BraceElementMeans,
   EndScopeMeans, VisitReturnMeans, VisitJumpMeans, ThreadCleanupMeans, VisitIfMeans,
   IfTrueExitMeans, IfFalseExitMeans, CompleteMeans, VisitWhileMeans, LoopBackMeans,
   EndLoopMeans, VisitDoWhileMeans, DoConditionMeans, VisitForMeans, ForHeadMeans, ForIncMeans,
   VisitForEachMeans, ForEachHeadMeans, FinishFunctionMeans
   DEF SILGenStep

\* The empty function is at the start of the source, where the prolog takes it to the
\* scope of the parameters: the stack lowers their declaration and the body.
LEMMA MeaningStarts == SILGenInit => SrcInv
<1> SUFFICES ASSUME SILGenInit PROVE SrcInv
  OBVIOUS
<1>1. PICK vs, s : vs = prog.params /\ s = prog.body
  OBVIOUS
<1> DEFINE a == Bind(vs)
           b == Visit(s)
           ks == On(Visit(s), << >>)
           kv == On(Visit(Vars(vs)), ks)
           e == << >>
<1>2. /\ prog \in Program /\ fn = EmptyFunction /\ cleanups = e
      /\ breakDests = << >> /\ continueDests = << >> /\ todo = <<a, b>>
  BY <1>1 DEF SILGenInit, Bind, Visit
<1>3. vs \in Seq(Name) /\ s \in FreeStmt /\ s \in LoopStmt /\ s.kind = "brace" /\ e \in Seq(Name)
      /\ e \o vs = vs
  BY <1>1, <1>2, ProgramAssumption, FreeParts
<1>4. ks = <<Visit(s)>> /\ << >> \in Conts
  BY DEF On, Conts
<1>5. ks \in Conts
  BY <1>3, <1>4, SFrameForms, OnParts
<1> HIDE DEF ks
<1>6. kv \in Conts /\ Tail(kv) = ks
  BY <1>3, <1>5, SFrameForms, OnParts
<1> HIDE DEF kv
<1> DEFINE o == [src |-> State(ks, vs), live |-> e]
           S == [j \in Block |-> o]
<1>7. \A j \in Block : S[j] = o
  OBVIOUS
<1>8. PICK x \in Ghosts, y \in Ghosts, z \in Ghosts :
         /\ x.k = kv /\ x.c = e /\ y.k = ks /\ y.c = vs /\ z.k = << >> /\ z.c = vs
         /\ x.bd = << >> /\ x.cd = << >> /\ y.bd = x.bd /\ y.cd = x.cd /\ z.bd = y.bd /\ z.cd = y.cd
  <2> DEFINE X == [k |-> kv, c |-> e, bd |-> << >>, cd |-> << >>]
             Y == [k |-> ks, c |-> vs, bd |-> << >>, cd |-> << >>]
             Z == [k |-> << >>, c |-> vs, bd |-> << >>, cd |-> << >>]
  <2>1. X \in Ghosts /\ Y \in Ghosts /\ Z \in Ghosts
    BY <1>3, <1>4, <1>5, <1>6 DEF Ghosts
  <2> QED BY <2>1
<1> HIDE DEF S
<1>9. Link(a, x, y, S, fn.n) /\ a \in Frames
  <2>1. x.k = On(Visit(Vars(vs)), y.k) /\ y.c = x.c \o vs
    BY <1>3, <1>8 DEF kv
  <2> QED BY <1>3, <1>8, <2>1, BindLink
<1>10. Link(b, y, z, S, fn.n) /\ b \in Frames
  <2>1. b \in Frames /\ b.op = "visit" /\ b.stmt = s
    BY <1>3, FrameForms DEF Visit
  <2>2. y.k = On(Visit(b.stmt), z.k)
    BY <1>8, <2>1 DEF ks
  <2> HIDE DEF b
  <2>3. Lowers(b, y, z, S, fn.n) /\ ~EndsLoop(b)
    BY <1>3, <1>8, <2>1, <2>2 DEF Lowers, EndsLoop
  <2> QED BY <1>8, <2>1, <2>3, LinkOf
<1>11. a.op = "bind" /\ a.vars = vs
  BY DEF Bind
<1> HIDE DEF a, b
<1>12. Leads(todo, x, z, S, fn.n) /\ todo # << >> /\ todo[1] = a
  BY <1>2, <1>9, <1>10, LeadsTwo
<1>13. Now(a, x, S) = o
  BY <1>3, <1>6, <1>8, <1>11 DEF Now
<1>14. Tells(fn, S, o)
  <2>1. \A j \in Block : fn.insts[j] = << >>
    BY <1>2 DEF EmptyFunction
  <2> HIDE DEF o
  <2>2. ASSUME NEW j \in Block PROVE Runs(fn.insts[j], S, S[j], o) /\ Follows(o, o)
    BY <1>7, <2>1, RunsNone, FollowsSelf
  <2> QED BY <2>2 DEF Tells
<1>15. Outset(S)
  BY <1>1, <1>4, <1>7, EntryBlock DEF Outset
<1>16. Present(x)
  BY <1>2, <1>8 DEF Present
<1> QED BY <1>8, <1>12, <1>13, <1>14, <1>15, <1>16 DEF SrcInv

-----------------------------------------------------------------------------
(* The execution *)

\* The points the code of a block goes through.
Points(f, b, S, q) ==
    q[1] = S[b] /\ \A i \in DOMAIN f.insts[b] : Conducts(f.insts[b][i], q[i], q[i + 1], S)

\* The source is on its way from x, and the memory there is that of x.
Together(x) ==
    /\ Reaches(x.src, State(k, env))
    /\ x.live \in Scopes /\ ToSet(x.live) = {v \in Var : mem[v] # "none"}

\* While the function is generated the code tells the source; when it runs, there are
\* points for all of it, and the two machines are together at that of the next
\* instruction.
MeaningRunInv ==
    /\ phase = "generate" => SrcInv /\ k = <<Visit(prog.body)>> /\ env = prog.params
    /\ phase # "generate" =>
          \E S : /\ \A b \in Block : \E q : Points(fn, b, S, q)
                 /\ \E q : Points(fn, pc.block, S, q) /\ Together(q[pc.index])

\* Before anything was generated.
LEMMA MeaningRunStarts == Init => MeaningRunInv
BY MeaningStarts DEF Init, MeaningRunInv

\* When the source waits at an event, it is the one the code awaits.
LEMMA AwaitedHere ==
    ASSUME SourceEvent(k) # Silent, NEW x, Together(x), NEW ev, ev # Silent, NEW s, Awaits(x, ev, s)
    PROVE  s = State(k, env) /\ SourceEvent(k) = ev /\ env = x.live
<1> DEFINE t == State(k, env)
<1>1. t.k = k /\ t.env = env
  BY DEF State
<1> HIDE DEF t
<1>2. Reaches(x.src, t) /\ Waits(t)
  BY <1>1 DEF Together, Waits, t
<1>3. Reaches(x.src, s) /\ Waits(s) /\ SourceEvent(s.k) = ev /\ s.env = x.live
  BY DEF Awaits, Waits
<1>4. s = t
  BY <1>2, <1>3, WaitsOnce
<1> QED BY <1>1, <1>3, <1>4 DEF t

\* Events are not silent.
LEMMA Heard == \A op \in {"apply", "condbr", "return", "end"} : \A id : Event(op, id) # Silent
BY DEF Event, Silent

\* What the code does at a meeting, and what it awaits there.
LEMMA MeetingHere ==
    ASSUME Meeting, NEW x, Together(x), NEW z, NEW S, Conducts(Current, x, z, S)
    PROVE  /\ SourceEvent(k) = MachineEvent /\ env = x.live
           /\ Current.op \in {"apply", "condbr", "return", "unreachable"}
<1>1. SourceEvent(k) # Silent /\ MachineEvent # Silent
  BY DEF Meeting
<1>2. CASE Current.op = "apply" \/ Current.op = "condbr"
  <2>1. MachineEvent = Event(Current.op, Current.id)
    BY <1>2 DEF MachineEvent
  <2>2. PICK s : Awaits(x, Event(Current.op, Current.id), s)
    BY <1>2 DEF Conducts
  <2> QED BY <1>1, <1>2, <2>1, <2>2, AwaitedHere
<1>3. CASE Current.op = "return" \/ Current.op = "unreachable"
  <2>1. MachineEvent = ExitEvent(Current)
    BY <1>3 DEF MachineEvent, ExitEvent
  <2>2. PICK s : Awaits(x, ExitEvent(Current), s)
    BY <1>3 DEF Conducts
  <2> QED BY <1>1, <1>3, <2>1, <2>2, AwaitedHere
<1>4. CASE Current.op \notin {"apply", "condbr", "return", "unreachable"}
  BY <1>1, <1>4 DEF MachineEvent
<1> QED BY <1>2, <1>3, <1>4

\* An instruction on the memory of a variable changes what is live as it changes the
\* memory.
LEMMA LiveChanges ==
    ASSUME NEW m \in Mem, NEW inst, inst.op \in DOMAIN Needs, NEW n, Executes(inst, m, n),
           NEW x, x.live \in Scopes, ToSet(x.live) = {v \in Var : m[v] # "none"},
           NEW z, NEW S, Conducts(inst, x, z, S)
    PROVE  /\ z.src = x.src
           /\ z.live \in Scopes /\ ToSet(z.live) = {v \in Var : n[v] # "none"}
<1>1. PICK v, c : v = inst.id /\ c = x.live
  OBVIOUS
<1>2. v \in Var /\ m[v] = Needs[inst.op] /\ n = [m EXCEPT ![v] = Leaves[inst.op]]
  BY <1>1 DEF Executes
<1>3. n[v] = Leaves[inst.op] /\ \A w \in Var : w # v => n[w] = m[w]
  BY <1>2 DEF Mem
<1>4. c \in Seq(Var) /\ IsInjective(c) /\ c \in Scopes /\ ToSet(c) = {w \in Var : m[w] # "none"}
  BY <1>1 DEF Scopes
<1>5. CASE inst.op = "alloc"
  <2>1. m[v] = "none" /\ n[v] = "allocated"
    BY <1>2, <1>3, <1>5 DEF Needs, Leaves
  <2>2. z = [src |-> x.src, live |-> Append(c, v)]
    BY <1>1, <1>5 DEF Conducts
  <2>3. v \notin ToSet(c)
    BY <1>4, <2>1
  <2> DEFINE d == Append(c, v)
  <2>4. /\ d \in Seq(Var) /\ Len(d) = Len(c) + 1 /\ DOMAIN d = 1 .. Len(c) + 1 /\ Len(c) \in Nat
        /\ d[Len(c) + 1] = v /\ DOMAIN c = 1 .. Len(c) /\ \A i \in 1 .. Len(c) : d[i] = c[i]
    BY <1>2, <1>4
  <2> HIDE DEF d
  <2>5. IsInjective(d)
    <3> SUFFICES ASSUME NEW i \in DOMAIN d, NEW j \in DOMAIN d, d[i] = d[j] PROVE i = j
      BY DEF IsInjective
    <3>1. \A l \in 1 .. Len(c) : d[l] # v
      BY <2>3, <2>4 DEF ToSet
    <3>2. (i \in 1 .. Len(c) \/ i = Len(c) + 1) /\ (j \in 1 .. Len(c) \/ j = Len(c) + 1)
      BY <2>4
    <3>3. \A a, b \in DOMAIN c : c[a] = c[b] => a = b
      BY <1>4 DEF IsInjective
    <3> QED BY <2>4, <3>1, <3>2, <3>3
  <2>6. ToSet(d) = ToSet(c) \cup {v}
    BY <2>4 DEF ToSet
  <2>7. {w \in Var : n[w] # "none"} = {w \in Var : m[w] # "none"} \cup {v}
    BY <1>2, <1>3, <2>1
  <2>8. z.src = x.src /\ z.live = d
    BY <2>2 DEF d
  <2> QED BY <1>4, <2>4, <2>5, <2>6, <2>7, <2>8 DEF Scopes
<1>6. CASE inst.op \in {"init", "destroy"}
  <2>1. z = x /\ m[v] # "none" /\ n[v] # "none"
    BY <1>2, <1>3, <1>6 DEF Conducts, Needs, Leaves
  <2>2. {w \in Var : n[w] # "none"} = {w \in Var : m[w] # "none"}
    BY <1>3, <2>1
  <2> QED BY <1>1, <1>4, <2>1, <2>2
<1>7. CASE inst.op = "dealloc"
  <2>1. n[v] = "none"
    BY <1>3, <1>7 DEF Leaves
  <2>2. c # << >> /\ v = c[Len(c)] /\ z = [src |-> x.src, live |-> Begin(c, Len(c) - 1)]
    BY <1>1, <1>7 DEF Conducts, Begin
  <2>3. Len(c) \in 1 .. Len(c) /\ Len(c) - 1 \in 0 .. Len(c) /\ Begin(c, Len(c)) = c
    BY <1>4, <2>2 DEF Begin
  <2>4. v \notin ToSet(Begin(c, Len(c) - 1)) /\ ToSet(c) = ToSet(Begin(c, Len(c) - 1)) \cup {v}
    BY <1>4, <2>2, <2>3, ScopeLast
  <2>5. Begin(c, Len(c) - 1) \in Scopes
    BY <1>4, <2>3, BeginScope
  <2>6. {w \in Var : n[w] # "none"} = {w \in Var : m[w] # "none"} \ {v}
    BY <1>3, <2>1
  <2> QED BY <1>4, <2>2, <2>4, <2>5, <2>6
<1> QED BY <1>5, <1>6, <1>7 DEF Needs

\* The code goes to the start of a block.
LEMMA MeaningGoes ==
    ASSUME NEW S, \A b \in Block : \E q : Points(fn, b, S, q), fn' = fn, phase' # "generate",
           NEW b \in Block, GoTo(b), Together(S[b])'
    PROVE  MeaningRunInv'
<1>1. PICK q : Points(fn, b, S, q)
  OBVIOUS
<1>2. pc'.block = b /\ pc'.index = 1 /\ q[1] = S[b]
  BY <1>1 DEF GoTo, Points
<1>3. Points(fn', pc'.block, S, q) /\ Together(q[pc.index])'
  BY <1>1, <1>2 DEF Together
<1> QED BY <1>3 DEF MeaningRunInv

\* The code goes on to the next instruction of its block.
LEMMA MeaningGoesOn ==
    ASSUME NEW S, \A b \in Block : \E q : Points(fn, b, S, q), fn' = fn, phase' # "generate",
           NEW q, Points(fn, pc.block, S, q), StepOver,
           NEW x, x = q[pc.index + 1], Together(x)'
    PROVE  MeaningRunInv'
<1>1. pc'.block = pc.block /\ pc'.index = pc.index + 1
  BY DEF StepOver
<1>2. Points(fn', pc'.block, S, q) /\ q[pc'.index] = x
  BY <1>1
<1>3. Together(q[pc.index])'
  BY <1>2 DEF Together
<1> QED BY <1>2, <1>3 DEF MeaningRunInv

\* What the points say of the instruction that is next.
LEMMA PointHere ==
    ASSUME GenInv, AtInstruction, NEW S, NEW q, Points(fn, pc.block, S, q)
    PROVE  /\ Conducts(Current, q[pc.index], q[pc.index + 1], S)
           /\ \A i \in DOMAIN Current.succs : Current.succs[i] \in Block
<1>1. Sound(fn) /\ pc.block \in fn.linked /\ pc.index \in 1 .. Len(fn.insts[pc.block])
  BY DEF GenInv, AtInstruction
<1>2. pc.block \in Block /\ fn.insts \in [Block -> Seq(Inst)]
  BY <1>1, SoundFields
<1>3. pc.index \in DOMAIN fn.insts[pc.block] /\ Current = fn.insts[pc.block][pc.index]
  BY <1>1, <1>2 DEF Current
<1>4. SuccSet(Current) \subseteq Block
  BY <1>2, <1>3, SuccBlocks
<1> QED BY <1>3, <1>4 DEF Points, SuccSet

\* The source goes on silently, the code does, or both do the same.
LEMMA SourceTogether ==
    ASSUME NEW x, Together(x), SourceStep
    PROVE  Together(x)'
<1> DEFINE t == State(k, env)
           u == State(k', env')
<1>1. SourceEvent(k) = Silent /\ k' = SourceNext(k, env).k /\ env' = SourceNext(k, env).env /\ mem' = mem
  BY DEF SourceStep
<1>2. t.k = k /\ t.env = env
  BY DEF State
<1>3. ~Waits(t) /\ StateNext(t) = u
  BY <1>1, <1>2 DEF Waits, StateNext
<1> HIDE DEF t, u
<1>4. Reaches(t, u)
  BY <1>3, ReachesNext
<1>5. Reaches(x.src, t)
  BY DEF Together, t
<1>6. Reaches(x.src, u)
  BY <1>4, <1>5, ReachesOn
<1> QED BY <1>1, <1>6 DEF Together, u

\* A call, which both make.
LEMMA CallTogether ==
    ASSUME NEW x, Together(x), NEW z, NEW S, Conducts(Current, x, z, S), Call
    PROVE  Together(z)' /\ Current.op = "apply"
<1>1. SourceEvent(k) # Silent /\ MachineEvent.op = "apply" /\ Meeting
      /\ k' = Tail(k) /\ env' = env /\ mem' = mem
  BY DEF Call, Meeting
<1>2. Current.op = "apply"
  <2>1. Current.op \in {"apply", "condbr", "return", "unreachable"}
    BY <1>1, MeetingHere
  <2> QED BY <1>1, <2>1 DEF MachineEvent, Event
<1>3. PICK s : /\ Awaits(x, Event("apply", Current.id), s)
               /\ z = [src |-> State(Tail(s.k), s.env), live |-> x.live]
  BY <1>2 DEF Conducts
<1>4. s = State(k, env)
  BY <1>1, <1>3, Heard, AwaitedHere
<1>5. z.src = State(k', env') /\ z.live = x.live
  BY <1>1, <1>3, <1>4 DEF State
<1>6. Reaches(z.src, State(k', env'))
  BY <1>5, ReachesSelf
<1> QED BY <1>1, <1>2, <1>5, <1>6 DEF Together

\* A test, of which both take the same outcome.
LEMMA TestTogether ==
    ASSUME NEW x, Together(x), NEW z, NEW S, Conducts(Current, x, z, S), NEW b \in BOOLEAN, Test(b),
           NEW w, w = S[Current.succs[IF b THEN 1 ELSE 2]]
    PROVE  Together(w)' /\ Current.op = "condbr"
<1>1. SourceEvent(k) # Silent /\ MachineEvent.op = "condbr" /\ Meeting
      /\ k' = AfterTest(k, env, b) /\ env' = env /\ mem' = mem
  BY DEF Test, Meeting
<1>2. Current.op = "condbr"
  <2>1. Current.op \in {"apply", "condbr", "return", "unreachable"}
    BY <1>1, MeetingHere
  <2> QED BY <1>1, <2>1 DEF MachineEvent, Event
<1>3. PICK s : /\ Awaits(x, Event("condbr", Current.id), s)
               /\ \A c \in BOOLEAN : S[Current.succs[IF c THEN 1 ELSE 2]]
                      = [src |-> State(AfterTest(s.k, s.env, c), s.env), live |-> x.live]
  BY <1>2 DEF Conducts
<1>4. s = State(k, env)
  BY <1>1, <1>3, Heard, AwaitedHere
<1>5. w = [src |-> State(AfterTest(k, env, b), env), live |-> x.live]
  <2>1. s.k = k /\ s.env = env
    BY <1>4 DEF State
  <2> QED BY <1>3, <2>1
<1>6. Reaches(w.src, State(k', env'))
  BY <1>1, <1>5, ReachesSelf
<1> QED BY <1>1, <1>2, <1>5, <1>6 DEF Together

\* The function lowered stays the same.
LEMMA ProgramStays ==
    ASSUME SILGenStep
    PROVE  prog' = prog
<1>1. /\ VisitExpr => prog' = prog
      /\ VisitPatternBinding => prog' = prog
      /\ BindVar => prog' = prog
      /\ VisitBrace => prog' = prog
      /\ EndScope => prog' = prog
      /\ ThreadCleanup => prog' = prog
  BY DEF VisitExpr, VisitPatternBinding, BindVar, VisitBrace, EndScope, ThreadCleanup, Fine
<1>2. BraceElement => prog' = prog
  BY DEF BraceElement, Require, Abort, Fine
<1>3. VisitReturn => prog' = prog
  BY DEF VisitReturn, Abort, Fine
<1>4. VisitJump => prog' = prog
  BY DEF VisitJump, Require, Abort, Fine
<1>5. VisitIf => prog' = prog
  BY DEF VisitIf, Require, Abort, Fine
<1>6. IfTrueExit => prog' = prog
  BY ZenonT(60) DEF IfTrueExit, Require, Abort, Fine
<1>7. IfFalseExit => prog' = prog
  BY DEF IfFalseExit, Require, Abort, Fine
<1>8. Complete => prog' = prog
  BY DEF Complete, Require, Abort, Fine
<1>9. /\ VisitWhile => prog' = prog
      /\ LoopBack => prog' = prog
      /\ EndLoop => prog' = prog
      /\ VisitDoWhile => prog' = prog
      /\ DoCondition => prog' = prog
  BY DEF VisitWhile, LoopBack, EndLoop, VisitDoWhile, DoCondition, Fine
<1>10. /\ VisitFor => prog' = prog
       /\ ForHead => prog' = prog
       /\ ForInc => prog' = prog
       /\ VisitForEach => prog' = prog
       /\ ForEachHead => prog' = prog
       /\ FinishFunction => prog' = prog
  BY DEF VisitFor, ForHead, ForInc, VisitForEach, ForEachHead, FinishFunction, Fine
<1> QED BY <1>1, <1>2, <1>3, <1>4, <1>5, <1>6, <1>7, <1>8, <1>9, <1>10 DEF SILGenStep

\* An instruction that is silent, of the code while the source waits.
LEMMA MachineTogether ==
    ASSUME NEW x, Together(x), NEW z, NEW S, Conducts(Current, x, z, S), MachineStep,
           NEW m \in Mem, mem = m, NEW n, Executes(Current, m, n)
    PROVE  \/ Current.op = "br" /\ GoTo(Current.succs[1]) /\ \A w : w = S[Current.succs[1]] => Together(w)'
           \/ StepOver /\ Together(z)'
<1>1. SourceEvent(k) # Silent /\ k' = k /\ env' = env
  BY DEF MachineStep
<1> DEFINE t == State(k, env)
<1>2. Waits(t) /\ t = State(k', env') /\ Reaches(x.src, t)
  BY <1>1 DEF Together, Waits, State
<1> HIDE DEF t
<1>3. CASE Current.op = "br" /\ GoTo(Current.succs[1]) /\ UNCHANGED mem
  <2> SUFFICES ASSUME NEW w, w = S[Current.succs[1]] PROVE Together(w)'
    BY <1>3
  <2>1. w.live = x.live /\ Reaches(x.src, w.src)
    BY <1>3 DEF Conducts, Follows
  <2>2. Reaches(w.src, t)
    BY <1>2, <2>1, ReachesMeets
  <2> QED BY <1>2, <1>3, <2>1, <2>2 DEF Together
<1>4. CASE /\ Current.op \in DOMAIN Needs /\ StepOver
           /\ mem' = [mem EXCEPT ![Current.id] = Leaves[Current.op]]
  <2>1. n = mem'
    BY <1>4 DEF Executes
  <2>2. z.src = x.src /\ z.live \in Scopes /\ ToSet(z.live) = {v \in Var : mem'[v] # "none"}
    <3>1. x.live \in Scopes /\ ToSet(x.live) = {v \in Var : m[v] # "none"}
      BY DEF Together
    <3>2. z.src = x.src /\ z.live \in Scopes /\ ToSet(z.live) = {v \in Var : n[v] # "none"}
      BY <1>4, <3>1, LiveChanges
    <3> QED BY <2>1, <3>2
  <2> QED BY <1>2, <1>4, <2>2 DEF Together
<1> QED BY <1>3, <1>4 DEF MachineStep

\* One case per step of the compiler and of the two machines.
LEMMA MeaningRunStep ==
    ASSUME NoDoContinue, RunInv, MemRunInv, MeaningRunInv, [Next]_vars
    PROVE  MeaningRunInv'
<1>1. CASE UNCHANGED vars
  <2>1. UNCHANGED <<fn, prog, todo, cleanups, breakDests, continueDests, phase, pc, mem, k, env>>
    BY <1>1 DEF vars, genVars, runVars
  <2>2. CASE phase = "generate"
    BY <2>1, <2>2 DEF MeaningRunInv, SrcInv, Present, Outset
  <2>3. CASE phase # "generate"
    <3>1. PICK S : /\ \A b \in Block : \E q : Points(fn, b, S, q)
                   /\ \E q : Points(fn, pc.block, S, q) /\ Together(q[pc.index])
      BY <2>3 DEF MeaningRunInv
    <3>2. PICK q : Points(fn, pc.block, S, q) /\ Together(q[pc.index])
      BY <3>1
    <3>3. Points(fn', pc'.block, S, q) /\ Together(q[pc.index])'
      BY <2>1, <3>2 DEF Together
    <3> QED BY <2>1, <2>3, <3>1, <3>3 DEF MeaningRunInv
  <2> QED BY <2>2, <2>3
<1>2. CASE Generate
  <2>1. GenInv /\ MemInv /\ SrcInv /\ SILGenStep /\ phase' = "generate"
        /\ k' = <<Visit(prog.body)>> /\ env' = prog.params
    BY <1>2 DEF RunInv, MemRunInv, MeaningRunInv, Generate, runVars
  <2>2. SrcInv'
    BY <2>1, StepMeans
  <2>3. prog' = prog
    BY <2>1, ProgramStays
  <2> QED BY <2>1, <2>2, <2>3 DEF MeaningRunInv
<1>3. CASE StartRun
  <2>1. /\ GenInv /\ SrcInv /\ Generated /\ UNCHANGED genVars /\ phase' = "run"
        /\ pc' = [block |-> Entry, index |-> 1] /\ mem' = Live(<< >>)
        /\ k' = <<Visit(prog.body)>> /\ env' = prog.params
    BY <1>3 DEF RunInv, MemRunInv, MeaningRunInv, StartRun
  <2>2. PICK S, x, z : /\ Outset(S)
                       /\ Tells(fn, S, IF todo = << >> THEN P(x.k, x.c) ELSE Now(todo[1], x, S))
    BY <2>1 DEF SrcInv
  <2>3. \A b \in Block : \E q : Points(fn, b, S, q)
    BY <2>2 DEF Tells, Runs, Points
  <2>4. PICK y : y = S[Entry]
    OBVIOUS
  <2>5. y = [src |-> State(k', env'), live |-> << >>]
    BY <2>1, <2>2, <2>4 DEF Outset
  <2>6. << >> \in Scopes /\ ToSet(<< >>) = {v \in Var : mem'[v] # "none"}
    <3>1. ToSet(<< >>) = {}
      BY DEF ToSet
    <3>2. << >> \in Seq(Var) /\ IsInjective(<< >>)
      BY DEF IsInjective
    <3>3. \A v \in Var : mem'[v] = "none"
      BY <2>1, <3>1 DEF Live
    <3> QED BY <3>1, <3>2, <3>3 DEF Scopes
  <2>7. Together(y)'
    BY <2>5, <2>6, ReachesSelf DEF Together
  <2>8. fn' = fn /\ phase' # "generate" /\ GoTo(Entry)
    BY <2>1 DEF GoTo, genVars
  <2>9. Together(S[Entry])'
    BY <2>4, <2>7
  <2> QED BY <2>3, <2>8, <2>9, EntryBlock, MeaningGoes
<1>4. ASSUME phase = "run" PROVE
         \E S, q, M : /\ \A b \in Block : \E r : Points(fn, b, S, r)
                      /\ Points(fn, pc.block, S, q) /\ Together(q[pc.index])
                      /\ Conducts(Current, q[pc.index], q[pc.index + 1], S)
                      /\ \A i \in DOMAIN Current.succs : Current.succs[i] \in Block
                      /\ mem \in Mem /\ Executes(Current, mem, M)
  <2>1. GenInv /\ AtInstruction
    BY <1>4 DEF RunInv
  <2>2. PICK S : /\ \A b \in Block : \E q : Points(fn, b, S, q)
                 /\ \E q : Points(fn, pc.block, S, q) /\ Together(q[pc.index])
    BY <1>4 DEF MeaningRunInv
  <2>3. PICK q : Points(fn, pc.block, S, q) /\ Together(q[pc.index])
    BY <2>2
  <2>4. PICK M : Accounts(fn.insts, M) /\ mem = M[pc.block][pc.index]
    BY <1>4 DEF MemRunInv
  <2>5. Executes(Current, mem, M[pc.block][pc.index + 1])
    BY <2>1, <2>4, AccountedNext
  <2>6. mem \in Mem
    <3>1. Sound(fn) /\ pc.block \in fn.linked /\ pc.index \in 1 .. Len(fn.insts[pc.block])
      BY <2>1 DEF GenInv, AtInstruction
    <3>2. pc.block \in Block /\ fn.insts[pc.block] \in Seq(Inst)
      BY <3>1, SoundFields
    <3>3. M[pc.block] \in Seq(Mem) /\ Len(M[pc.block]) = Len(fn.insts[pc.block]) + 1
      BY <2>4, <3>2 DEF Accounts
    <3>4. Len(fn.insts[pc.block]) \in Nat
      BY <3>2
    <3> QED BY <2>4, <3>1, <3>3, <3>4
  <2> QED BY <2>1, <2>2, <2>3, <2>5, <2>6, PointHere
<1>5. CASE SourceStep \/ Finish
  <2>1. phase = "run"
    BY <1>5 DEF SourceStep, Finish, Leaving, Meeting
  <2>2. PICK S, q : /\ \A b \in Block : \E r : Points(fn, b, S, r)
                    /\ Points(fn, pc.block, S, q) /\ Together(q[pc.index])
    BY <1>4, <2>1
  <2>3. fn' = fn /\ pc' = pc /\ phase' # "generate"
    BY <1>5, <2>1 DEF SourceStep, Finish, genVars
  <2>4. PICK x : x = q[pc.index]
    OBVIOUS
  <2>5. Together(x)'
    <3>1. CASE SourceStep
      BY <2>2, <2>4, <3>1, SourceTogether
    <3>2. CASE Finish
      BY <2>2, <2>4, <3>2 DEF Finish, Together
    <3> QED BY <1>5, <3>1, <3>2
  <2>6. Points(fn', pc'.block, S, q) /\ x = q[pc'.index]
    BY <2>2, <2>3, <2>4
  <2>7. Together(q[pc.index])'
    BY <2>5, <2>6 DEF Together
  <2> QED BY <2>2, <2>3, <2>6, <2>7 DEF MeaningRunInv
<1>6. ASSUME MachineStep \/ Call \/ \E b \in BOOLEAN : Test(b)
      PROVE  MeaningRunInv'
  <2>1. /\ GenInv /\ AtInstruction /\ fn' = fn /\ phase = "run" /\ phase' # "generate"
    BY <1>6 DEF RunInv, MachineStep, Call, Test, Meeting, genVars
  <2>2. PICK S, q, M : /\ \A b \in Block : \E r : Points(fn, b, S, r)
                       /\ Points(fn, pc.block, S, q) /\ Together(q[pc.index])
                       /\ Conducts(Current, q[pc.index], q[pc.index + 1], S)
                       /\ \A i \in DOMAIN Current.succs : Current.succs[i] \in Block
                       /\ mem \in Mem /\ Executes(Current, mem, M)
    BY <1>4, <2>1
  <2>3. PICK x, z, m : x = q[pc.index] /\ z = q[pc.index + 1] /\ m = mem
    OBVIOUS
  <2>4. Together(x) /\ Conducts(Current, x, z, S) /\ m \in Mem /\ Executes(Current, m, M)
    BY <2>2, <2>3
  <2>5. ASSUME StepOver, Together(z)' PROVE MeaningRunInv'
    BY <2>1, <2>2, <2>3, <2>5, MeaningGoesOn
  <2>6. ASSUME NEW i \in DOMAIN Current.succs, GoTo(Current.succs[i]),
               \A w : w = S[Current.succs[i]] => Together(w)'
        PROVE  MeaningRunInv'
    <3>1. PICK b : b = Current.succs[i]
      OBVIOUS
    <3>2. b \in Block /\ GoTo(b)
      BY <2>2, <2>6, <3>1
    <3>3. PICK w : w = S[b]
      OBVIOUS
    <3>4. Together(w)'
      BY <2>6, <3>1, <3>3
    <3>5. Together(S[b])'
      BY <3>3, <3>4
    <3> QED BY <2>1, <2>2, <3>2, <3>5, MeaningGoes
  <2>7. CASE MachineStep
    <3>1. \/ Current.op = "br" /\ GoTo(Current.succs[1]) /\ \A w : w = S[Current.succs[1]] => Together(w)'
          \/ StepOver /\ Together(z)'
      BY <2>3, <2>4, <2>7, MachineTogether
    <3> QED BY <2>1, <2>5, <2>6, <3>1, TargetsExist
  <2>8. CASE Call
    BY <2>4, <2>5, <2>8, CallTogether DEF Call
  <2>9. ASSUME NEW b \in BOOLEAN, Test(b) PROVE MeaningRunInv'
    <3>1. PICK i : i = IF b THEN 1 ELSE 2
      OBVIOUS
    <3>2. Current.op = "condbr" /\ \A w : w = S[Current.succs[i]] => Together(w)'
      BY <2>4, <2>9, <3>1, TestTogether
    <3>3. GoTo(Current.succs[i]) /\ i \in DOMAIN Current.succs
      BY <2>1, <2>9, <3>1, <3>2, TargetsExist DEF Test
    <3> QED BY <2>6, <3>2, <3>3
  <2> QED BY <1>6, <2>7, <2>8, <2>9
<1> QED BY <1>1, <1>2, <1>3, <1>5, <1>6 DEF Next, Stopped

\* The invariant holds of every execution.
LEMMA MeaningAlways ==
    ASSUME NoDoContinue
    PROVE  Spec => []MeaningRunInv
<1>1. ASSUME RunInv, MemRunInv, MeaningRunInv, [Next]_vars PROVE MeaningRunInv'
  BY <1>1, MeaningRunStep
<1> QED BY <1>1, MeaningRunStarts, MemAlways, RunAlways, PTL DEF Spec

\* Whatever the program, as long as no continue belongs to a do-while, and whatever the
\* outcomes of its conditions, the code SILGen emits calls the functions the source
\* calls, tests the conditions it tests and returns what it returns, in the same
\* order, however the two are interleaved until then: no visitor enters, leaves or
\* repeats the wrong block, drops a statement or runs one twice.
THEOREM SILGenIsFaithful ==
    ASSUME NoDoContinue
    PROVE  Spec => []SameObservations
<1>1. ASSUME RunInv, MeaningRunInv PROVE SameObservations
  <2> SUFFICES ASSUME Meeting PROVE SourceEvent(k) = MachineEvent
    BY DEF SameObservations
  <2>1. GenInv /\ AtInstruction /\ phase # "generate"
    BY <1>1 DEF RunInv, Meeting
  <2>2. PICK S : \E q : Points(fn, pc.block, S, q) /\ Together(q[pc.index])
    BY <1>1, <2>1 DEF MeaningRunInv
  <2>3. PICK q : Points(fn, pc.block, S, q) /\ Together(q[pc.index])
    BY <2>2
  <2> QED BY <2>1, <2>3, PointHere, MeetingHere
<1> QED BY <1>1, MeaningAlways, RunAlways, PTL

\* For these programs the memory there is at each call, test and exit is that of the
\* variables in scope in the source: no cleanup of a scope, a jump or a return is
\* emitted before the last use of its variable could be, or after the scope is left.
THEOREM SILGenKeepsScopes ==
    ASSUME NoDoContinue
    PROVE  Spec => []LiveIsInScope
<1>1. ASSUME RunInv, MeaningRunInv PROVE LiveIsInScope
  <2> SUFFICES ASSUME Meeting PROVE {v \in Var : mem[v] # "none"} = ToSet(env)
    BY DEF LiveIsInScope
  <2>1. GenInv /\ AtInstruction /\ phase # "generate"
    BY <1>1 DEF RunInv, Meeting
  <2>2. PICK S : \E q : Points(fn, pc.block, S, q) /\ Together(q[pc.index])
    BY <1>1, <2>1 DEF MeaningRunInv
  <2>3. PICK q : Points(fn, pc.block, S, q) /\ Together(q[pc.index])
    BY <2>2
  <2>4. env = q[pc.index].live
    BY <2>1, <2>3, PointHere, MeetingHere
  <2> QED BY <2>3, <2>4 DEF Together
<1> QED BY <1>1, MeaningAlways, RunAlways, PTL
=============================================================================
