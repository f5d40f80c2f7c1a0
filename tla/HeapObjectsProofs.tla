--------------------------- MODULE HeapObjectsProofs ---------------------------
(***************************************************************************)
(* For any threads, objects, kinds of objects and word size: counts are    *)
(* the numbers of references, and nothing is touched after its end.        *)
(***************************************************************************)
EXTENDS HeapObjects, FiniteSetTheorems, TLAPS

Calls ==
    {NoCall} \cup [op : {"retain", "release"}, object : Objects, place : Places,
                   at : {"entered", "read", "trap"}, read : 0 .. WordSize-1]

TypeOK ==
    /\ refCount \in [Objects -> 0 .. WordSize-1]
    /\ allocated \in [Objects -> BOOLEAN]
    /\ holds \in [Places -> Objects \cup {None}]
    /\ call \in [Threads -> Calls]
    /\ stack \in [Threads -> Seq(Objects)]
    /\ stage \in [Objects -> Stages \cup {"no"}]
    /\ home \in [Objects -> Threads \cup {None}]
    /\ halted \in BOOLEAN

(***************************************************************************)
(* The inductive invariant.  Counts and lifetimes alone are not inductive: *)
(* a plain update is safe because an object without the atomic bit is only *)
(* reached by the thread that made it (Confined), a retain because its     *)
(* thread reaches the object until it is counted (CallsSound), and a       *)
(* release in a destructor does not start it again because of what the     *)
(* destructor holds at each stage (Destroyed).                             *)
(***************************************************************************)
Counted == \A o \in Objects : refCount[o] \div RC_INTERVAL = Cardinality(Refs(o))
Fresh   == \A o \in Objects : ~allocated[o] => refCount[o] = 0 /\ holds[Field(o)] = None
Live    == \A o \in Objects : allocated[o] <=> Refs(o) # {} \/ Dying(o)

OwnPlaces == \A o \in Objects : \A p \in {This(o), Local(o), Use(o)} : holds[p] \in {o, None}

\* What the destructor of o holds of it at each stage.
Held(o) ==
    CASE stage[o] = "retain"     -> {}
      [] stage[o] = "variable"   -> {This(o)}
      [] stage[o] \in {"body", "use", "unvariable"} -> {This(o), Local(o)}
      [] stage[o] = "unuse"      -> {This(o), Local(o), Use(o)}
      [] stage[o] \in {"fields", "dealloc"} -> IF Kind[o] = "box" THEN {} ELSE {This(o)}

Destroyed ==
    /\ \A o \in Objects : Dying(o) => Refs(o) = Held(o)
    /\ \A o \in Objects : stage[o] \notin {"no", "fields", "dealloc"} => Kind[o] # "box"
    /\ \A o \in Objects : stage[o] = "dealloc" => holds[Field(o)] = None

Stacked ==
    /\ \A t \in Threads : \A i \in DOMAIN stack[t] :
          Dying(stack[t][i]) /\ (i > 1 => stage[stack[t][i]] = "dealloc")
    /\ \A t, u \in Threads : \A i \in DOMAIN stack[t], j \in DOMAIN stack[u] :
          stack[t][i] = stack[u][j] => t = u /\ i = j

Owned(t, p) == \/ p \in Vars(t)
               \/ \E q \in Objects : p = Field(q) /\ ~Atomic(q) /\ home[q] = t
               \/ \E q \in Objects : p \in {This(q), Local(q), Use(q)}
Confined ==
    \A o \in Objects : ~Atomic(o) =>
        /\ \A p \in Refs(o) : home[o] \in Threads /\ Owned(home[o], p)
        /\ \A t \in Threads : \A i \in DOMAIN stack[t] : stack[t][i] = o => home[o] = t

Reached(t, o) == \E v \in Vars(t) : \/ holds[v] = o
                                    \/ holds[v] # None /\ holds[Field(holds[v])] = o

RetainSound(t) ==
    LET c == call[t]
    IN  /\ holds[c.place] = None
        /\ IF stack[t] = << >> THEN c.place \in Vars(t) /\ Reached(t, c.object)
           ELSE /\ c.object = Head(stack[t])
                /\ \/ stage[c.object] = "retain"   /\ c.place = This(c.object)
                   \/ stage[c.object] = "variable" /\ c.place = Local(c.object)
                   \/ stage[c.object] = "use"      /\ c.place = Use(c.object)
ReleaseSound(t) ==
    LET c == call[t]
        o == Head(stack[t])
    IN  /\ holds[c.place] = c.object
        /\ IF stack[t] = << >> THEN c.place \in Vars(t)
           ELSE \/ stage[o] = "unuse"      /\ c.place = Use(o)
                \/ stage[o] = "unvariable" /\ c.place = Local(o)
                \/ stage[o] = "fields"     /\ c.place = Field(o)
CallSound(t) ==
    /\ call[t].op = "retain" => RetainSound(t)
    /\ call[t].op = "release" => ReleaseSound(t)
    /\ call[t].at = "read" => ~Atomic(call[t].object) /\ call[t].read = refCount[call[t].object]
CallsSound == \A t \in Threads : CallSound(t)

Good == Counted /\ Fresh /\ Live /\ OwnPlaces /\ Destroyed /\ Stacked /\ Confined /\ CallsSound
IInv == TypeOK /\ (Doomed \/ Good)

-----------------------------------------------------------------------------
(* Places *)
LEMMA PlaceFacts ==
    ASSUME NEW o \in Objects
    PROVE  /\ {Field(o), This(o), Local(o), Use(o)} \subseteq Places
           /\ \A q \in Objects : /\ (Field(o) = Field(q) \/ This(o) = This(q) \/ Local(o) = Local(q) \/ Use(o) = Use(q)) => o = q
                                 /\ Field(o) \notin {This(q), Local(q), Use(q)}
                                 /\ This(o) \notin {Local(q), Use(q)} /\ Local(o) # Use(q)
           /\ \A t \in Threads : {Field(o), This(o), Local(o), Use(o)} \cap Vars(t) = {}
BY HeapAssumption DEF Field, This, Local, Use, Places, Vars

LEMMA VarFacts ==
    ASSUME NEW t \in Threads
    PROVE  /\ Vars(t) \subseteq Places
           /\ \A u \in Threads : t # u => Vars(t) \cap Vars(u) = {}
BY DEF Vars, Places

LEMMA PlacesFinite == IsFiniteSet(Places)
<1>1. IsFiniteSet(Threads \X Variables)
  BY HeapAssumption, FS_Product
<1>2. IsFiniteSet({"field", "this", "variable", "use"})
  <2>1. IsFiniteSet({}) /\ IsFiniteSet({"field"})
    BY FS_EmptySet, FS_Singleton
  <2>2. IsFiniteSet({"field"} \cup {"this"})
    BY <2>1, FS_AddElement
  <2>3. IsFiniteSet(({"field"} \cup {"this"}) \cup {"variable"})
    BY <2>2, FS_AddElement
  <2>4. IsFiniteSet((({"field"} \cup {"this"}) \cup {"variable"}) \cup {"use"})
    BY <2>3, FS_AddElement
  <2>5. (({"field"} \cup {"this"}) \cup {"variable"}) \cup {"use"} = {"field", "this", "variable", "use"}
    OBVIOUS
  <2> QED BY <2>4, <2>5
<1>3. IsFiniteSet(Objects \X {"field", "this", "variable", "use"})
  BY <1>2, HeapAssumption, FS_Product
<1> QED BY <1>1, <1>3, FS_Union DEF Places

LEMMA RefsFinite == ASSUME NEW o PROVE IsFiniteSet(Refs(o)) /\ Cardinality(Refs(o)) \in Nat
BY PlacesFinite, FS_Subset, FS_CardinalityType DEF Refs

\* An empty place takes a reference.
LEMMA RefAdded ==
    ASSUME TypeOK, NEW p \in Places, NEW x \in Objects, holds[p] = None,
           holds' = [holds EXCEPT ![p] = x]
    PROVE  /\ Refs(x)' = Refs(x) \cup {p} /\ p \notin Refs(x)
           /\ \A o \in Objects : o # x => Refs(o)' = Refs(o)
           /\ Cardinality(Refs(x)') = Cardinality(Refs(x)) + 1
<1>1. /\ Refs(x)' = Refs(x) \cup {p} /\ p \notin Refs(x)
      /\ \A o \in Objects : o # x => Refs(o)' = Refs(o)
  BY HeapAssumption DEF TypeOK, Refs
<1> QED BY <1>1, RefsFinite, FS_AddElement, ZenonT(60)

\* A place gives up its reference.
LEMMA RefRemoved ==
    ASSUME TypeOK, NEW p \in Places, NEW x \in Objects, holds[p] = x,
           holds' = [holds EXCEPT ![p] = None]
    PROVE  /\ Refs(x)' = Refs(x) \ {p} /\ p \in Refs(x)
           /\ \A o \in Objects : o # x => Refs(o)' = Refs(o)
           /\ Cardinality(Refs(x)') = Cardinality(Refs(x)) - 1
<1>1. /\ Refs(x)' = Refs(x) \ {p} /\ p \in Refs(x)
      /\ \A o \in Objects : o # x => Refs(o)' = Refs(o)
  BY HeapAssumption DEF TypeOK, Refs
<1> QED BY <1>1, RefsFinite, FS_RemoveElement, SMTT(30)

-----------------------------------------------------------------------------
(* Types *)
USE DEF RC_INTERVAL

LEMMA InitOK == Init => IInv
<1> SUFFICES ASSUME Init PROVE IInv
  OBVIOUS
<1>1. TypeOK
  <2>1. WordSize \in Nat /\ WordSize > 4
    BY HeapAssumption
  <2>2. refCount \in [Objects -> 0 .. WordSize-1]
    BY <2>1 DEF Init
  <2>3. call \in [Threads -> Calls]
    BY DEF Init, Calls
  <2>4. stack \in [Threads -> Seq(Objects)]
    BY DEF Init
  <2>5. holds \in [Places -> Objects \cup {None}] /\ allocated \in [Objects -> BOOLEAN]
    BY DEF Init
  <2>6. /\ stage \in [Objects -> Stages \cup {"no"}] /\ home \in [Objects -> Threads \cup {None}]
        /\ halted \in BOOLEAN
    BY DEF Init
  <2> QED BY <2>2, <2>3, <2>4, <2>5, <2>6 DEF TypeOK
<1>2. \A o \in Objects : Refs(o) = {} /\ Cardinality(Refs(o)) = 0
  BY HeapAssumption, FS_EmptySet DEF Init, Refs
<1>3. Counted /\ Fresh /\ Live /\ Destroyed /\ Stacked /\ Confined
  BY <1>2, PlaceFacts DEF Init, Counted, Fresh, Live, Destroyed, Dying, Stacked, Confined
<1>4. OwnPlaces
  BY PlaceFacts DEF Init, OwnPlaces
<1>5. CallsSound
  BY DEF Init, NoCall, CallsSound, CallSound
<1> QED BY <1>1, <1>3, <1>4, <1>5 DEF IInv, Good

\* What a call that is being made is made of.
LEMMA CallFields ==
    ASSUME TypeOK, NEW t \in Threads, call[t].op # "none"
    PROVE  /\ call[t].op \in {"retain", "release"} /\ call[t].object \in Objects
           /\ call[t].place \in Places /\ call[t].at \in {"entered", "read", "trap"}
           /\ call[t].read \in 0 .. WordSize-1
BY DEF TypeOK, Calls, NoCall

LEMMA IdleFields ==
    ASSUME TypeOK, NEW t \in Threads
    PROVE  /\ call[t].op = "none" => call[t].at = "out"
           /\ call[t].at # "out" => call[t].op # "none"
<1>1. NoCall.op = "none" /\ NoCall.at = "out"
  BY DEF NoCall
<1>2. call[t] # NoCall => call[t].op # "none" /\ call[t].at # "out"
  BY DEF TypeOK, Calls
<1> QED BY <1>1, <1>2

\* There is room for the atomic bit.
LEMMA BitFits ==
    ASSUME NEW n \in 0 .. WordSize-1, n % 2 # 1
    PROVE  n + 1 \in 0 .. WordSize-1 /\ (n + 1) % 2 = 1 /\ (n + 1) \div 2 = n \div 2
<1>1. WordSize \in Nat /\ WordSize % 2 = 0
  BY HeapAssumption
<1>2. n % 2 = 0 /\ n \in Nat
  OBVIOUS
<1>3. n # WordSize - 1
  BY <1>1, <1>2
<1> QED BY <1>1, <1>2, <1>3

LEMMA Typed == TypeOK /\ [Next]_vars => TypeOK'
<1> SUFFICES ASSUME TypeOK, [Next]_vars PROVE TypeOK'
  OBVIOUS
<1>0. WordSize \in Nat /\ WordSize > 4 /\ None \notin Objects
  BY HeapAssumption
<1>m. \A n \in Int : n % WordSize \in 0 .. WordSize-1
  BY <1>0
<1>1. \A t \in Threads : \A op \in {"retain", "release"} : \A o \in Objects, p \in Places :
         Begin(t, op, o, p) => TypeOK'
  <2> SUFFICES ASSUME NEW t \in Threads, NEW op \in {"retain", "release"}, NEW o \in Objects, NEW p \in Places,
                      Begin(t, op, o, p)
               PROVE  TypeOK'
    OBVIOUS
  <2>1. 0 \in 0 .. WordSize-1
    BY <1>0
  <2>2. Calling(op, o, p) \in Calls
    BY <2>1 DEF Calling, Calls
  <2> QED BY <2>2 DEF Begin, TypeOK
<1>2. ASSUME NEW t \in Threads, NEW old \in 0 .. WordSize-1, call[t].op # "none",
             Update(t, old), UNCHANGED <<allocated, home, halted>>
      PROVE  TypeOK'
  <2>1. Returned(t) \in [Objects -> Stages \cup {"no"}]
    BY DEF Returned, NextStage, TypeOK, Stages
  <2>2. /\ call[t].object \in Objects /\ call[t].place \in Places
        /\ [call EXCEPT ![t].at = "trap"] \in [Threads -> Calls]
        /\ [call EXCEPT ![t] = NoCall] \in [Threads -> Calls]
    <3>1. call[t] \in Calls \ {NoCall} /\ NoCall \in Calls
      BY <1>2 DEF TypeOK, Calls, NoCall
    <3>2. [call[t] EXCEPT !.at = "trap"] \in Calls
      BY <3>1 DEF Calls
    <3> QED BY <1>2, <3>1, <3>2, CallFields DEF TypeOK
  <2>3. ASSUME NEW new \in Int, Fault(t, new) PROVE TypeOK'
    BY <1>m, <1>2, <2>2, <2>3 DEF Fault, TypeOK
  <2>4. CASE Increment(t, old)
    <3>1. CASE Overflows(old)
      BY <2>3, <2>4, <3>1, <1>0 DEF Increment
    <3>2. CASE ~Overflows(old)
      <4>1. (old + 2) % WordSize \in 0 .. WordSize-1
        BY <1>m
      <4>2. /\ refCount' = [refCount EXCEPT ![call[t].object] = (old + 2) % WordSize]
            /\ holds' = [holds EXCEPT ![call[t].place] = call[t].object]
            /\ call' = [call EXCEPT ![t] = NoCall]
            /\ stage' = Returned(t) /\ stack' = stack
        BY <2>4, <3>2 DEF Increment
      <4> QED BY <1>2, <2>1, <2>2, <4>1, <4>2 DEF TypeOK
    <3> QED BY <3>1, <3>2
  <2>5. CASE Decrement(t, old)
    <3>1. CASE Underflows(old)
      BY <2>3, <2>5, <3>1, <1>0 DEF Decrement
    <3>2. CASE ~Underflows(old)
      <4>1. old - 2 \in 0 .. WordSize-1 /\ FirstStage(call[t].object) \in Stages
        BY <1>0, <3>2 DEF Underflows, FirstStage, Stages
      <4>2. stage' \in [Objects -> Stages \cup {"no"}]
        BY <2>1, <2>2, <2>5, <3>2, <4>1 DEF Decrement
      <4>3. stack' \in [Threads -> Seq(Objects)]
        <5>1. <<call[t].object>> \o stack[t] \in Seq(Objects)
          BY <2>2 DEF TypeOK
        <5> QED BY <2>5, <3>2, <5>1 DEF Decrement, TypeOK
      <4>4. /\ refCount' = [refCount EXCEPT ![call[t].object] = old - 2]
            /\ holds' = [holds EXCEPT ![call[t].place] = None]
            /\ call' = [call EXCEPT ![t] = NoCall]
        BY <2>5, <3>2 DEF Decrement
      <4> QED BY <1>2, <2>2, <4>1, <4>2, <4>3, <4>4 DEF TypeOK
    <3> QED BY <3>1, <3>2
  <2> QED BY <1>2, <2>4, <2>5 DEF Update
<1>3. ASSUME NEW t \in Threads, Runtime(t) PROVE TypeOK'
  <2>1. ASSUME NEW o \in Objects, DestroyRetain(t, o) PROVE TypeOK'
    BY <1>1, <2>1, PlaceFacts DEF DestroyRetain
  <2>2. ASSUME NEW o \in Objects, DestroyRelease(t, o) PROVE TypeOK'
    <3>1. holds[Field(o)] # None => holds[Field(o)] \in Objects
      BY PlaceFacts DEF TypeOK
    <3> QED BY <1>1, <2>2, <3>1, PlaceFacts DEF DestroyRelease
  <2>3. ASSUME NEW o \in Objects, NEW at \in Stages, GoTo(o, at) PROVE TypeOK'
    BY <2>3 DEF GoTo, TypeOK
  <2>4. ASSUME NEW o \in Objects, DestroyBody(t, o) \/ DestroyNoField(t, o) PROVE TypeOK'
    BY <2>3, <2>4 DEF DestroyBody, DestroyNoField, Stages
  <2>5. ASSUME NEW o \in Objects, Deallocate(t, o) PROVE TypeOK'
    <3>1. Tail(stack[t]) \in Seq(Objects)
      BY <2>5 DEF Deallocate, Running, TypeOK
    <3>2. 0 \in 0 .. WordSize-1
      BY <1>0
    <3> QED BY <2>5, <3>1, <3>2, PlaceFacts DEF Deallocate, TypeOK
  <2>6. CASE LockedUpdate(t) \/ PlainWrite(t)
    <3>1. call[t].op # "none"
      BY <2>6 DEF LockedUpdate, PlainWrite, Update
    <3>2. refCount[call[t].object] \in 0 .. WordSize-1 /\ call[t].read \in 0 .. WordSize-1
      BY <3>1, CallFields DEF TypeOK
    <3> QED BY <1>2, <2>6, <3>1, <3>2 DEF LockedUpdate, PlainWrite
  <2>7. CASE PlainRead(t)
    <3>1. call[t].op # "none"
      BY <2>7, IdleFields DEF PlainRead
    <3>2. refCount[call[t].object] \in 0 .. WordSize-1 /\ call[t] \in Calls \ {NoCall}
      BY <3>1, CallFields DEF TypeOK, NoCall
    <3> QED BY <2>7, <3>2 DEF PlainRead, TypeOK, Calls
  <2>8. CASE Trap(t)
    BY <2>8 DEF Trap, TypeOK
  <2> QED BY <1>3, <2>1, <2>2, <2>4, <2>5, <2>6, <2>7, <2>8 DEF Runtime
<1>4. ASSUME NEW t \in Threads, Program(t) PROVE TypeOK'
  <2>1. PICK v \in Vars(t) :
          \/ \E o \in Objects : Allocate(t, v, o)
          \/ MarkShared(t, v)
          \/ Drop(t, v)
          \/ \E w \in Vars(t) : Copy(t, v, w) \/ Exchange(t, v, w)
          \/ \E u \in Threads : \E w \in Vars(u) : Hand(t, v, u, w)
    BY <1>4 DEF Program
  <2>2. v \in Places /\ (holds[v] # None => holds[v] \in Objects)
    BY VarFacts DEF TypeOK
  <2>3. ASSUME NEW o \in Objects, Allocate(t, v, o) PROVE TypeOK'
    <3>1. holds' \in [Places -> Objects \cup {None}] /\ refCount' \in [Objects -> 0 .. WordSize-1]
      <4>1. 2 \in 0 .. WordSize-1
        BY <1>0
      <4> QED BY <2>2, <2>3, <4>1 DEF Allocate, TypeOK
    <3>2. allocated' \in [Objects -> BOOLEAN] /\ home' \in [Objects -> Threads \cup {None}]
      BY <2>3 DEF Allocate, TypeOK
    <3> QED BY <2>3, <3>1, <3>2 DEF Allocate, TypeOK
  <2>4. CASE MarkShared(t, v)
    <3>1. refCount[holds[v]] + 1 \in 0 .. WordSize-1
      <4>1. refCount[holds[v]] \in 0 .. WordSize-1 /\ refCount[holds[v]] % 2 # 1
        BY <2>2, <2>4 DEF MarkShared, Atomic, TypeOK
      <4> QED BY <4>1, BitFits
    <3> QED BY <2>2, <2>4, <3>1 DEF MarkShared, TypeOK
  <2>5. CASE Drop(t, v)
    BY <1>1, <2>2, <2>5 DEF Drop
  <2>6. ASSUME NEW w \in Vars(t), Copy(t, v, w) PROVE TypeOK'
    <3>1. w \in Places
      BY VarFacts
    <3>2. \A o \in {holds[v], Content(holds[v])} \ {None} : holds[v] # None => o \in Objects
      BY <2>2, PlaceFacts DEF Content, TypeOK
    <3> QED BY <1>1, <2>6, <3>1, <3>2 DEF Copy
  <2>7. ASSUME NEW w \in Vars(t), Exchange(t, v, w) PROVE TypeOK'
    <3>1. w \in Places /\ holds[w] \in Objects
      BY <2>7, VarFacts DEF Exchange, TypeOK
    <3>2. Field(holds[w]) \in Places
      BY <3>1, PlaceFacts
    <3> QED BY <2>2, <2>7, <3>1, <3>2 DEF Exchange, Content, TypeOK
  <2>8. ASSUME NEW u \in Threads, NEW w \in Vars(u), Hand(t, v, u, w) PROVE TypeOK'
    <3>1. w \in Places
      BY VarFacts
    <3> QED BY <2>2, <2>8, <3>1 DEF Hand, TypeOK
  <2> QED BY <2>1, <2>3, <2>4, <2>5, <2>6, <2>7, <2>8
<1> QED BY <1>3, <1>4 DEF Next, Halted, vars, TypeOK

\* Once an increment has carried, nothing but int3 can be next for its thread.
LEMMA DoomedStays == TypeOK /\ Doomed /\ [Next]_vars => Doomed'
<1> SUFFICES ASSUME TypeOK, Doomed, [Next]_vars PROVE Doomed'
  OBVIOUS
<1>1. CASE UNCHANGED vars
  BY <1>1 DEF vars, Doomed
<1>2. ASSUME NEW t \in Threads, Trap(t) PROVE Doomed'
  BY <1>2 DEF Trap, Doomed
<1>3. ASSUME NEW t \in Threads, ~halted, call[t].at # "trap", halted' = halted,
             \A u \in Threads : u # t => call'[u] = call[u]
      PROVE  Doomed'
  BY <1>3 DEF Doomed
<1>4. ASSUME NEW t \in Threads, Runtime(t), ~Trap(t) PROVE Doomed'
  <2>1. \A u \in Threads : u # t => call'[u] = call[u]
    BY <1>4 DEF Runtime, DestroyRetain, DestroyRelease, DestroyBody, DestroyNoField, Deallocate, GoTo, Begin,
                LockedUpdate, PlainRead, PlainWrite, Update, Increment, Decrement, Fault, TypeOK
  <2>2. ~halted /\ halted' = halted
    BY <1>4 DEF Runtime, DestroyRetain, DestroyRelease, DestroyBody, DestroyNoField, Deallocate, GoTo, Begin,
                Running, LockedUpdate, PlainRead, PlainWrite
  <2>3. call[t].op = "none" \/ call[t].at \in {"entered", "read"}
    BY <1>4 DEF Runtime, DestroyRetain, DestroyRelease, DestroyBody, DestroyNoField, Deallocate,
                Running, LockedUpdate, PlainRead, PlainWrite
  <2> QED BY <1>3, <2>1, <2>2, <2>3, IdleFields
<1>6. ASSUME NEW t \in Threads, Program(t) PROVE Doomed'
  <2>1. /\ \A u \in Threads : u # t => call'[u] = call[u]
        /\ ~halted /\ halted' = halted /\ call[t].op = "none"
    BY <1>6 DEF Program, Allocate, MarkShared, Drop, Copy, Exchange, Hand, Ready, Begin, TypeOK
  <2> QED BY <1>3, <2>1, IdleFields
<1>5. CASE Halted
  BY <1>1, <1>5 DEF Halted
<1> QED BY <1>1, <1>2, <1>4, <1>5, <1>6 DEF Next

-----------------------------------------------------------------------------
(* Who holds what *)

\* What a variable holds is alive, not being destroyed, and its thread's own
\* if it has no atomic bit.
LEMMA VarHome ==
    ASSUME TypeOK, Good, NEW t \in Threads, NEW v \in Vars(t), holds[v] # None
    PROVE  /\ v \in Places /\ holds[v] \in Objects /\ v \in Refs(holds[v])
           /\ allocated[holds[v]] /\ ~Dying(holds[v])
           /\ ~Atomic(holds[v]) => home[holds[v]] = t
<1> DEFINE o == holds[v]
<1>1. v \in Places /\ o \in Objects /\ v \in Refs(o)
  BY VarFacts DEF TypeOK, Refs
<1>2. allocated[o]
  BY <1>1 DEF Good, Live
<1>3. ~Dying(o)
  <2>1. v \notin {This(o), Local(o), Use(o)}
    BY <1>1, PlaceFacts
  <2> QED BY <1>1, <2>1, ZenonT(60) DEF Good, Destroyed, Held, Dying, TypeOK, Stages
<1>4. ASSUME ~Atomic(o) PROVE home[o] = t
  <2>1. home[o] \in Threads /\ Owned(home[o], v)
    BY <1>1, <1>4 DEF Good, Confined
  <2>2. \A q \in Objects : v \notin {Field(q), This(q), Local(q), Use(q)}
    BY PlaceFacts
  <2> QED BY <2>1, <2>2, VarFacts DEF Owned
<1> QED BY <1>1, <1>2, <1>3, <1>4

\* So is what a field holds, and only an object without the bit holds another
\* one without it, of the same thread.
LEMMA FieldHome ==
    ASSUME TypeOK, Good, NEW q \in Objects, holds[Field(q)] # None
    PROVE  LET o == holds[Field(q)]
           IN  /\ o \in Objects /\ Field(q) \in Refs(o)
               /\ allocated[o] /\ ~Dying(o)
               /\ ~Atomic(o) => ~Atomic(q) /\ home[q] = home[o] /\ home[o] \in Threads
<1> DEFINE o == holds[Field(q)]
<1>1. o \in Objects /\ Field(q) \in Refs(o)
  BY PlaceFacts DEF TypeOK, Refs
<1>2. allocated[o]
  BY <1>1 DEF Good, Live
<1>3. ~Dying(o)
  <2>1. Field(q) \notin {This(o), Local(o), Use(o)}
    BY <1>1, PlaceFacts
  <2> QED BY <1>1, <2>1 DEF Good, Destroyed, Held, Dying, TypeOK, Stages
<1>4. ASSUME ~Atomic(o) PROVE ~Atomic(q) /\ home[q] = home[o] /\ home[o] \in Threads
  <2>1. home[o] \in Threads /\ Owned(home[o], Field(q))
    BY <1>1, <1>4 DEF Good, Confined
  <2>2. Field(q) \notin Vars(home[o]) /\ \A r \in Objects : Field(q) \notin {This(r), Local(r), Use(r)}
    BY <2>1, PlaceFacts
  <2>3. PICK r \in Objects : Field(q) = Field(r) /\ ~Atomic(r) /\ home[r] = home[o]
    BY <2>1, <2>2 DEF Owned
  <2>4. q = r
    BY <2>3, PlaceFacts
  <2> QED BY <2>1, <2>3, <2>4
<1> QED BY <1>1, <1>2, <1>3, <1>4

\* The object a thread is destroying.
LEMMA StackHome ==
    ASSUME TypeOK, Good, NEW t \in Threads, stack[t] # << >>
    PROVE  LET o == Head(stack[t])
           IN  /\ o \in Objects /\ o = stack[t][1] /\ 1 \in DOMAIN stack[t]
               /\ allocated[o] /\ Dying(o)
               /\ ~Atomic(o) => home[o] = t
               /\ \A u \in Threads : u # t => \A i \in DOMAIN stack[u] : stack[u][i] # o
               /\ \A i \in DOMAIN stack[t] : i # 1 => stack[t][i] # o
<1>1. stack[t] \in Seq(Objects)
  BY DEF TypeOK
<1>2. Head(stack[t]) \in Objects /\ Head(stack[t]) = stack[t][1] /\ 1 \in DOMAIN stack[t]
  BY <1>1
<1> QED BY <1>2 DEF Good, Live, Stacked, Confined

\* What the destroyed object's own places hold is that object.
LEMMA OwnHome ==
    ASSUME TypeOK, Good, NEW o \in Objects, NEW p \in {This(o), Local(o), Use(o)}, holds[p] # None
    PROVE  holds[p] = o /\ p \in Refs(o)
BY PlaceFacts DEF Good, OwnPlaces, Refs

\* The object of a call is alive until the call is over, and, without the
\* bit, belongs to the calling thread.
LEMMA CallTarget ==
    ASSUME TypeOK, Good, NEW t \in Threads, call[t].op # "none"
    PROVE  LET o == call[t].object
           IN  /\ o \in Objects /\ allocated[o]
               /\ ~Atomic(o) => home[o] = t
               /\ Dying(o) => stack[t] # << >> /\ o = Head(stack[t])
<1> DEFINE o == call[t].object
           p == call[t].place
           h == Head(stack[t])
<1>0. o \in Objects /\ p \in Places /\ o # None /\ call[t].op \in {"retain", "release"}
  BY CallFields, HeapAssumption
<1>1. CASE call[t].op = "retain" /\ stack[t] = << >>
  <2>1. Reached(t, o)
    BY <1>1 DEF Good, CallsSound, CallSound, RetainSound
  <2>2. PICK v \in Vars(t) : holds[v] = o \/ (holds[v] # None /\ holds[Field(holds[v])] = o)
    BY <2>1 DEF Reached
  <2>3. CASE holds[v] = o
    BY <1>0, <2>3, VarHome
  <2>4. CASE holds[v] # None /\ holds[Field(holds[v])] = o
    <3>1. holds[v] \in Objects /\ (~Atomic(holds[v]) => home[holds[v]] = t)
      BY <2>4, VarHome
    <3> QED BY <1>0, <2>4, <3>1, FieldHome
  <2> QED BY <2>2, <2>3, <2>4
<1>2. CASE call[t].op = "retain" /\ stack[t] # << >>
  <2>1. o = Head(stack[t])
    BY <1>2 DEF Good, CallsSound, CallSound, RetainSound
  <2> QED BY <1>2, <2>1, StackHome
<1>3. CASE call[t].op = "release" /\ stack[t] = << >>
  <2>1. holds[p] = o /\ p \in Vars(t)
    BY <1>3 DEF Good, CallsSound, CallSound, ReleaseSound
  <2> QED BY <1>0, <2>1, VarHome
<1>4. CASE call[t].op = "release" /\ stack[t] # << >>
  <2>1. holds[p] = o /\ p \in {Use(h), Local(h), Field(h)}
    BY <1>4 DEF Good, CallsSound, CallSound, ReleaseSound
  <2>2. CASE p = Field(h)
    BY <1>0, <1>4, <2>1, <2>2, FieldHome, StackHome
  <2>3. CASE p \in {Use(h), Local(h)}
    <3>1. h \in Objects
      BY <1>4, StackHome
    <3>2. o = h
      BY <1>0, <2>1, <2>3, <3>1, OwnHome
    <3> QED BY <1>4, <3>2, StackHome
  <2> QED BY <2>1, <2>2, <2>3
<1> QED BY <1>0, <1>1, <1>2, <1>3, <1>4

\* What a step of another thread may not change for the call of t.
Untouched(t) ==
    /\ call'[t] = call[t] /\ stack'[t] = stack[t]
    /\ \A v \in Vars(t) : /\ holds'[v] = holds[v]
                          /\ holds[v] # None => holds'[Field(holds[v])] = holds[Field(holds[v])]
    /\ stack[t] # << >> =>
          LET o == Head(stack[t])
          IN  /\ stage'[o] = stage[o]
              /\ \A p \in {Field(o), This(o), Local(o), Use(o)} : holds'[p] = holds[p]
    /\ call[t].at = "read" => refCount'[call[t].object] = refCount[call[t].object]

LEMMA OtherCall ==
    ASSUME TypeOK, Good, NEW t \in Threads, Untouched(t)
    PROVE  CallSound(t)'
<1>0. CallSound(t) /\ call'[t] = call[t] /\ stack'[t] = stack[t]
  BY DEF Good, CallsSound, Untouched
<1>1. ASSUME call[t].op = "retain" PROVE RetainSound(t)'
  <2>1. RetainSound(t)
    BY <1>0, <1>1 DEF CallSound
  <2>2. CASE stack[t] = << >>
    <3>1. Reached(t, call[t].object)' /\ holds'[call[t].place] = None /\ call[t].place \in Vars(t)
      BY <2>1, <2>2 DEF RetainSound, Reached, Untouched
    <3> QED BY <1>0, <2>2, <3>1 DEF RetainSound, Reached, Vars
  <2>3. CASE stack[t] # << >>
    BY <1>0, <2>1, <2>3 DEF RetainSound, Untouched
  <2> QED BY <2>2, <2>3
<1>2. ASSUME call[t].op = "release" PROVE ReleaseSound(t)'
  BY <1>0, <1>2 DEF CallSound, ReleaseSound, Untouched, Vars
<1>3. ASSUME call[t].at = "read"
      PROVE  ~Atomic(call[t].object)' /\ call[t].read = refCount'[call[t].object]
  BY <1>0, <1>3 DEF CallSound, Untouched, Atomic
<1> QED BY <1>0, <1>1, <1>2, <1>3 DEF CallSound, Atomic

-----------------------------------------------------------------------------
(* Steps that begin, look or go on *)

LEMMA OnlyCalls ==
    ASSUME TypeOK, Good, NEW t \in Threads,
           UNCHANGED <<refCount, allocated, holds, stack, stage, home>>,
           \A u \in Threads : u # t => call'[u] = call[u],
           CallSound(t)'
    PROVE  Good'
<1>1. \A o \in Objects : Refs(o)' = Refs(o)
  BY DEF Refs
<1>2. (Counted /\ Fresh /\ Live)'
  BY <1>1 DEF Good, Counted, Fresh, Live, Dying
<1>3. (OwnPlaces /\ Destroyed)'
  BY <1>1 DEF Good, OwnPlaces, Destroyed, Dying, Held
<1>4. Stacked'
  BY DEF Good, Stacked, Dying
<1>5. Confined'
  BY <1>1 DEF Good, Confined, Owned, Atomic
<1>6. CallsSound'
  <2>1. ASSUME NEW u \in Threads, u # t PROVE CallSound(u)'
    <3>1. Untouched(u)
      BY <2>1 DEF Untouched
    <3> QED BY <3>1, OtherCall
  <2> QED BY <2>1 DEF CallsSound
<1> QED BY <1>2, <1>3, <1>4, <1>5, <1>6 DEF Good

\* The call that Begin makes.
LEMMA BeginCall ==
    ASSUME TypeOK, NEW t \in Threads, NEW op, NEW o, NEW p, Begin(t, op, o, p)
    PROVE  /\ call'[t].op = op /\ call'[t].object = o /\ call'[t].place = p /\ call'[t].at = "entered"
           /\ \A u \in Threads : u # t => call'[u] = call[u]
           /\ UNCHANGED <<refCount, allocated, holds, stack, stage, home>>
BY DEF Begin, Calling, TypeOK

\* A destroy function holds what Held says, and the place a retain fills is empty.
LEMMA DestroyPlaces ==
    ASSUME TypeOK, Good, NEW t \in Threads, stack[t] # << >>
    PROVE  LET o == Head(stack[t])
           IN  /\ stage[o] = "retain" => holds[This(o)] = None
               /\ stage[o] = "variable" => holds[Local(o)] = None
               /\ stage[o] = "use" => holds[Use(o)] = None
               /\ stage[o] = "unuse" => holds[Use(o)] = o
               /\ stage[o] = "unvariable" => holds[Local(o)] = o
<1> DEFINE o == Head(stack[t])
<1>1. o \in Objects /\ Dying(o)
  BY StackHome
<1>2. Refs(o) = Held(o)
  BY <1>1 DEF Good, Destroyed
<1>3. \A p \in {This(o), Local(o), Use(o)} : p \in Places /\ holds[p] \in {o, None} /\ (holds[p] = o <=> p \in Refs(o))
  BY <1>1, PlaceFacts DEF Good, OwnPlaces, Refs
<1>4. This(o) # Local(o) /\ This(o) # Use(o) /\ Local(o) # Use(o)
  BY <1>1, PlaceFacts
<1> QED BY <1>2, <1>3, <1>4 DEF Held

LEMMA DestroyRetainOK ==
    ASSUME TypeOK, Good, NEW t \in Threads, NEW o \in Objects, DestroyRetain(t, o)
    PROVE  Good'
<1>1. stack[t] # << >> /\ o = Head(stack[t])
  BY DEF DestroyRetain, Running
<1>2. PICK p \in {This(o), Local(o), Use(o)} :
         /\ Begin(t, "retain", o, p)
         /\ \/ stage[o] = "retain"   /\ p = This(o)
            \/ stage[o] = "variable" /\ p = Local(o)
            \/ stage[o] = "use"      /\ p = Use(o)
  BY DEF DestroyRetain, Running
<1>3. holds[p] = None
  BY <1>1, <1>2, DestroyPlaces
<1>4. CallSound(t)'
  BY <1>1, <1>2, <1>3, BeginCall DEF CallSound, RetainSound, This, Local, Use
<1> QED BY <1>2, <1>4, BeginCall, OnlyCalls

LEMMA DestroyReleaseOK ==
    ASSUME TypeOK, Good, NEW t \in Threads, NEW o \in Objects, DestroyRelease(t, o)
    PROVE  Good'
<1>1. stack[t] # << >> /\ o = Head(stack[t])
  BY DEF DestroyRelease, Running
<1>2. PICK p \in {Field(o), Local(o), Use(o)} :
         /\ \/ stage[o] = "unuse"      /\ p = Use(o)   /\ Begin(t, "release", o, p)
            \/ stage[o] = "unvariable" /\ p = Local(o) /\ Begin(t, "release", o, p)
            \/ stage[o] = "fields"     /\ p = Field(o) /\ Begin(t, "release", holds[p], p)
  BY DEF DestroyRelease, Running
<1>3. Begin(t, "release", holds[p], p)
  BY <1>1, <1>2, DestroyPlaces
<1>4. CallSound(t)'
  BY <1>1, <1>2, <1>3, BeginCall DEF CallSound, ReleaseSound, Field, Local, Use
<1> QED BY <1>3, <1>4, BeginCall, OnlyCalls

LEMMA CopyOK ==
    ASSUME TypeOK, Good, NEW t \in Threads, NEW v \in Vars(t), NEW d \in Vars(t), Copy(t, v, d)
    PROVE  Good'
<1>1. PICK o \in {holds[v], Content(holds[v])} \ {None} : Begin(t, "retain", o, d)
  BY DEF Copy
<1>2. Reached(t, o) /\ holds[d] = None /\ stack[t] = << >>
  BY DEF Copy, Reached, Content, Ready
<1>3. CallSound(t)'
  <2>1. Reached(t, o)'
    BY <1>1, <1>2, BeginCall DEF Reached
  <2> QED BY <1>1, <1>2, <2>1, BeginCall DEF CallSound, RetainSound, Vars, Reached
<1> QED BY <1>1, <1>3, BeginCall, OnlyCalls

LEMMA DropOK ==
    ASSUME TypeOK, Good, NEW t \in Threads, NEW v \in Vars(t), Drop(t, v)
    PROVE  Good'
<1>1. Begin(t, "release", holds[v], v) /\ stack[t] = << >>
  BY DEF Drop, Ready
<1>2. CallSound(t)'
  BY <1>1, BeginCall DEF CallSound, ReleaseSound, Vars
<1> QED BY <1>1, <1>2, BeginCall, OnlyCalls

LEMMA PlainReadOK ==
    ASSUME TypeOK, Good, NEW t \in Threads, PlainRead(t)
    PROVE  Good'
<1>1. call[t].op # "none" /\ CallSound(t)
  BY IdleFields DEF PlainRead, Good, CallsSound
<1>2. /\ call'[t].op = call[t].op /\ call'[t].object = call[t].object /\ call'[t].place = call[t].place
      /\ call'[t].at = "read" /\ call'[t].read = refCount[call[t].object]
      /\ \A u \in Threads : u # t => call'[u] = call[u]
  <2>1. call[t] \in Calls \ {NoCall}
    BY <1>1 DEF TypeOK, NoCall
  <2> QED BY <2>1 DEF PlainRead, TypeOK, Calls
<1>3. ~Atomic(call[t].object) /\ UNCHANGED <<refCount, allocated, holds, stack, stage, home>>
  BY DEF PlainRead, TestBit
<1>4. CallSound(t)'
  <2>1. call[t].op = "retain" => RetainSound(t)'
    BY <1>1, <1>2, <1>3 DEF CallSound, RetainSound, Reached, Vars
  <2>2. call[t].op = "release" => ReleaseSound(t)'
    BY <1>1, <1>2, <1>3 DEF CallSound, ReleaseSound, Vars
  <2> QED BY <1>2, <1>3, <2>1, <2>2 DEF CallSound, Atomic
<1> QED BY <1>2, <1>3, <1>4, OnlyCalls

\* The destroy function of o goes on to a stage where it holds the same.
LEMMA GoToOK ==
    ASSUME TypeOK, Good, NEW t \in Threads, NEW o \in Objects, NEW s \in Stages, NEW at \in Stages,
           Running(t, o, s), GoTo(o, at),
           \/ s = "body" /\ at \in {"use", "unvariable"}
           \/ s = "fields" /\ at = "dealloc" /\ holds[Field(o)] = None
    PROVE  Good'
<1>1. o \in Objects /\ Dying(o) /\ stack[t] # << >> /\ o = Head(stack[t]) /\ stage[o] = s /\ call[t].op = "none"
  BY StackHome DEF Running
<1>2. /\ UNCHANGED <<refCount, allocated, holds, call, stack, home>>
      /\ \A r \in Objects : stage'[r] = IF r = o THEN at ELSE stage[r]
  BY DEF GoTo, TypeOK
<1>3. \A r \in Objects : Refs(r)' = Refs(r)
  BY <1>2 DEF Refs
<1>4. \A r \in Objects : Dying(r)' = Dying(r)
  BY <1>1, <1>2 DEF Dying, Stages
<1>5. Counted' /\ Fresh' /\ Live' /\ OwnPlaces'
  BY <1>2, <1>3, <1>4 DEF Good, Counted, Fresh, Live, OwnPlaces
<1>6. Destroyed'
  <2>1. \A r \in Objects : Held(r)' = Held(r)
    BY <1>1, <1>2 DEF Held
  <2> QED BY <1>1, <1>2, <1>3, <1>4, <2>1 DEF Good, Destroyed
<1>7. Stacked'
  <2>1. \A u \in Threads : \A i \in DOMAIN stack[u] : i > 1 => stack[u][i] # o
    BY <1>1, StackHome
  <2>2. \A u \in Threads : \A i \in DOMAIN stack[u] : stack[u][i] \in Objects
    BY DEF TypeOK
  <2> QED BY <1>2, <1>4, <2>1, <2>2 DEF Good, Stacked
<1>8. Confined'
  BY <1>2, <1>3 DEF Good, Confined, Owned, Atomic
<1>9. CallsSound'
  <2>1. ASSUME NEW u \in Threads, u # t PROVE CallSound(u)'
    <3>1. stack[u] # << >> => Head(stack[u]) \in Objects /\ Head(stack[u]) # o
      BY <1>1, <2>1, StackHome
    <3>2. Untouched(u)
      BY <1>2, <3>1 DEF Untouched
    <3> QED BY <3>2, OtherCall
  <2>2. CallSound(t)'
    BY <1>1, <1>2, IdleFields DEF CallSound
  <2> QED BY <2>1, <2>2 DEF CallsSound
<1> QED BY <1>5, <1>6, <1>7, <1>8, <1>9 DEF Good

LEMMA DestroyGoesOn ==
    ASSUME TypeOK, Good, NEW t \in Threads, NEW o \in Objects, DestroyBody(t, o) \/ DestroyNoField(t, o)
    PROVE  Good'
BY GoToOK DEF DestroyBody, DestroyNoField, Stages

-----------------------------------------------------------------------------
(* Updates of the count *)

\* The count that an update starts from is the one in memory.
LEMMA UpdateReads ==
    ASSUME TypeOK, Good, NEW t \in Threads, LockedUpdate(t) \/ PlainWrite(t)
    PROVE  /\ call[t].op # "none"
           /\ Update(t, refCount[call[t].object])
           /\ UNCHANGED <<allocated, home, halted>>
BY DEF LockedUpdate, PlainWrite, Update, Good, CallsSound, CallSound

\* What an update changes is not another thread's.
LEMMA OthersKeep ==
    ASSUME TypeOK, Good, NEW t \in Threads, call[t].op # "none",
           NEW new, NEW x,
           refCount' = [refCount EXCEPT ![call[t].object] = new],
           holds' = [holds EXCEPT ![call[t].place] = x],
           \A u \in Threads : u # t => call'[u] = call[u] /\ stack'[u] = stack[u],
           \A u \in Threads : u # t /\ stack[u] # << >> => stage'[Head(stack[u])] = stage[Head(stack[u])],
           NEW u \in Threads, u # t
    PROVE  CallSound(u)'
<1> DEFINE o == call[t].object
           p == call[t].place
           h == Head(stack[t])
           g == Head(stack[u])
<1>0. o \in Objects /\ p \in Places /\ call[t].op \in {"retain", "release"}
  BY CallFields
<1>1. \A q \in Places : q # p => holds'[q] = holds[q]
  BY DEF TypeOK
<1>2. \/ stack[t] = << >> /\ p \in Vars(t)
      \/ stack[t] # << >> /\ p \in {Field(h), This(h), Local(h), Use(h)}
  <2>1. CASE call[t].op = "retain"
    BY <2>1 DEF Good, CallsSound, CallSound, RetainSound
  <2>2. CASE call[t].op = "release"
    BY <2>2 DEF Good, CallsSound, CallSound, ReleaseSound
  <2> QED BY <1>0, <2>1, <2>2
<1>3. stack[t] # << >> => h \in Objects /\ Dying(h)
  BY StackHome
<1>4. ASSUME NEW v \in Vars(u)
      PROVE  /\ holds'[v] = holds[v]
             /\ holds[v] # None => holds'[Field(holds[v])] = holds[Field(holds[v])]
  <2>1. v \in Places /\ v # p
    BY <1>2, <1>3, VarFacts, PlaceFacts
  <2>2. ASSUME holds[v] # None PROVE Field(holds[v]) \in Places /\ Field(holds[v]) # p
    <3>1. holds[v] \in Objects /\ ~Dying(holds[v])
      BY <2>2, VarHome
    <3> QED BY <1>2, <1>3, <3>1, PlaceFacts
  <2> QED BY <1>1, <2>1, <2>2
<1>5. ASSUME stack[u] # << >>
      PROVE  \A q \in {Field(g), This(g), Local(g), Use(g)} : holds'[q] = holds[q]
  <2>1. g \in Objects /\ (stack[t] # << >> => g # h)
    BY <1>5, StackHome
  <2>2. \A q \in {Field(g), This(g), Local(g), Use(g)} : q \in Places /\ q # p
    BY <1>2, <1>3, <2>1, PlaceFacts
  <2> QED BY <1>1, <2>2
<1>6. ASSUME call[u].at = "read" PROVE refCount'[call[u].object] = refCount[call[u].object]
  <2>1. call[u].op # "none" /\ ~Atomic(call[u].object)
    BY <1>6, IdleFields DEF Good, CallsSound, CallSound
  <2>2. call[u].object \in Objects /\ home[call[u].object] = u
    BY <2>1, CallTarget
  <2>3. call[u].object # o
    BY <2>1, <2>2, CallTarget
  <2> QED BY <2>2, <2>3 DEF TypeOK
<1>7. Untouched(u)
  BY <1>4, <1>5, <1>6 DEF Untouched
<1> QED BY <1>7, OtherCall

LEMMA IdleIsSound == ASSUME NEW t \in Threads, call'[t] = NoCall PROVE CallSound(t)'
BY DEF CallSound, NoCall

LEMMA IncrementOK ==
    ASSUME TypeOK, TypeOK', Good, NEW t \in Threads, call[t].op = "retain",
           NEW o, NEW p, o = call[t].object, p = call[t].place,
           ~Overflows(refCount[o]), Increment(t, refCount[o]),
           UNCHANGED <<allocated, home>>
    PROVE  Good'
<1>0. /\ o \in Objects /\ p \in Places /\ allocated[o] /\ refCount[o] \in Nat
      /\ Dying(o) => stack[t] # << >> /\ o = Head(stack[t])
      /\ ~Atomic(o) => home[o] = t
  BY CallFields, CallTarget DEF TypeOK
<1>1. /\ refCount' = [refCount EXCEPT ![o] = refCount[o] + 2]
      /\ holds' = [holds EXCEPT ![p] = o]
      /\ call' = [call EXCEPT ![t] = NoCall]
      /\ stage' = Returned(t) /\ stack' = stack
  <2>1. WordSize \in Nat /\ refCount[o] + 2 < WordSize /\ refCount[o] + 2 >= 0
    BY <1>0, HeapAssumption DEF Overflows
  <2>2. (refCount[o] + 2) % WordSize = refCount[o] + 2
    BY <1>0, <2>1, SMTT(30)
  <2> QED BY <2>2 DEF Increment
<1>2. RetainSound(t) /\ holds[p] = None
  BY DEF Good, CallsSound, CallSound, RetainSound
<1>3. /\ Refs(o)' = Refs(o) \cup {p} /\ p \notin Refs(o)
      /\ \A r \in Objects : r # o => Refs(r)' = Refs(r)
      /\ Cardinality(Refs(o)') = Cardinality(Refs(o)) + 1
  BY <1>0, <1>1, <1>2, RefAdded, ZenonT(60)
<1>4. \A r \in Objects : (Atomic(r)' <=> Atomic(r))
  BY <1>0, <1>1 DEF Atomic, TypeOK
<1>5. \/ stack[t] = << >> /\ p \in Vars(t) /\ ~Dying(o) /\ stage' = stage
      \/ /\ stack[t] # << >> /\ o = Head(stack[t]) /\ Dying(o)
         /\ stage' = [stage EXCEPT ![o] = NextStage(o)]
         /\ \/ stage[o] = "retain"   /\ p = This(o)  /\ NextStage(o) \in {"variable", "fields"}
            \/ stage[o] = "variable" /\ p = Local(o) /\ NextStage(o) = "body"
            \/ stage[o] = "use"      /\ p = Use(o)   /\ NextStage(o) = "unuse"
  <2>1. CASE stack[t] = << >>
    BY <1>0, <1>1, <1>2, <2>1, SMTT(30) DEF RetainSound, Returned
  <2>2. CASE stack[t] # << >>
    BY <1>1, <1>2, <2>2, StackHome DEF RetainSound, Returned, NextStage
  <2> QED BY <2>1, <2>2
<1>6. \A r \in Objects : /\ Dying(r)' <=> Dying(r)
                         /\ r # o \/ ~Dying(o) => stage'[r] = stage[r]
  BY <1>0, <1>5, SMTT(30) DEF Dying, TypeOK
<1>7. \A q \in Places : q # p => holds'[q] = holds[q]
  BY DEF Increment, TypeOK
<1>8. \A r \in Objects : p # Field(r)
  BY <1>0, <1>5, PlaceFacts
<1>9. Counted'
  <2>1. (refCount[o] + 2) \div 2 = refCount[o] \div 2 + 1
    BY <1>0
  <2>2. \A r \in Objects : refCount'[r] = IF r = o THEN refCount[o] + 2 ELSE refCount[r]
    BY <1>0, <1>1 DEF TypeOK
  <2> QED BY <1>0, <1>3, <2>1, <2>2, ZenonT(60) DEF Good, Counted
<1>10. Fresh'
  <2>1. \A r \in Objects : Field(r) \in Places
    BY PlaceFacts
  <2>2. \A r \in Objects : r # o => refCount'[r] = refCount[r]
    BY <1>1 DEF TypeOK
  <2> QED BY <1>0, <1>7, <1>8, <2>1, <2>2 DEF Good, Fresh
<1>11. Live'
  BY <1>0, <1>3, <1>6 DEF Good, Live
<1>12. OwnPlaces'
  <2>1. ASSUME NEW r \in Objects, NEW q \in {This(r), Local(r), Use(r)} PROVE holds'[q] \in {r, None}
    <3>1. q \in Places
      BY PlaceFacts
    <3>2. CASE q # p
      BY <1>7, <3>1, <3>2 DEF Good, OwnPlaces
    <3>3. CASE q = p
      <4>1. r = o
        BY <1>0, <1>5, <3>3, PlaceFacts
      <4> QED BY <1>0, <1>1, <3>3, <4>1 DEF TypeOK
    <3> QED BY <3>2, <3>3
  <2> QED BY <2>1 DEF OwnPlaces, This, Local, Use
<1>13. Destroyed'
  <2>1. ASSUME NEW r \in Objects, Dying(r)' PROVE Refs(r)' = Held(r)'
    <3>1. CASE r # o
      <4>1. Held(r)' = Held(r)
        BY <1>6, <3>1, ZenonT(60) DEF Held, This, Local, Use
      <4> QED BY <1>3, <1>6, <2>1, <3>1, <4>1 DEF Good, Destroyed
    <3>2. CASE r = o
      <4>1. Dying(o) /\ Refs(o) = Held(o)
        BY <1>6, <2>1, <3>2 DEF Good, Destroyed
      <4>2. stage'[o] = NextStage(o)
        BY <1>0, <1>5, <4>1 DEF TypeOK
      <4>3. stage[o] = "retain" => Kind[o] # "box"
        BY <1>0 DEF Good, Destroyed
      <4> QED BY <1>3, <1>5, <3>2, <4>1, <4>2, <4>3, ZenonT(60) DEF Held, This, Local, Use
    <3> QED BY <3>1, <3>2
  <2>2. ASSUME NEW r \in Objects, stage'[r] \notin {"no", "fields", "dealloc"} PROVE Kind[r] # "box"
    <3>1. CASE stage'[r] = stage[r]
      BY <2>2, <3>1 DEF Good, Destroyed
    <3>2. CASE stage'[r] # stage[r]
      <4>1. r = o /\ stage[o] \in {"retain", "variable", "use"}
        BY <1>5, <1>6, <3>2
      <4> QED BY <4>1 DEF Good, Destroyed
    <3> QED BY <3>1, <3>2
  <2>3. ASSUME NEW r \in Objects, stage'[r] = "dealloc" PROVE holds'[Field(r)] = None
    <3>1. stage[r] = "dealloc"
      BY <1>0, <1>5, <1>6, <2>3 DEF TypeOK
    <3> QED BY <1>7, <1>8, <3>1, PlaceFacts DEF Good, Destroyed
  <2> QED BY <2>1, <2>2, <2>3 DEF Destroyed, Field
<1>14. Stacked'
  <2>1. \A u \in Threads : \A i \in DOMAIN stack[u] : stack[u][i] \in Objects
    BY DEF TypeOK
  <2>2. \A u \in Threads : \A i \in DOMAIN stack[u] : i > 1 => stage'[stack[u][i]] = stage[stack[u][i]]
    <3>1. CASE Dying(o)
      <4>1. \A u \in Threads : \A i \in DOMAIN stack[u] : i > 1 => stack[u][i] # o
        BY <1>5, <3>1, StackHome
      <4> QED BY <1>6, <2>1, <4>1
    <3>2. CASE ~Dying(o)
      BY <1>6, <2>1, <3>2
    <3> QED BY <3>1, <3>2
  <2> QED BY <1>1, <1>6, <2>1, <2>2 DEF Good, Stacked
<1>15. Confined'
  <2>1. \A u \in Threads, q \in Places : Owned(u, q)' <=> Owned(u, q)
    BY <1>4 DEF Owned, Field, This, Local, Use, Vars
  <2>2. ASSUME NEW r \in Objects, ~Atomic(r)' PROVE
              /\ \A q \in Refs(r)' : home[r] \in Threads /\ Owned(home[r], q)
              /\ \A u \in Threads : \A i \in DOMAIN stack[u] : stack[u][i] = r => home[r] = u
    <3>1. ~Atomic(r)
      BY <1>4, <2>2
    <3>2. r = o => Owned(t, p)
      BY <1>0, <1>5 DEF Owned
    <3> QED BY <1>0, <1>3, <3>1, <3>2 DEF Good, Confined
  <2>3. \A r \in Objects : Refs(r)' \subseteq Places
    BY DEF Refs
  <2> QED BY <1>1, <2>1, <2>2, <2>3 DEF Confined
<1>16. CallsSound'
  <2>1. CallSound(t)'
    BY <1>1, IdleIsSound DEF TypeOK
  <2>2. \A u \in Threads : u # t => call'[u] = call[u] /\ stack'[u] = stack[u]
    BY <1>1 DEF TypeOK
  <2>3. ASSUME NEW u \in Threads, u # t, stack[u] # << >> PROVE stage'[Head(stack[u])] = stage[Head(stack[u])]
    BY <1>5, <1>6, <2>3, StackHome
  <2> QED BY <1>1, <2>1, <2>2, <2>3, OthersKeep DEF CallsSound
<1> QED BY <1>9, <1>10, <1>11, <1>12, <1>13, <1>14, <1>15, <1>16 DEF Good

LEMMA DecrementOK ==
    ASSUME TypeOK, TypeOK', Good, NEW t \in Threads, call[t].op = "release",
           NEW o, NEW p, o = call[t].object, p = call[t].place,
           ~Underflows(refCount[o]), Decrement(t, refCount[o]),
           UNCHANGED <<allocated, home>>
    PROVE  Good'
<1> DEFINE h == Head(stack[t])
           zero == IsZero(refCount[o] - 2)
<1>0. /\ o \in Objects /\ p \in Places /\ allocated[o] /\ refCount[o] \in Nat /\ refCount[o] >= 2 /\ o # None
      /\ Dying(o) => stack[t] # << >> /\ o = Head(stack[t])
      /\ ~Atomic(o) => home[o] = t
  BY CallFields, CallTarget, HeapAssumption, SMTT(30) DEF TypeOK, Underflows
<1>1. /\ refCount' = [refCount EXCEPT ![o] = refCount[o] - 2]
      /\ holds' = [holds EXCEPT ![p] = None]
      /\ call' = [call EXCEPT ![t] = NoCall]
      /\ zero => /\ stage' = [Returned(t) EXCEPT ![o] = FirstStage(o)]
                 /\ stack' = [stack EXCEPT ![t] = <<o>> \o stack[t]]
      /\ ~zero => stage' = Returned(t) /\ stack' = stack
  BY DEF Decrement
<1>2. ReleaseSound(t) /\ holds[p] = o
  BY DEF Good, CallsSound, CallSound, ReleaseSound
<1>3. /\ Refs(o)' = Refs(o) \ {p} /\ p \in Refs(o)
      /\ \A r \in Objects : r # o => Refs(r)' = Refs(r)
      /\ Cardinality(Refs(o)') = Cardinality(Refs(o)) - 1
  BY <1>0, <1>1, <1>2, RefRemoved, ZenonT(60)
<1>4. \A r \in Objects : (Atomic(r)' <=> Atomic(r))
  BY <1>0, <1>1, SMTT(30) DEF Atomic, TypeOK
<1>5. \A r \in Objects : refCount'[r] = IF r = o THEN refCount[o] - 2 ELSE refCount[r]
  BY <1>0, <1>1 DEF TypeOK
<1>6. \A q \in Places : q # p => holds'[q] = holds[q]
  BY <1>1 DEF TypeOK
<1>7. Counted'
  <2>1. (refCount[o] - 2) \div 2 = refCount[o] \div 2 - 1
    BY <1>0
  <2> QED BY <1>0, <1>3, <1>5, <2>1, ZenonT(60) DEF Good, Counted
<1>8. zero <=> Refs(o)' = {}
  <2>1. zero <=> Cardinality(Refs(o)') = 0
    BY <1>0, <1>5, <1>7 DEF IsZero, Counted
  <2>2. IsFiniteSet(Refs(o)')
    <3>1. IsFiniteSet(Refs(o))
      BY RefsFinite
    <3> QED BY <1>3, <3>1, FS_Subset
  <2> QED BY <2>1, <2>2, FS_EmptySet
\* Where the reference was.
<1>9. stack[t] # << >> => h \in Objects /\ Dying(h) /\ Refs(h) = Held(h)
  BY StackHome DEF Good, Destroyed
<1>10. \/ stack[t] = << >> /\ p \in Vars(t) /\ ~Dying(o)
       \/ /\ stack[t] # << >> /\ stage[h] = "fields" /\ p = Field(h) /\ ~Dying(o) /\ o # h
       \/ /\ stack[t] # << >> /\ o = h /\ ~zero
          /\ \/ stage[o] = "unuse" /\ p = Use(o)
             \/ stage[o] = "unvariable" /\ p = Local(o)
  <2>1. CASE stack[t] = << >>
    BY <1>0, <1>2, <2>1 DEF ReleaseSound
  <2>2. CASE stack[t] # << >> /\ stage[h] = "fields"
    <3>1. p = Field(h)
      BY <1>2, <2>2 DEF ReleaseSound
    <3> QED BY <1>0, <1>2, <1>9, <2>2, <3>1, FieldHome
  <2>3. CASE stack[t] # << >> /\ stage[h] # "fields"
    <3>1. \/ stage[h] = "unuse" /\ p = Use(h)
          \/ stage[h] = "unvariable" /\ p = Local(h)
      BY <1>2, <2>3 DEF ReleaseSound
    <3>2. holds[p] # None
      BY <1>0, <1>2, HeapAssumption
    <3>3. o = h
      BY <1>2, <1>9, <2>3, <3>1, <3>2, OwnHome
    <3>4. This(h) \in Refs(h) /\ This(h) # p
      BY <1>9, <2>3, <3>1, PlaceFacts DEF Held
    <3> QED BY <1>3, <1>8, <2>3, <3>1, <3>3, <3>4
  <2> QED BY <2>1, <2>2, <2>3
<1>11. ASSUME NEW r \in Objects
       PROVE  stage'[r] = IF r = o /\ zero THEN FirstStage(o)
                          ELSE IF stack[t] # << >> /\ r = h THEN NextStage(h) ELSE stage[r]
  BY <1>0, <1>1, <1>9, SMTT(30) DEF Returned, TypeOK
<1>12. ASSUME NEW r \in Objects PROVE Dying(r)' <=> Dying(r) \/ (r = o /\ zero)
  <2>1. FirstStage(o) # "no" /\ NextStage(h) # "no"
    BY DEF FirstStage, NextStage
  <2> QED BY <1>9, <1>11, <2>1 DEF Dying
<1>13. Fresh'
  <2>1. ASSUME NEW r \in Objects, ~allocated[r] PROVE refCount'[r] = 0 /\ holds'[Field(r)] = None
    <3>1. r # o /\ refCount[r] = 0 /\ holds[Field(r)] = None
      BY <1>0, <2>1 DEF Good, Fresh
    <3> QED BY <1>1, <1>5, <1>6, <3>1, PlaceFacts DEF TypeOK
  <2> QED BY <2>1 DEF Fresh, Field
<1>14. Live'
  BY <1>0, <1>3, <1>8, <1>12 DEF Good, Live
<1>15. OwnPlaces'
  <2>1. ASSUME NEW r \in Objects, NEW q \in {This(r), Local(r), Use(r)} PROVE holds'[q] \in {r, None}
    <3>1. q \in Places
      BY PlaceFacts
    <3> QED BY <1>1, <3>1 DEF Good, OwnPlaces, TypeOK
  <2> QED BY <2>1 DEF OwnPlaces, This, Local, Use
<1>16. Destroyed'
  <2>1. ASSUME NEW r \in Objects, Dying(r)' PROVE Refs(r)' = Held(r)'
    <3>1. CASE r = o /\ zero
      <4>1. Held(o)' = {}
        BY <1>0, <1>11, <3>1 DEF Held, FirstStage
      <4> QED BY <1>8, <3>1, <4>1
    <3>2. CASE ~(r = o /\ zero) /\ ~(stack[t] # << >> /\ r = h)
      <4>1. Dying(r) /\ stage'[r] = stage[r] /\ r # o
        BY <1>0, <1>11, <1>12, <2>1, <3>2
      <4> QED BY <1>3, <4>1 DEF Good, Destroyed, Held, This, Local, Use
    <3>3. CASE stack[t] # << >> /\ r = h /\ ~(r = o /\ zero)
      <4>1. stage'[h] = NextStage(h) /\ Refs(h) = Held(h)
        BY <1>9, <1>11, <3>3
      <4>2. CASE stage[h] = "fields"
        <5>1. o # h /\ stage'[h] = "dealloc"
          BY <1>9, <1>10, <3>3, <4>1, <4>2, PlaceFacts DEF NextStage
        <5> QED BY <1>3, <1>9, <3>3, <4>1, <4>2, <5>1 DEF Held, This, Local, Use
      <4>3. CASE stage[h] # "fields"
        <5>1. o = h /\ ((stage[o] = "unuse" /\ p = Use(o)) \/ (stage[o] = "unvariable" /\ p = Local(o)))
          BY <1>10, <3>3, <4>3
        <5>2. This(o) # Local(o) /\ This(o) # Use(o) /\ Local(o) # Use(o)
          BY <1>0, PlaceFacts
        <5>3. Kind[o] # "box"
          BY <1>0, <5>1 DEF Good, Destroyed
        <5>4. stage[o] = "unuse" => stage'[o] = "unvariable" /\ Held(o) = {This(o), Local(o), Use(o)}
          BY <4>1, <5>1 DEF Held, NextStage
        <5>5. stage[o] = "unvariable" => stage'[o] = "fields" /\ Held(o) = {This(o), Local(o)}
          BY <4>1, <5>1 DEF Held, NextStage
        <5>6. /\ stage'[o] = "unvariable" => Held(o)' = {This(o), Local(o)}
              /\ stage'[o] = "fields" => Held(o)' = {This(o)}
          <6>1. ASSUME stage'[o] = "unvariable" PROVE Held(o)' = {This(o), Local(o)}
            BY <6>1 DEF Held, This, Local
          <6>2. ASSUME stage'[o] = "fields" PROVE Held(o)' = {This(o)}
            BY <5>3, <6>2 DEF Held, This
          <6> QED BY <6>1, <6>2
        <5>7. r = o /\ Refs(o) = Held(o)
          BY <3>3, <4>1, <5>1
        <5>8. CASE stage[o] = "unuse"
          <6>1. p = Use(o) /\ Refs(o) = {This(o), Local(o), Use(o)} /\ Held(o)' = {This(o), Local(o)}
            BY <5>1, <5>4, <5>6, <5>7, <5>8
          <6>2. Refs(o)' = {This(o), Local(o)}
            BY <1>3, <5>2, <6>1
          <6> QED BY <5>7, <6>1, <6>2
        <5>9. CASE stage[o] = "unvariable"
          <6>1. p = Local(o) /\ Refs(o) = {This(o), Local(o)} /\ Held(o)' = {This(o)}
            BY <5>1, <5>5, <5>6, <5>7, <5>9
          <6>2. Refs(o)' = {This(o)}
            BY <1>3, <5>2, <6>1
          <6> QED BY <5>7, <6>1, <6>2
        <5> QED BY <5>1, <5>8, <5>9
      <4> QED BY <4>2, <4>3
    <3> QED BY <3>1, <3>2, <3>3
  <2>2. ASSUME NEW r \in Objects, stage'[r] \notin {"no", "fields", "dealloc"} PROVE Kind[r] # "box"
    <3>1. CASE r = o /\ zero
      BY <1>11, <2>2, <3>1 DEF FirstStage
    <3>2. CASE ~(r = o /\ zero)
      <4>1. stage'[r] = stage[r] \/ (stack[t] # << >> /\ r = h /\ stage'[r] = NextStage(h))
        BY <1>11, <3>2
      <4>2. CASE stage'[r] = stage[r]
        BY <2>2, <4>2 DEF Good, Destroyed
      <4>3. CASE stack[t] # << >> /\ r = h /\ stage'[r] = NextStage(h)
        <5>1. stage[h] \in {"fields", "unuse", "unvariable"}
          BY <1>10, <4>3
        <5>2. stage[h] # "fields"
          BY <2>2, <4>3 DEF NextStage
        <5> QED BY <4>3, <5>1, <5>2 DEF Good, Destroyed
      <4> QED BY <4>1, <4>2, <4>3
    <3> QED BY <3>1, <3>2
  <2>3. ASSUME NEW r \in Objects, stage'[r] = "dealloc" PROVE holds'[Field(r)] = None
    <3>1. ~(r = o /\ zero)
      BY <1>11, <2>3 DEF FirstStage
    <3>2. CASE stage[r] = "dealloc"
      <4>1. holds[Field(r)] = None /\ Field(r) \in Places
        BY <3>2, PlaceFacts DEF Good, Destroyed
      <4> QED BY <1>1, <4>1 DEF TypeOK
    <3>3. CASE stage[r] # "dealloc"
      <4>1. stack[t] # << >> /\ r = h /\ NextStage(h) = "dealloc"
        BY <1>11, <2>3, <3>1, <3>3
      <4>2. stage[h] = "fields" /\ p = Field(h)
        BY <1>10, <4>1 DEF NextStage
      <4> QED BY <1>0, <1>1, <4>1, <4>2 DEF TypeOK
    <3> QED BY <3>2, <3>3
  <2> QED BY <2>1, <2>2, <2>3 DEF Destroyed, Field
<1>17. Stacked'
  <2>1. \A u \in Threads : stack[u] \in Seq(Objects)
    BY DEF TypeOK
  <2>2. ASSUME NEW u \in Threads, NEW i \in DOMAIN stack[u]
        PROVE  stage'[stack[u][i]] # "no" /\ (i > 1 => stage'[stack[u][i]] = "dealloc")
    <3>1. stack[u][i] \in Objects /\ Dying(stack[u][i]) /\ (i > 1 => stage[stack[u][i]] = "dealloc")
      BY <2>1 DEF Good, Stacked
    <3>2. i > 1 /\ stack[t] # << >> => stack[u][i] # h
      BY <2>1, StackHome
    <3>3. i > 1 /\ zero => stack[u][i] # o
      BY <1>10, <3>1
    <3> QED BY <1>11, <1>12, <3>1, <3>2, <3>3 DEF Dying, NextStage
  <2>3. CASE ~zero
    <3>1. stack' = stack
      BY <1>1, <2>3
    <3> QED BY <2>2, <3>1 DEF Good, Stacked, Dying
  <2>4. CASE zero
    <3>1. ~Dying(o) /\ \A u \in Threads : \A i \in DOMAIN stack[u] : stack[u][i] # o
      BY <1>10, <2>4 DEF Good, Stacked
    <3>2. stack'[t] = <<o>> \o stack[t] /\ \A u \in Threads : u # t => stack'[u] = stack[u]
      BY <1>1, <2>4 DEF TypeOK
    <3>3. /\ DOMAIN stack'[t] = 1 .. Len(stack[t]) + 1 /\ DOMAIN stack[t] = 1 .. Len(stack[t]) /\ Len(stack[t]) \in Nat
          /\ stack'[t][1] = o
          /\ \A i \in DOMAIN stack'[t] : i > 1 => i-1 \in DOMAIN stack[t] /\ stack'[t][i] = stack[t][i-1]
      BY <2>1, <3>2
    <3>4. stack[t] # << >> => stage'[stack[t][1]] = "dealloc"
      <4>1. ASSUME stack[t] # << >> PROVE stage'[h] = "dealloc"
        BY <1>9, <1>10, <1>11, <2>4, <4>1 DEF NextStage
      <4> QED BY <4>1, StackHome
    <3>5. ASSUME NEW i \in DOMAIN stack'[t]
          PROVE  stage'[stack'[t][i]] # "no" /\ (i > 1 => stage'[stack'[t][i]] = "dealloc")
      <4>1. CASE i = 1
        BY <1>0, <1>12, <2>4, <3>3, <4>1 DEF Dying
      <4>2. CASE i > 1
        <5>1. i-1 \in DOMAIN stack[t] /\ stack'[t][i] = stack[t][i-1]
          BY <3>3, <4>2
        <5>2. stage'[stack[t][i-1]] # "no" /\ (i-1 > 1 => stage'[stack[t][i-1]] = "dealloc")
          BY <2>2, <5>1
        <5>3. i-1 = 1 => stack[t] # << >>
          BY <3>3, <5>1
        <5> QED BY <3>3, <3>4, <4>2, <5>1, <5>2, <5>3 DEF Dying
      <4> QED BY <3>3, <4>1, <4>2
    <3>6. ASSUME NEW u \in Threads, NEW w \in Threads, NEW i \in DOMAIN stack'[u], NEW j \in DOMAIN stack'[w],
                 stack'[u][i] = stack'[w][j]
          PROVE  u = w /\ i = j
      <4>1. CASE u # t /\ w # t
        BY <3>2, <3>6, <4>1 DEF Good, Stacked
      <4>2. CASE u = t /\ w # t
        <5>1. i = 1 \/ (i-1 \in DOMAIN stack[t] /\ stack'[t][i] = stack[t][i-1])
          BY <3>3, <4>2, SMTT(30)
        <5> QED BY <3>1, <3>2, <3>3, <3>6, <4>2, <5>1, SMTT(30) DEF Good, Stacked
      <4>3. CASE u # t /\ w = t
        <5>1. j = 1 \/ (j-1 \in DOMAIN stack[t] /\ stack'[t][j] = stack[t][j-1])
          BY <3>3, <4>3
        <5> QED BY <3>1, <3>2, <3>3, <3>6, <4>3, <5>1, SMTT(30) DEF Good, Stacked
      <4>4. CASE u = t /\ w = t
        <5>1. i = 1 \/ (i-1 \in DOMAIN stack[t] /\ stack'[t][i] = stack[t][i-1])
          BY <3>3, <4>4, SMTT(30)
        <5>2. j = 1 \/ (j-1 \in DOMAIN stack[t] /\ stack'[t][j] = stack[t][j-1])
          BY <3>3, <4>4
        <5>3. i-1 \in DOMAIN stack[t] /\ j-1 \in DOMAIN stack[t] /\ stack[t][i-1] = stack[t][j-1] => i-1 = j-1
          BY DEF Good, Stacked
        <5> QED BY <3>1, <3>3, <3>6, <4>4, <5>1, <5>2, <5>3
      <4> QED BY <4>1, <4>2, <4>3, <4>4
    <3>7. ASSUME NEW u \in Threads, NEW i \in DOMAIN stack'[u]
          PROVE  stage'[stack'[u][i]] # "no" /\ (i > 1 => stage'[stack'[u][i]] = "dealloc")
      <4>1. CASE u = t
        BY <3>5, <4>1
      <4>2. CASE u # t
        BY <2>2, <3>2, <4>2
      <4> QED BY <4>1, <4>2
    <3> QED BY <3>6, <3>7 DEF Stacked, Dying
  <2> QED BY <2>3, <2>4
<1>18. Confined'
  <2>1. \A u \in Threads, q \in Places : Owned(u, q)' <=> Owned(u, q)
    BY <1>4 DEF Owned, Field, This, Local, Use, Vars
  <2>2. ASSUME NEW r \in Objects, ~Atomic(r)' PROVE
              /\ \A q \in Refs(r)' : home[r] \in Threads /\ Owned(home[r], q)
              /\ \A u \in Threads : \A i \in DOMAIN stack'[u] : stack'[u][i] = r => home[r] = u
    <3>1. ~Atomic(r)
      BY <1>4, <2>2
    <3>2. \A q \in Refs(r)' : home[r] \in Threads /\ Owned(home[r], q)
      BY <1>0, <1>3, <3>1 DEF Good, Confined
    <3>3. ASSUME NEW u \in Threads, NEW i \in DOMAIN stack'[u], stack'[u][i] = r PROVE home[r] = u
      <4>1. \/ i \in DOMAIN stack[u] /\ stack[u][i] = r
            \/ u = t /\ i = 1 /\ r = o
            \/ u = t /\ i-1 \in DOMAIN stack[u] /\ stack[u][i-1] = r
        <5>1. stack[u] \in Seq(Objects) /\ stack \in [Threads -> Seq(Objects)]
          BY DEF TypeOK
        <5>2. CASE stack'[u] = stack[u]
          BY <3>3, <5>2
        <5>3. CASE stack'[u] # stack[u]
          <6>1. u = t /\ stack'[u] = <<o>> \o stack[u]
            BY <1>1, <5>1, <5>3
          <6>2. i = 1 => stack'[u][i] = o
            BY <1>0, <5>1, <6>1
          <6>3. i # 1 => i-1 \in DOMAIN stack[u] /\ stack'[u][i] = stack[u][i-1]
            BY <1>0, <5>1, <6>1
          <6> QED BY <3>3, <6>1, <6>2, <6>3
        <5> QED BY <5>2, <5>3
      <4> QED BY <1>0, <3>1, <4>1 DEF Good, Confined
    <3> QED BY <3>2, <3>3
  <2>3. \A r \in Objects : Refs(r)' \subseteq Places
    BY DEF Refs
  <2> QED BY <2>1, <2>2, <2>3 DEF Confined
<1>19. CallsSound'
  <2>1. CallSound(t)'
    BY <1>1, IdleIsSound DEF TypeOK
  <2>2. \A u \in Threads : u # t => call'[u] = call[u] /\ stack'[u] = stack[u]
    BY <1>1 DEF TypeOK
  <2>3. ASSUME NEW u \in Threads, u # t, stack[u] # << >> PROVE stage'[Head(stack[u])] = stage[Head(stack[u])]
    <3>1. Head(stack[u]) \in Objects /\ Dying(Head(stack[u])) /\ (stack[t] # << >> => Head(stack[u]) # h)
      BY <2>3, StackHome
    <3> QED BY <1>10, <1>11, <3>1
  <2> QED BY <1>1, <2>1, <2>2, <2>3, OthersKeep DEF CallsSound
<1> QED BY <1>7, <1>13, <1>14, <1>15, <1>16, <1>17, <1>18, <1>19 DEF Good

-----------------------------------------------------------------------------
(* Objects begin, end and are passed on *)

LEMMA DeallocateOK ==
    ASSUME TypeOK, TypeOK', Good, NEW t \in Threads, NEW o \in Objects, Deallocate(t, o)
    PROVE  Good'
<1>1. /\ stack[t] # << >> /\ o = Head(stack[t]) /\ stage[o] = "dealloc" /\ call[t].op = "none"
      /\ allocated[o] /\ Dying(o)
      /\ stack[t] \in Seq(Objects)
  BY StackHome DEF Deallocate, Running, TypeOK
<1>2. /\ \A r \in Objects : allocated'[r] = (IF r = o THEN FALSE ELSE allocated[r])
      /\ \A r \in Objects : refCount'[r] = IF r = o THEN 0 ELSE refCount[r]
      /\ \A r \in Objects : home'[r] = IF r = o THEN None ELSE home[r]
      /\ \A r \in Objects : stage'[r] = IF r = o THEN "no" ELSE stage[r]
      /\ \A q \in Places : holds'[q] = IF q = This(o) THEN None ELSE holds[q]
      /\ stack'[t] = Tail(stack[t])
      /\ \A u \in Threads : u # t => stack'[u] = stack[u]
      /\ call' = call
  BY PlaceFacts DEF Deallocate, TypeOK
<1>3. Refs(o) \subseteq {This(o)} /\ holds[Field(o)] = None
  BY <1>1 DEF Good, Destroyed, Held
<1>4. Refs(o)' = {} /\ \A r \in Objects : r # o => Refs(r)' = Refs(r)
  <2>1. Refs(o)' = {}
    <3>1. o # None
      BY HeapAssumption
    <3>2. \A q \in Places : holds'[q] = o => q \in Refs(o) /\ q # This(o)
      BY <1>2, <3>1 DEF Refs
    <3> QED BY <1>3, <3>2 DEF Refs
  <2>2. holds[This(o)] \in {o, None}
    BY DEF Good, OwnPlaces
  <2>3. ASSUME NEW r \in Objects, r # o PROVE Refs(r)' = Refs(r)
    <3>1. r # None
      BY HeapAssumption
    <3> QED BY <1>2, <2>2, <2>3, <3>1 DEF Refs
  <2> QED BY <2>1, <2>3
<1>5. \A r \in Objects : Dying(r)' <=> Dying(r) /\ r # o
  BY <1>2 DEF Dying
<1>6. Counted'
  <2>1. Cardinality({}) = 0
    BY FS_EmptySet
  <2> QED BY <1>2, <1>4, <2>1, SMTT(30) DEF Good, Counted
<1>7. Fresh'
  <2>1. \A r \in Objects : Field(r) \in Places /\ Field(r) # This(o)
    BY PlaceFacts
  <2> QED BY <1>2, <1>3, <2>1, ZenonT(60) DEF Good, Fresh
<1>8. Live'
  BY <1>2, <1>4, <1>5, ZenonT(60) DEF Good, Live
<1>9. OwnPlaces'
  <2>1. ASSUME NEW r \in Objects, NEW q \in {This(r), Local(r), Use(r)} PROVE holds'[q] \in {r, None}
    <3>1. q \in Places
      BY PlaceFacts
    <3> QED BY <1>2, <3>1 DEF Good, OwnPlaces
  <2> QED BY <2>1 DEF OwnPlaces, This, Local, Use
<1>10. Destroyed'
  <2>1. \A r \in Objects : Dying(r)' => Refs(r)' = Held(r)'
    BY <1>2, <1>4, <1>5 DEF Good, Destroyed, Held, This, Local, Use
  <2>2. \A r \in Objects : stage'[r] \notin {"no", "fields", "dealloc"} => Kind[r] # "box"
    BY <1>2 DEF Good, Destroyed
  <2>3. \A r \in Objects : stage'[r] = "dealloc" => holds'[Field(r)] = None
    BY <1>2, PlaceFacts DEF Good, Destroyed
  <2> QED BY <2>1, <2>2, <2>3 DEF Destroyed, Field
<1>11. \A i \in DOMAIN stack'[t] : i \in Nat /\ i >= 1 /\ i+1 \in DOMAIN stack[t] /\ stack'[t][i] = stack[t][i+1]
  BY <1>1, <1>2
<1>12. \A u \in Threads : \A i \in DOMAIN stack'[u] :
          stack'[u][i] # o /\ \E j \in DOMAIN stack[u] : stack'[u][i] = stack[u][j] /\ i <= j
  <2>1. ASSUME NEW u \in Threads, NEW i \in DOMAIN stack'[u]
        PROVE  stack'[u][i] # o /\ \E j \in DOMAIN stack[u] : stack'[u][i] = stack[u][j] /\ i <= j
    <3>1. CASE u = t
      <4>1. i \in Nat /\ i >= 1 /\ i+1 \in DOMAIN stack[t] /\ stack'[t][i] = stack[t][i+1]
        BY <1>11, <2>1, <3>1
      <4>2. stack[t][i+1] # o
        BY <1>1, <4>1, StackHome
      <4> QED BY <3>1, <4>1, <4>2
    <3>2. CASE u # t
      <4>1. stack'[u] = stack[u] /\ stack[u] \in Seq(Objects)
        BY <1>2, <3>2 DEF TypeOK
      <4>2. i \in DOMAIN stack[u] /\ i \in Nat
        BY <2>1, <4>1
      <4> QED BY <1>1, <3>2, <4>1, <4>2, StackHome
    <3> QED BY <3>1, <3>2
  <2> QED BY <2>1
<1>13. Stacked'
  <2>1. \A u \in Threads : stack[u] \in Seq(Objects) /\ stack'[u] \in Seq(Objects)
    BY DEF TypeOK
  <2>2. ASSUME NEW u \in Threads, NEW i \in DOMAIN stack'[u]
        PROVE  stage'[stack'[u][i]] # "no" /\ (i > 1 => stage'[stack'[u][i]] = "dealloc")
    <3>1. PICK j \in DOMAIN stack[u] : stack'[u][i] = stack[u][j] /\ i <= j
      BY <1>12
    <3>2. stack[u][j] \in Objects /\ stack[u][j] # o /\ i \in Nat /\ j \in Nat
      BY <1>12, <2>1, <3>1
    <3> QED BY <1>2, <3>1, <3>2 DEF Good, Stacked, Dying
  <2>3. ASSUME NEW u \in Threads, NEW w \in Threads, NEW i \in DOMAIN stack'[u], NEW j \in DOMAIN stack'[w],
               stack'[u][i] = stack'[w][j]
        PROVE  u = w /\ i = j
    <3>1. u = w
      BY <1>12, <2>3 DEF Good, Stacked
    <3>2. CASE u = t
      <4>1. i+1 \in DOMAIN stack[t] /\ j+1 \in DOMAIN stack[t] /\ stack[t][i+1] = stack[t][j+1] /\ i \in Nat /\ j \in Nat
        BY <1>11, <2>3, <3>1, <3>2
      <4>2. i+1 = j+1
        BY <4>1 DEF Good, Stacked
      <4> QED BY <3>1, <4>1, <4>2
    <3>3. CASE u # t
      BY <1>2, <2>3, <3>1, <3>3 DEF Good, Stacked
    <3> QED BY <3>1, <3>2, <3>3
  <2> QED BY <2>2, <2>3 DEF Stacked, Dying
<1>14. Confined'
  <2>1. ASSUME NEW r \in Objects, r # o, refCount[r] % 2 # 1
        PROVE  /\ \A q \in Refs(r) : home[r] \in Threads /\ Owned(home[r], q)' /\ home'[r] = home[r]
               /\ \A u \in Threads : \A i \in DOMAIN stack'[u] : stack'[u][i] = r => home[r] = u
    <3>1. ~Atomic(r)
      BY <2>1 DEF Atomic
    <3>2. ASSUME NEW q \in Refs(r) PROVE home[r] \in Threads /\ Owned(home[r], q)'
      <4>1. home[r] \in Threads /\ Owned(home[r], q)
        BY <3>1 DEF Good, Confined
      <4>2. q # Field(o)
        BY <1>3, HeapAssumption DEF Refs
      <4> QED BY <1>2, <2>1, <4>1, <4>2 DEF Owned, Atomic, Field, This, Local, Use, Vars
    <3>3. ASSUME NEW u \in Threads, NEW i \in DOMAIN stack'[u], stack'[u][i] = r PROVE home[r] = u
      BY <1>12, <3>1, <3>3 DEF Good, Confined
    <3> QED BY <1>2, <2>1, <3>2, <3>3
  <2> QED BY <1>2, <1>4, <1>12, <2>1 DEF Confined, Atomic
<1>15. CallsSound'
  <2>1. ASSUME NEW u \in Threads, u # t PROVE CallSound(u)'
    <3>1. ASSUME NEW v \in Vars(u)
          PROVE  /\ holds'[v] = holds[v]
                 /\ holds[v] # None => holds'[Field(holds[v])] = holds[Field(holds[v])]
      <4>1. v \in Places /\ v # This(o)
        BY VarFacts, PlaceFacts
      <4>2. holds[v] # None => Field(holds[v]) \in Places /\ Field(holds[v]) # This(o)
        BY VarHome, PlaceFacts
      <4> QED BY <1>2, <4>1, <4>2
    <3>2. ASSUME stack[u] # << >>
          PROVE  LET g == Head(stack[u])
                 IN  /\ stage'[g] = stage[g]
                     /\ \A q \in {Field(g), This(g), Local(g), Use(g)} : holds'[q] = holds[q]
      <4> DEFINE g == Head(stack[u])
      <4>1. g \in Objects /\ g # o
        BY <1>1, <2>1, <3>2, StackHome
      <4>2. \A q \in {Field(g), This(g), Local(g), Use(g)} : q \in Places /\ q # This(o)
        BY <4>1, PlaceFacts
      <4> QED BY <1>2, <4>1, <4>2
    <3>3. ASSUME call[u].at = "read" PROVE refCount'[call[u].object] = refCount[call[u].object]
      <4>1. call[u].op # "none"
        BY <3>3, IdleFields
      <4>2. call[u].object \in Objects /\ call[u].object # o
        BY <1>1, <2>1, <4>1, CallTarget, StackHome
      <4> QED BY <1>2, <4>2
    <3>4. Untouched(u)
      BY <1>2, <2>1, <3>1, <3>2, <3>3 DEF Untouched
    <3> QED BY <3>4, OtherCall
  <2>2. CallSound(t)'
    BY <1>1, <1>2, IdleFields DEF CallSound
  <2> QED BY <2>1, <2>2 DEF CallsSound
<1> QED BY <1>6, <1>7, <1>8, <1>9, <1>10, <1>13, <1>14, <1>15 DEF Good

LEMMA AllocateOK ==
    ASSUME TypeOK, TypeOK', Good, NEW t \in Threads, NEW v \in Vars(t), NEW o \in Objects, Allocate(t, v, o)
    PROVE  Good'
<1>0. v \in Places
  BY VarFacts
<1>1. /\ call[t].op = "none" /\ holds[v] = None /\ ~allocated[o]
      /\ refCount[o] = 0 /\ holds[Field(o)] = None /\ Refs(o) = {} /\ ~Dying(o)
  BY DEF Allocate, Ready, Good, Fresh, Live
<1>2. /\ \A r \in Objects : allocated'[r] = (IF r = o THEN TRUE ELSE allocated[r])
      /\ \A r \in Objects : refCount'[r] = IF r = o THEN 2 ELSE refCount[r]
      /\ \A r \in Objects : home'[r] = IF r = o THEN t ELSE home[r]
      /\ \A q \in Places : holds'[q] = IF q = v THEN o ELSE holds[q]
      /\ UNCHANGED <<call, stack, stage>>
  BY <1>0 DEF Allocate, TypeOK
<1>3. /\ Refs(o)' = {v}
      /\ \A r \in Objects : r # o => Refs(r)' = Refs(r)
      /\ Cardinality(Refs(o)') = 1
  <2>1. holds' = [holds EXCEPT ![v] = o]
    BY DEF Allocate
  <2>2. Cardinality(Refs(o)) = 0
    BY <1>1, FS_EmptySet
  <2>3. /\ Refs(o)' = Refs(o) \cup {v}
        /\ \A r \in Objects : r # o => Refs(r)' = Refs(r)
        /\ Cardinality(Refs(o)') = Cardinality(Refs(o)) + 1
    BY <1>0, <1>1, <2>1, RefAdded
  <2>4. Refs(o)' = {v}
    BY <1>1, <2>3
  <2> QED BY <2>2, <2>3, <2>4
<1>4. Counted'
  BY <1>2, <1>3 DEF Good, Counted
<1>5. Fresh'
  <2>1. \A r \in Objects : Field(r) \in Places /\ Field(r) # v
    BY PlaceFacts
  <2> QED BY <1>2, <2>1 DEF Good, Fresh
<1>6. Live'
  <2>1. \A r \in Objects : Dying(r)' <=> Dying(r)
    BY <1>2 DEF Dying
  <2>2. Refs(o)' # {}
    BY <1>3
  <2> QED BY <1>2, <1>3, <2>1, <2>2 DEF Good, Live
<1>7. OwnPlaces'
  <2>1. ASSUME NEW r \in Objects, NEW q \in {This(r), Local(r), Use(r)} PROVE holds'[q] \in {r, None}
    <3>1. q \in Places /\ q # v
      BY PlaceFacts
    <3> QED BY <1>2, <3>1 DEF Good, OwnPlaces
  <2> QED BY <2>1 DEF OwnPlaces, This, Local, Use
<1>8. Destroyed'
  <2>1. \A r \in Objects : Dying(r)' => Refs(r)' = Held(r)'
    BY <1>1, <1>2, <1>3 DEF Good, Destroyed, Held, Dying, This, Local, Use
  <2>2. \A r \in Objects : stage'[r] = "dealloc" => holds'[Field(r)] = None
    BY <1>2, PlaceFacts DEF Good, Destroyed
  <2> QED BY <1>2, <2>1, <2>2 DEF Good, Destroyed, Field
<1>9. Stacked'
  BY <1>2 DEF Good, Stacked, Dying
<1>10. Confined'
  <2>1. ASSUME NEW r \in Objects, r # o, refCount[r] % 2 # 1
        PROVE  \A q \in Refs(r) : home[r] \in Threads /\ Owned(home[r], q)'
    <3>1. ASSUME NEW q \in Refs(r) PROVE home[r] \in Threads /\ Owned(home[r], q)'
      <4>1. home[r] \in Threads /\ Owned(home[r], q)
        BY <2>1 DEF Good, Confined, Atomic
      <4>2. q # Field(o)
        BY <1>1, HeapAssumption DEF Refs
      <4> QED BY <1>2, <2>1, <4>1, <4>2 DEF Owned, Atomic, Field, This, Local, Use, Vars
    <3> QED BY <3>1
  <2>2. Owned(t, v)'
    BY DEF Owned, Vars
  <2>3. \A u \in Threads : \A i \in DOMAIN stack[u] : stack[u][i] # o
    BY <1>1 DEF Good, Stacked
  <2>4. ASSUME NEW r \in Objects, ~Atomic(r)'
        PROVE  /\ \A q \in Refs(r)' : home'[r] \in Threads /\ Owned(home[r], q)'
               /\ \A u \in Threads : \A i \in DOMAIN stack'[u] : stack'[u][i] = r => home'[r] = u
    <3>1. CASE r = o
      <4>1. \A q \in Refs(r)' : home'[r] \in Threads /\ Owned(home[r], q)'
        BY <1>2, <1>3, <2>2, <3>1 DEF Owned
      <4> QED BY <1>2, <2>3, <3>1, <4>1
    <3>2. CASE r # o
      <4>1. ~Atomic(r) /\ refCount[r] % 2 # 1 /\ home'[r] = home[r] /\ Refs(r)' = Refs(r)
        BY <1>2, <1>3, <2>4, <3>2 DEF Atomic
      <4>2. \A q \in Refs(r)' : home'[r] \in Threads /\ Owned(home[r], q)'
        BY <2>1, <3>2, <4>1 DEF Owned
      <4> QED BY <1>2, <4>1, <4>2 DEF Good, Confined
    <3> QED BY <3>1, <3>2
  <2> QED BY <2>4 DEF Confined
<1>11. CallsSound'
  <2>1. ASSUME NEW u \in Threads, u # t PROVE CallSound(u)'
    <3>1. ASSUME NEW x \in Vars(u)
          PROVE  /\ holds'[x] = holds[x]
                 /\ holds[x] # None => holds'[Field(holds[x])] = holds[Field(holds[x])]
      <4>1. x \in Places /\ x # v
        BY <2>1, VarFacts
      <4>2. holds[x] # None => Field(holds[x]) \in Places /\ Field(holds[x]) # v
        BY VarHome, PlaceFacts
      <4> QED BY <1>2, <4>1, <4>2
    <3>2. ASSUME stack[u] # << >>
          PROVE  LET g == Head(stack[u])
                 IN  \A q \in {Field(g), This(g), Local(g), Use(g)} : holds'[q] = holds[q]
      <4> DEFINE g == Head(stack[u])
      <4>1. \A q \in {Field(g), This(g), Local(g), Use(g)} : q \in Places /\ q # v
        BY <3>2, StackHome, PlaceFacts
      <4> QED BY <1>2, <4>1
    <3>3. ASSUME call[u].at = "read" PROVE refCount'[call[u].object] = refCount[call[u].object]
      <4>1. call[u].op # "none"
        BY <3>3, IdleFields
      <4>2. call[u].object \in Objects /\ call[u].object # o
        BY <1>1, <4>1, CallTarget
      <4> QED BY <1>2, <4>2
    <3>4. Untouched(u)
      BY <1>2, <3>1, <3>2, <3>3 DEF Untouched
    <3> QED BY <3>4, OtherCall
  <2>2. CallSound(t)'
    BY <1>1, <1>2, IdleFields DEF CallSound
  <2> QED BY <2>1, <2>2 DEF CallsSound
<1> QED BY <1>4, <1>5, <1>6, <1>7, <1>8, <1>9, <1>10, <1>11 DEF Good

LEMMA MarkSharedOK ==
    ASSUME TypeOK, TypeOK', Good, NEW t \in Threads, NEW v \in Vars(t), MarkShared(t, v)
    PROVE  Good'
<1>1. PICK o \in Objects : o = holds[v]
  BY VarHome DEF MarkShared
<1>2. /\ call[t].op = "none" /\ o # None /\ allocated[o]
      /\ ~Atomic(o) /\ home[o] = t
      /\ holds[Field(o)] # None => Atomic(holds[Field(o)])
  BY <1>1, VarHome DEF MarkShared, Ready, Content
<1>3. /\ \A r \in Objects : refCount'[r] = IF r = o THEN refCount[o] + 1 ELSE refCount[r]
      /\ UNCHANGED <<allocated, holds, call, stack, stage, home>>
  BY <1>1 DEF MarkShared, TypeOK
<1>4. (refCount[o] + 1) % 2 = 1 /\ (refCount[o] + 1) \div 2 = refCount[o] \div 2
  <2>1. refCount[o] \in 0 .. WordSize-1 /\ refCount[o] % 2 # 1
    BY <1>2 DEF TypeOK, Atomic
  <2> QED BY <2>1, BitFits
<1>5. \A r \in Objects : Refs(r)' = Refs(r)
  BY <1>3 DEF Refs
<1>6. Counted'
  BY <1>3, <1>4, <1>5 DEF Good, Counted
<1>7. Fresh' /\ Live'
  BY <1>2, <1>3, <1>5 DEF Good, Fresh, Live, Dying
<1>8. OwnPlaces' /\ Destroyed'
  BY <1>3, <1>5 DEF Good, OwnPlaces, Destroyed, Dying, Held
<1>9. Stacked'
  BY <1>3 DEF Good, Stacked, Dying
<1>10. Confined'
  <2>1. ASSUME NEW r \in Objects, ~Atomic(r)'
        PROVE  /\ \A q \in Refs(r) : home[r] \in Threads /\ Owned(home[r], q)'
               /\ \A u \in Threads : \A i \in DOMAIN stack[u] : stack[u][i] = r => home[r] = u
    <3>1. r # o /\ ~Atomic(r)
      BY <1>3, <1>4, <2>1 DEF Atomic
    <3>2. ASSUME NEW q \in Refs(r) PROVE home[r] \in Threads /\ Owned(home[r], q)'
      <4>1. home[r] \in Threads /\ Owned(home[r], q)
        BY <3>1 DEF Good, Confined
      <4>2. q # Field(o)
        BY <1>2, <3>1, HeapAssumption DEF Refs
      <4> QED BY <1>3, <4>1, <4>2 DEF Owned, Atomic, Field, This, Local, Use, Vars
    <3> QED BY <3>1, <3>2 DEF Good, Confined
  <2> QED BY <1>3, <1>5, <2>1 DEF Confined, Owned
<1>11. CallsSound'
  <2>1. ASSUME NEW u \in Threads, u # t PROVE CallSound(u)'
    <3>1. ASSUME call[u].at = "read" PROVE refCount'[call[u].object] = refCount[call[u].object]
      <4>1. call[u].op # "none" /\ ~Atomic(call[u].object)
        BY <3>1, IdleFields DEF Good, CallsSound, CallSound
      <4>2. call[u].object \in Objects /\ call[u].object # o
        BY <1>2, <2>1, <4>1, CallTarget
      <4> QED BY <1>3, <4>2
    <3>2. Untouched(u)
      BY <1>3, <3>1 DEF Untouched
    <3> QED BY <3>2, OtherCall
  <2>2. CallSound(t)'
    BY <1>2, <1>3, IdleFields DEF CallSound
  <2> QED BY <2>1, <2>2 DEF CallsSound
<1> QED BY <1>6, <1>7, <1>8, <1>9, <1>10, <1>11 DEF Good

\* Two places exchange what they hold.
LEMMA RefsSwapped ==
    ASSUME TypeOK, NEW p \in Places, NEW q \in Places, p # q,
           holds' = [holds EXCEPT ![p] = holds[q], ![q] = holds[p]],
           NEW r
    PROVE  /\ p \in Refs(r)' <=> q \in Refs(r)
           /\ q \in Refs(r)' <=> p \in Refs(r)
           /\ \A s \in Places \ {p, q} : s \in Refs(r)' <=> s \in Refs(r)
           /\ Cardinality(Refs(r)') = Cardinality(Refs(r))
<1>1. /\ p \in Refs(r)' <=> q \in Refs(r)
      /\ q \in Refs(r)' <=> p \in Refs(r)
      /\ \A s \in Places \ {p, q} : s \in Refs(r)' <=> s \in Refs(r)
      /\ Refs(r) \subseteq Places /\ Refs(r)' \subseteq Places
  BY DEF TypeOK, Refs
<1>2. ASSUME NEW a \in Places, NEW b \in Places, {a, b} = {p, q}, a # b, a \in Refs(r), b \notin Refs(r)
      PROVE  Cardinality(Refs(r)') = Cardinality(Refs(r))
  <2>1. Refs(r)' = (Refs(r) \ {a}) \cup {b} /\ b \notin Refs(r) \ {a}
    BY <1>1, <1>2
  <2>2. IsFiniteSet(Refs(r)) /\ Cardinality(Refs(r)) \in Nat
    BY RefsFinite
  <2>3. IsFiniteSet(Refs(r) \ {a}) /\ Cardinality(Refs(r) \ {a}) = Cardinality(Refs(r)) - 1
    BY <1>2, <2>2, FS_RemoveElement
  <2>4. Cardinality(Refs(r)') = Cardinality(Refs(r) \ {a}) + 1
    BY <2>1, <2>3, FS_AddElement
  <2> QED BY <2>2, <2>3, <2>4
<1>3. CASE p \in Refs(r) <=> q \in Refs(r)
  <2>1. Refs(r)' = Refs(r)
    BY <1>1, <1>3
  <2> QED BY <1>1, <2>1
<1>4. CASE p \in Refs(r) /\ q \notin Refs(r)
  BY <1>1, <1>2, <1>4
<1>5. CASE q \in Refs(r) /\ p \notin Refs(r)
  BY <1>1, <1>2, <1>5
<1> QED BY <1>1, <1>3, <1>4, <1>5

\* It keeps the invariant when both belong to objects' users, and each may
\* hold what the other holds.
LEMMA SwapOK ==
    ASSUME TypeOK, TypeOK', Good, NEW p \in Places, NEW q \in Places, p # q,
           holds' = [holds EXCEPT ![p] = holds[q], ![q] = holds[p]],
           UNCHANGED <<refCount, allocated, stack, stage, home>>,
           \A o \in Objects : {p, q} \cap {This(o), Local(o), Use(o)} = {},
           \A o \in Objects : Field(o) \in {p, q} => allocated[o] /\ ~Dying(o),
           \A o \in Objects : o = holds[p] => ~Dying(o) /\ (~Atomic(o) => Owned(home[o], q)),
           \A o \in Objects : o = holds[q] => ~Dying(o) /\ (~Atomic(o) => Owned(home[o], p)),
           CallsSound'
    PROVE  Good'
<1>1. \A s \in Places : holds'[s] = IF s = p THEN holds[q] ELSE IF s = q THEN holds[p] ELSE holds[s]
  BY DEF TypeOK
<1>2. ASSUME NEW r \in Objects
      PROVE  /\ p \in Refs(r)' <=> q \in Refs(r)
             /\ q \in Refs(r)' <=> p \in Refs(r)
             /\ \A s \in Places \ {p, q} : s \in Refs(r)' <=> s \in Refs(r)
             /\ Cardinality(Refs(r)') = Cardinality(Refs(r))
             /\ Refs(r) \subseteq Places /\ Refs(r)' \subseteq Places
  <2>1. Refs(r) \subseteq Places /\ Refs(r)' \subseteq Places
    BY DEF Refs
  <2> QED BY <2>1, RefsSwapped
<1>3. \A r \in Objects : (Refs(r)' = {} <=> Refs(r) = {})
  BY <1>2
<1>4. \A r \in Objects : (Dying(r)' <=> Dying(r)) /\ (Atomic(r)' <=> Atomic(r))
  BY DEF Dying, Atomic
<1>5. Counted'
  BY <1>2 DEF Good, Counted
<1>6. Fresh'
  <2>1. ASSUME NEW r \in Objects, ~allocated[r] PROVE holds'[Field(r)] = None
    <3>1. Field(r) \in Places /\ Field(r) \notin {p, q}
      BY <2>1, PlaceFacts
    <3> QED BY <1>1, <2>1, <3>1 DEF Good, Fresh
  <2> QED BY <2>1 DEF Good, Fresh, Field
<1>7. Live'
  BY <1>3, <1>4 DEF Good, Live
<1>8. OwnPlaces'
  <2>1. ASSUME NEW r \in Objects, NEW s \in {This(r), Local(r), Use(r)} PROVE holds'[s] \in {r, None}
    <3>1. s \in Places /\ s \notin {p, q}
      BY PlaceFacts, ZenonT(60)
    <3> QED BY <1>1, <3>1, ZenonT(60) DEF Good, OwnPlaces
  <2> QED BY <2>1 DEF OwnPlaces, This, Local, Use
<1>9. Destroyed'
  <2>1. ASSUME NEW r \in Objects, Dying(r) PROVE Refs(r)' = Held(r)'
    <3>1. p \notin Refs(r) /\ q \notin Refs(r)
      BY <2>1 DEF Refs
    <3>2. Refs(r)' = Refs(r)
      BY <1>2, <3>1
    <3> QED BY <2>1, <3>2 DEF Good, Destroyed, Held, This, Local, Use
  <2>2. ASSUME NEW r \in Objects, stage[r] = "dealloc" PROVE holds'[Field(r)] = None
    <3>1. Field(r) \in Places /\ Field(r) \notin {p, q}
      BY <2>2, PlaceFacts DEF Dying
    <3> QED BY <1>1, <2>2, <3>1 DEF Good, Destroyed
  <2> QED BY <1>4, <2>1, <2>2 DEF Good, Destroyed, Field
<1>10. Stacked'
  BY DEF Good, Stacked, Dying
<1>11. Confined'
  <2>1. ASSUME NEW r \in Objects, ~Atomic(r), NEW s \in Refs(r)'
        PROVE  home[r] \in Threads /\ Owned(home[r], s)
    <3>1. CASE s \notin {p, q}
      BY <1>2, <2>1, <3>1 DEF Good, Confined
    <3>2. CASE s = p
      <4>1. q \in Refs(r) /\ holds[q] = r
        BY <1>2, <2>1, <3>2 DEF Refs
      <4> QED BY <2>1, <3>2, <4>1 DEF Good, Confined
    <3>3. CASE s = q
      <4>1. p \in Refs(r) /\ holds[p] = r
        BY <1>2, <2>1, <3>3 DEF Refs
      <4> QED BY <2>1, <3>3, <4>1 DEF Good, Confined
    <3> QED BY <3>1, <3>2, <3>3
  <2>2. ASSUME NEW r \in Objects, ~Atomic(r)'
        PROVE  /\ \A s \in Refs(r)' : home'[r] \in Threads /\ Owned(home[r], s)'
               /\ \A u \in Threads : \A i \in DOMAIN stack'[u] : stack'[u][i] = r => home'[r] = u
    <3>1. ~Atomic(r)
      BY <1>4, <2>2
    <3>2. ASSUME NEW s \in Refs(r)' PROVE home'[r] \in Threads /\ Owned(home[r], s)'
      BY <2>1, <3>1, <3>2 DEF Owned, Atomic, Field, This, Local, Use, Vars
    <3> QED BY <3>1, <3>2 DEF Good, Confined
  <2> QED BY <2>2 DEF Confined
<1> QED BY <1>5, <1>6, <1>7, <1>8, <1>9, <1>10, <1>11 DEF Good

LEMMA ExchangeOK ==
    ASSUME TypeOK, TypeOK', Good, NEW t \in Threads, NEW v \in Vars(t), NEW w \in Vars(t), Exchange(t, v, w)
    PROVE  Good'
<1>1. PICK o \in Objects : o = holds[w]
  BY VarHome DEF Exchange
<1> DEFINE f == Field(o)
<1>2. /\ call[t].op = "none" /\ holds[w] # None /\ allocated[o] /\ ~Dying(o)
      /\ ~Atomic(o) => home[o] = t
      /\ ~Atomic(o) \/ (Refs(o) = {w} /\ (holds[v] # None => Atomic(holds[v])))
      /\ holds' = [holds EXCEPT ![v] = holds[f], ![f] = holds[v]]
      /\ UNCHANGED <<refCount, allocated, call, stack, stage, home>>
  BY <1>1, VarHome DEF Exchange, Ready, Content
<1>3. v \in Places /\ f \in Places /\ v # f /\ w \in Places
  BY PlaceFacts, VarFacts
<1>4. \A s \in Places : s \notin {v, f} => holds'[s] = holds[s]
  BY <1>2 DEF TypeOK
<1>5. \A r \in Objects : {v, f} \cap {This(r), Local(r), Use(r)} = {}
  BY PlaceFacts
<1>6. \A r \in Objects : Field(r) \in {v, f} => allocated[r] /\ ~Dying(r)
  BY <1>2, PlaceFacts
<1>7. ASSUME NEW r \in Objects, r = holds[v]
      PROVE  ~Dying(r) /\ (~Atomic(r) => Owned(home[r], f))
  <2>1. holds[v] # None
    BY <1>7, HeapAssumption
  <2>2. ~Dying(r) /\ (~Atomic(r) => home[r] = t)
    BY <1>7, <2>1, VarHome
  <2> QED BY <1>2, <1>7, <2>1, <2>2 DEF Owned
<1>8. ASSUME NEW r \in Objects, r = holds[f]
      PROVE  ~Dying(r) /\ (~Atomic(r) => Owned(home[r], v))
  <2>1. holds[f] # None
    BY <1>8, HeapAssumption
  <2>2. ~Dying(r) /\ (~Atomic(r) => ~Atomic(o) /\ home[o] = home[r])
    BY <1>8, <2>1, FieldHome
  <2> QED BY <1>2, <2>2 DEF Owned
<1>9. CallsSound'
  <2>1. ASSUME NEW u \in Threads, u # t PROVE CallSound(u)'
    <3>1. ASSUME NEW x \in Vars(u)
          PROVE  /\ holds'[x] = holds[x]
                 /\ holds[x] # None => holds'[Field(holds[x])] = holds[Field(holds[x])]
      <4>1. x \in Places /\ x \notin {v, w, f}
        BY <2>1, VarFacts, PlaceFacts
      <4>2. ASSUME holds[x] # None PROVE Field(holds[x]) \in Places /\ Field(holds[x]) \notin {v, f}
        <5>1. holds[x] \in Objects /\ x \in Refs(holds[x]) /\ (~Atomic(holds[x]) => home[holds[x]] = u)
          BY <4>2, VarHome
        <5>2. holds[x] # o
          BY <1>2, <2>1, <4>1, <5>1
        <5> QED BY <5>1, <5>2, PlaceFacts
      <4> QED BY <1>4, <4>1, <4>2
    <3>2. ASSUME stack[u] # << >>
          PROVE  LET g == Head(stack[u])
                 IN  \A q \in {Field(g), This(g), Local(g), Use(g)} : holds'[q] = holds[q]
      <4> DEFINE g == Head(stack[u])
      <4>1. g \in Objects /\ g # o
        BY <1>2, <3>2, StackHome
      <4>2. \A q \in {Field(g), This(g), Local(g), Use(g)} : q \in Places /\ q \notin {v, f}
        BY <4>1, PlaceFacts
      <4> QED BY <1>4, <4>2
    <3>3. Untouched(u)
      BY <1>2, <3>1, <3>2 DEF Untouched
    <3> QED BY <3>3, OtherCall
  <2>2. CallSound(t)'
    BY <1>2, IdleFields DEF CallSound
  <2> QED BY <2>1, <2>2 DEF CallsSound
<1>10. \A r \in Objects : r = holds[v] => ~Dying(r) /\ (~Atomic(r) => Owned(home[r], f))
  BY <1>7
<1>11. \A r \in Objects : r = holds[f] => ~Dying(r) /\ (~Atomic(r) => Owned(home[r], v))
  BY <1>8
<1>12. /\ holds' = [holds EXCEPT ![v] = holds[f], ![f] = holds[v]]
       /\ UNCHANGED <<refCount, allocated, stack, stage, home>>
  BY <1>2
<1> HIDE DEF f
<1> QED BY <1>3, <1>5, <1>6, <1>9, <1>10, <1>11, <1>12, SwapOK

LEMMA HandOK ==
    ASSUME TypeOK, TypeOK', Good, NEW t \in Threads, NEW v \in Vars(t), NEW u \in Threads, NEW w \in Vars(u),
           Hand(t, v, u, w)
    PROVE  Good'
<1>1. /\ t # u /\ call[t].op = "none" /\ call[u].op = "none"
      /\ holds[v] # None /\ Atomic(holds[v]) /\ holds[w] = None
      /\ UNCHANGED <<refCount, allocated, call, stack, stage, home>>
  BY DEF Hand, Ready
<1>2. v \in Places /\ w \in Places /\ v # w
  BY <1>1, VarFacts
<1>3. holds' = [holds EXCEPT ![v] = holds[w], ![w] = holds[v]]
  BY <1>1 DEF Hand
<1>4. \A s \in Places : s \notin {v, w} => holds'[s] = holds[s]
  BY <1>3 DEF TypeOK
<1>5. \A r \in Objects : {v, w} \cap {Field(r), This(r), Local(r), Use(r)} = {}
  BY PlaceFacts
<1>6. \A r \in Objects : r = holds[v] => ~Dying(r) /\ Atomic(r)
  BY <1>1, VarHome
<1>7. \A r \in Objects : r # holds[w]
  BY <1>1, HeapAssumption
<1>8. CallsSound'
  <2>1. ASSUME NEW s \in Threads, s # t, s # u PROVE CallSound(s)'
    <3>1. ASSUME NEW x \in Vars(s)
          PROVE  /\ holds'[x] = holds[x]
                 /\ holds[x] # None => holds'[Field(holds[x])] = holds[Field(holds[x])]
      <4>1. x \in Places /\ x \notin {v, w}
        BY <2>1, VarFacts
      <4>2. holds[x] # None => Field(holds[x]) \in Places /\ Field(holds[x]) \notin {v, w}
        BY <1>5, VarHome, PlaceFacts
      <4> QED BY <1>4, <4>1, <4>2
    <3>2. ASSUME stack[s] # << >>
          PROVE  LET g == Head(stack[s])
                 IN  \A q \in {Field(g), This(g), Local(g), Use(g)} : holds'[q] = holds[q]
      BY <1>4, <1>5, <3>2, StackHome, PlaceFacts
    <3>3. Untouched(s)
      BY <1>1, <3>1, <3>2 DEF Untouched
    <3> QED BY <3>3, OtherCall
  <2>2. CallSound(t)' /\ CallSound(u)'
    BY <1>1, IdleFields DEF CallSound
  <2> QED BY <2>1, <2>2 DEF CallsSound
<1> QED BY <1>1, <1>2, <1>3, <1>5, <1>6, <1>7, <1>8, SwapOK, ZenonT(60)

-----------------------------------------------------------------------------
(* The invariant and what follows from it *)

\* An update that carries is followed by int3; any other keeps the invariant.
LEMMA UpdateOK ==
    ASSUME TypeOK, TypeOK', Good, NEW t \in Threads, LockedUpdate(t) \/ PlainWrite(t)
    PROVE  Good' \/ Doomed'
<1>1. PICK o \in Objects, p \in Places : o = call[t].object /\ p = call[t].place
  BY UpdateReads, CallFields
<1>2. Update(t, refCount[o]) /\ UNCHANGED <<allocated, home, halted>> /\ call[t].op # "none"
  BY <1>1, UpdateReads
<1>3. ASSUME NEW new, Fault(t, new) PROVE Doomed'
  <2>1. call'[t].at = "trap"
    <3>1. call[t] \in Calls \ {NoCall}
      BY <1>2 DEF TypeOK, NoCall
    <3> QED BY <1>3, <3>1 DEF Fault, TypeOK, Calls
  <2> QED BY <2>1 DEF Doomed
<1>4. CASE call[t].op = "retain" /\ Increment(t, refCount[o])
  <2>1. CASE Overflows(refCount[o])
    BY <1>3, <1>4, <2>1 DEF Increment
  <2>2. CASE ~Overflows(refCount[o])
    BY <1>1, <1>2, <1>4, <2>2, IncrementOK
  <2> QED BY <2>1, <2>2
<1>5. CASE call[t].op = "release" /\ Decrement(t, refCount[o])
  <2>1. CASE Underflows(refCount[o])
    BY <1>3, <1>5, <2>1 DEF Decrement
  <2>2. CASE ~Underflows(refCount[o])
    BY <1>1, <1>2, <1>5, <2>2, DecrementOK
  <2> QED BY <2>1, <2>2
<1> QED BY <1>2, <1>4, <1>5 DEF Update

LEMMA NextOK == IInv /\ [Next]_vars => IInv'
<1> SUFFICES ASSUME IInv, [Next]_vars PROVE IInv'
  OBVIOUS
<1>1. TypeOK /\ TypeOK'
  BY Typed DEF IInv
<1>2. CASE Doomed
  BY <1>1, <1>2, DoomedStays DEF IInv
<1>3. CASE Good
  <2>1. CASE UNCHANGED vars
    <3>1. \A o \in Objects : Refs(o)' = Refs(o)
      BY <2>1 DEF vars, Refs
    <3>2. (Counted /\ Fresh /\ Live)'
      BY <1>3, <2>1, <3>1 DEF vars, Good, Counted, Fresh, Live, Dying
    <3>3. (OwnPlaces /\ Destroyed)'
      BY <1>3, <2>1, <3>1 DEF vars, Good, OwnPlaces, Destroyed, Held, Dying
    <3>6. Stacked'
      BY <1>3, <2>1 DEF vars, Good, Stacked, Dying
    <3>5. Confined'
      BY <1>3, <2>1, <3>1 DEF vars, Good, Confined, Owned, Atomic
    <3>4. CallsSound'
      <4>1. \A t \in Threads : Untouched(t)
        BY <2>1 DEF vars, Untouched
      <4> QED BY <1>1, <1>3, <4>1, OtherCall DEF CallsSound
    <3> QED BY <1>1, <3>2, <3>3, <3>4, <3>5, <3>6 DEF IInv, Good
  <2>2. ASSUME NEW t \in Threads, Runtime(t) PROVE Good' \/ Doomed'
    <3>1. ASSUME NEW o \in Objects, DestroyRetain(t, o) PROVE Good'
      BY <1>1, <1>3, <3>1, DestroyRetainOK
    <3>2. ASSUME NEW o \in Objects, DestroyRelease(t, o) PROVE Good'
      BY <1>1, <1>3, <3>2, DestroyReleaseOK
    <3>3. ASSUME NEW o \in Objects, DestroyBody(t, o) \/ DestroyNoField(t, o) PROVE Good'
      BY <1>1, <1>3, <3>3, DestroyGoesOn
    <3>4. ASSUME NEW o \in Objects, Deallocate(t, o) PROVE Good'
      BY <1>1, <1>3, <3>4, DeallocateOK
    <3>5. CASE LockedUpdate(t) \/ PlainWrite(t)
      BY <1>1, <1>3, <3>5, UpdateOK
    <3>6. CASE PlainRead(t)
      BY <1>1, <1>3, <3>6, PlainReadOK
    <3>7. CASE Trap(t)
      BY <3>7 DEF Trap, Doomed
    <3> QED BY <2>2, <3>1, <3>2, <3>3, <3>4, <3>5, <3>6, <3>7 DEF Runtime
  <2>3. ASSUME NEW t \in Threads, Program(t) PROVE Good'
    BY <1>1, <1>3, <2>3, AllocateOK, MarkSharedOK, DropOK, CopyOK, ExchangeOK, HandOK DEF Program
  <2> QED BY <1>1, <2>1, <2>2, <2>3 DEF Next, Halted, IInv
<1> QED BY <1>2, <1>3 DEF IInv

\* The types, and the inductive invariant, of every reachable state.
THEOREM HeapInvariant == Spec => []IInv
<1>1. Init => IInv
  BY InitOK
<1>2. IInv /\ [Next]_vars => IInv'
  BY NextOK
<1> QED BY <1>1, <1>2, PTL DEF Spec

\* CountsReferences for all threads, objects and word sizes: swift_retain and
\* swift_release lose no update, as long as shared objects have the bit.
THEOREM HeapCounts == Spec => []CountsReferences
<1>1. IInv => CountsReferences
  BY DEF IInv, Good, Counted, CountsReferences
<1> QED BY <1>1, HeapInvariant, PTL

\* Protected for all threads, objects and word sizes: nothing is touched after
\* its end, and emitClassDestructor's extra retain keeps an object from being
\* destroyed twice.
THEOREM HeapProtected == Spec => []Protected
<1>1. IInv => Protected
  <2> SUFFICES ASSUME IInv, ~Doomed PROVE Protected
    BY DEF Protected
  <2>1. TypeOK /\ Good
    BY DEF IInv
  <2>2. \A t \in Threads : call[t].op # "none" => allocated[call[t].object]
    BY <2>1, CallTarget
  <2>3. ASSUME NEW o \in Objects, Dying(o) PROVE Refs(o) \subseteq {This(o), Local(o), Use(o)}
    <3>1. Refs(o) = Held(o) /\ stage[o] \in Stages
      BY <2>1, <2>3 DEF Good, Destroyed, TypeOK, Dying
    <3>2. Held(o) \subseteq {This(o), Local(o), Use(o)}
      BY <3>1 DEF Held, Stages
    <3> QED BY <3>1, <3>2
  <2> QED BY <2>1, <2>2, <2>3 DEF Good, Live, Stacked, Protected
<1> QED BY <1>1, HeapInvariant, PTL

\* StopsOnlyWhenFull for all word sizes: int3 is for a retain that the count
\* has no room for, and a release never underflows.
THEOREM HeapStops == Spec => StopsOnlyWhenFull
<1>1. ASSUME IInv, [Next]_vars, ~Doomed, Doomed'
      PROVE  \E t \in Threads : /\ call'[t].at = "trap" /\ call[t].op = "retain"
                                /\ Cardinality(Refs(call[t].object)) = WordSize \div RC_INTERVAL - 1
  <2>1. TypeOK /\ Good
    BY <1>1 DEF IInv
  <2>2. PICK t \in Threads : LockedUpdate(t) \/ PlainWrite(t)
    <3>1. ASSUME NEW t \in Threads, Program(t) PROVE ~Doomed'
      <4>1. halted' = halted /\ \A u \in Threads : call'[u] = call[u] \/ call'[u].at = "entered"
        BY <2>1, <3>1 DEF Program, Allocate, MarkShared, Drop, Copy, Exchange, Hand, Begin, Calling, TypeOK
      <4> QED BY <1>1, <4>1 DEF Doomed
    <3>2. ASSUME NEW t \in Threads, Runtime(t), ~LockedUpdate(t), ~PlainWrite(t) PROVE ~Doomed'
      <4>1. CASE Trap(t)
        BY <1>1, <4>1 DEF Trap, Doomed
      <4>2. CASE PlainRead(t)
        <5>1. call[t] \in Calls \ {NoCall}
          BY <2>1, <4>2, IdleFields DEF PlainRead, TypeOK, NoCall
        <5>2. halted' = halted /\ \A u \in Threads : call'[u] = call[u] \/ call'[u].at = "read"
          BY <2>1, <4>2, <5>1 DEF PlainRead, TypeOK, Calls
        <5> QED BY <1>1, <5>2 DEF Doomed
      <4>3. CASE \E o \in Objects : \/ DestroyRetain(t, o) \/ DestroyRelease(t, o)
                                    \/ DestroyBody(t, o) \/ DestroyNoField(t, o) \/ Deallocate(t, o)
        <5>1. halted' = halted /\ \A u \in Threads : call'[u] = call[u] \/ call'[u].at = "entered"
          BY <2>1, <4>3 DEF DestroyRetain, DestroyRelease, DestroyBody, DestroyNoField, Deallocate, GoTo, Begin, Calling, TypeOK
        <5> QED BY <1>1, <5>1 DEF Doomed
      <4> QED BY <3>2, <4>1, <4>2, <4>3 DEF Runtime
    <3>3. ~UNCHANGED vars
      BY <1>1 DEF vars, Doomed
    <3> QED BY <1>1, <3>1, <3>2, <3>3 DEF Next, Halted
  <2>3. PICK o \in Objects : o = call[t].object
    BY <2>1, <2>2, UpdateReads, CallFields
  <2>4. Update(t, refCount[o]) /\ UNCHANGED <<allocated, home, halted>> /\ call[t].op # "none"
    BY <2>1, <2>2, <2>3, UpdateReads
  <2>5. ASSUME call'[t].at # "trap" PROVE FALSE
    <3>1. \A u \in Threads : u # t => call'[u] = call[u]
      BY <2>1, <2>4 DEF Update, Increment, Decrement, Fault, TypeOK
    <3> QED BY <1>1, <2>4, <2>5, <3>1 DEF Doomed
  <2>6. WordSize \in Nat /\ WordSize % 2 = 0 /\ refCount[o] \in 0 .. WordSize-1
    BY <2>1, HeapAssumption DEF TypeOK
  <2>7. refCount[o] \div 2 = Cardinality(Refs(o))
    BY <2>1 DEF Good, Counted
  <2>8. NoCall.at = "out"
    BY DEF NoCall
  <2>9. CASE call[t].op = "retain" /\ Increment(t, refCount[o])
    <3>1. Overflows(refCount[o])
      BY <2>1, <2>5, <2>8, <2>9 DEF Increment, TypeOK
    <3>2. refCount[o] \div 2 = WordSize \div 2 - 1
      BY <2>6, <3>1 DEF Overflows
    <3> QED BY <2>3, <2>5, <2>7, <2>9, <3>2
  <2>10. CASE call[t].op = "release" /\ Decrement(t, refCount[o])
    <3>1. Underflows(refCount[o])
      BY <2>1, <2>5, <2>8, <2>10 DEF Decrement, TypeOK
    <3>2. Refs(o) # {}
      <4>1. holds[call[t].place] = o /\ call[t].place \in Places
        BY <2>1, <2>3, <2>10, CallFields DEF Good, CallsSound, CallSound, ReleaseSound
      <4> QED BY <4>1 DEF Refs
    <3>3. Cardinality(Refs(o)) # 0 /\ Cardinality(Refs(o)) \in Nat
      BY <3>2, RefsFinite, FS_EmptySet
    <3> QED BY <2>6, <2>7, <3>1, <3>3 DEF Underflows
  <2> QED BY <2>4, <2>9, <2>10 DEF Update
<1> QED BY <1>1, HeapInvariant, PTL DEF StopsOnlyWhenFull, Spec
================================================================================
