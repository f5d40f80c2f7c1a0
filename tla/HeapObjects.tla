------------------------------ MODULE HeapObjects ------------------------------
(***************************************************************************)
(* Heap objects and their reference counts: the runtime's allocObject,     *)
(* retain and release as FastEntryPoints.s and Alloc.cpp implement them on *)
(* x86-64, and the destroy functions the compiler emits, which call them   *)
(* again.  The count is a word of WordSize values: its low bit asks for    *)
(* atomic updates, the rest counts.  A step is one access to the count;    *)
(* the test of the bit is taken together with the access that follows it,  *)
(* as the bit is set only while one thread alone can reach the object.     *)
(*                                                                         *)
(* Around them are threads that follow the language's ownership: a strong  *)
(* reference is a place in memory that holds an object, is made by a       *)
(* retain and given up by a release.  Nothing in the repository sets the   *)
(* atomic bit, so who shares an object between threads has to do it.       *)
(***************************************************************************)
EXTENDS Integers, Sequences, FiniteSets

CONSTANTS
    Threads,
    Objects,
    Variables,   \* of each thread
    WordSize,    \* 2^32 in the code
    None         \* no object

CONSTANT
    Kind         \* of each object: see Kinds

\* A box is what createDtorFn serves; a class may have a destructor of its own.
Kinds == {"box", "class", "class with destructor"}

ASSUME HeapAssumption ==
    /\ IsFiniteSet(Threads) /\ IsFiniteSet(Objects) /\ IsFiniteSet(Variables)
    /\ Threads \cap Objects = {} /\ None \notin Objects
    /\ WordSize \in Nat /\ WordSize > 4 /\ WordSize % 2 = 0
    /\ Kind \in [Objects -> Kinds]

VARIABLES
    refCount,
    allocated,
    holds,       \* what each place holds
    call,        \* each thread's retain or release in progress
    stack,       \* the objects each thread is destroying, innermost first
    stage,       \* how far the destroy function of an object is, or "no"
    home,        \* the thread that allocated an object (for the proofs only)
    halted       \* int3 was executed

vars == <<refCount, allocated, holds, call, stack, stage, home, halted>>

\* An object has one field that may hold another; while it is destroyed its
\* destructor holds it too, for itself, in its variable "this" and in its body.
Field(o) == <<o, "field">>
This(o)  == <<o, "this">>
Local(o) == <<o, "variable">>
Use(o)   == <<o, "use">>
Vars(t)  == {t} \X Variables
Places   == (Threads \X Variables) \cup (Objects \X {"field", "this", "variable", "use"})

Refs(o) == {p \in Places : holds[p] = o}

RC_INTERVAL == 2
Atomic(o)   == refCount[o] % 2 = 1

NoCall == [op |-> "none", object |-> None, place |-> <<None, "field">>, at |-> "out", read |-> 0]
Calling(op, o, p) == [op |-> op, object |-> o, place |-> p, at |-> "entered", read |-> 0]

Init ==
    /\ refCount = [o \in Objects |-> 0]
    /\ allocated = [o \in Objects |-> FALSE]
    /\ holds = [p \in Places |-> None]
    /\ call = [t \in Threads |-> NoCall]
    /\ stack = [t \in Threads |-> << >>]
    /\ stage = [o \in Objects |-> "no"]
    /\ home = [o \in Objects |-> None]
    /\ halted = FALSE

-----------------------------------------------------------------------------
(* Emitted destroy functions: emitClassDestructor, and createDtorFn for     *)
(* other layouts.  A stage names the call that is made or comes next.       *)
Stages == {"retain", "variable", "body", "use", "unuse", "unvariable", "fields", "dealloc"}

\* Mutant: no extra retain "to prevent re-triggering destruction".
FirstStage_NoRetain(o) == IF Kind[o] = "class with destructor" THEN "variable" ELSE "fields"

FirstStage(o) == IF Kind[o] = "box" THEN "fields" ELSE "retain"

NextStage(o) ==
    CASE stage[o] = "retain"     -> IF Kind[o] = "class with destructor" THEN "variable" ELSE "fields"
      [] stage[o] = "variable"   -> "body"
      [] stage[o] = "use"        -> "unuse"
      [] stage[o] = "unuse"      -> "unvariable"
      [] stage[o] = "unvariable" -> "fields"
      [] OTHER                   -> "dealloc"

\* The destroy function a call returns to goes on.
Returned(t) == IF stack[t] = << >> THEN stage ELSE [stage EXCEPT ![Head(stack[t])] = NextStage(Head(stack[t]))]

Running(t, o, at) ==
    /\ ~halted /\ call[t].op = "none"
    /\ stack[t] # << >> /\ o = Head(stack[t]) /\ stage[o] = at

Begin(t, op, o, p) ==
    /\ call' = [call EXCEPT ![t] = Calling(op, o, p)]
    /\ UNCHANGED <<refCount, allocated, holds, stack, stage, home, halted>>

DestroyRetain(t, o) ==
    \/ Running(t, o, "retain")   /\ Begin(t, "retain", o, This(o))
    \/ Running(t, o, "variable") /\ Begin(t, "retain", o, Local(o))
    \/ Running(t, o, "use")      /\ Begin(t, "retain", o, Use(o))

DestroyRelease(t, o) ==
    \/ Running(t, o, "unuse")      /\ Begin(t, "release", o, Use(o))
    \/ Running(t, o, "unvariable") /\ Begin(t, "release", o, Local(o))
    \/ /\ Running(t, o, "fields") /\ holds[Field(o)] # None
       /\ Begin(t, "release", holds[Field(o)], Field(o))

GoTo(o, at) ==
    /\ stage' = [stage EXCEPT ![o] = at]
    /\ UNCHANGED <<refCount, allocated, holds, call, stack, home, halted>>

\* The body of a destructor may pass this on, as long as it gets it back.
DestroyBody(t, o) == Running(t, o, "body") /\ \E at \in {"use", "unvariable"} : GoTo(o, at)

\* Mutant: a release of null does not return at once.
DestroyNoField_Faults(t, o) == FALSE

DestroyNoField(t, o) == Running(t, o, "fields") /\ holds[Field(o)] = None /\ GoTo(o, "dealloc")

\* _swift_release_slow, swift_deallocObject
Deallocate(t, o) ==
    /\ Running(t, o, "dealloc")
    /\ allocated' = [allocated EXCEPT ![o] = FALSE]
    /\ holds' = [holds EXCEPT ![This(o)] = None]
    /\ refCount' = [refCount EXCEPT ![o] = 0]
    /\ home' = [home EXCEPT ![o] = None]
    /\ stage' = [stage EXCEPT ![o] = "no"]
    /\ stack' = [stack EXCEPT ![t] = Tail(@)]
    /\ UNCHANGED <<call, halted>>

-----------------------------------------------------------------------------
(* swift_retain and swift_release: the count is tested for its low bit and  *)
(* then updated by one locked instruction, or read and written.             *)
Overflows(old) == old + RC_INTERVAL >= WordSize

\* Mutant: the last reference counts as none (jbe for jc).
Underflows_AtLast(old) == old <= RC_INTERVAL
Underflows(old) == old < RC_INTERVAL

Fault(t, new) ==
    /\ refCount' = [refCount EXCEPT ![call[t].object] = new % WordSize]
    /\ call' = [call EXCEPT ![t].at = "trap"]
    /\ UNCHANGED <<holds, stack, stage>>

Increment(t, old) ==
    LET o == call[t].object
    IN  IF Overflows(old) THEN Fault(t, old + RC_INTERVAL)
        ELSE /\ refCount' = [refCount EXCEPT ![o] = (old + RC_INTERVAL) % WordSize]
             /\ holds' = [holds EXCEPT ![call[t].place] = o]
             /\ call' = [call EXCEPT ![t] = NoCall]
             /\ stage' = Returned(t) /\ UNCHANGED stack

\* RC_MASK: the bit does not count.
IsZero(count) == count \div RC_INTERVAL = 0

Decrement(t, old) ==
    LET o == call[t].object
    IN  IF Underflows(old) THEN Fault(t, old - RC_INTERVAL)
        ELSE /\ refCount' = [refCount EXCEPT ![o] = old - RC_INTERVAL]
             /\ holds' = [holds EXCEPT ![call[t].place] = None]
             /\ call' = [call EXCEPT ![t] = NoCall]
             /\ IF IsZero(old - RC_INTERVAL)
                THEN /\ stage' = [Returned(t) EXCEPT ![o] = FirstStage(o)]
                     /\ stack' = [stack EXCEPT ![t] = <<o>> \o @]
                ELSE stage' = Returned(t) /\ UNCHANGED stack

Update(t, old) ==
    \/ call[t].op = "retain"  /\ Increment(t, old)
    \/ call[t].op = "release" /\ Decrement(t, old)

\* Mutant: the bit is not looked at.
TestBit_Plain(o) == FALSE
TestBit(o) == Atomic(o)

LockedUpdate(t) ==
    /\ ~halted /\ call[t].at = "entered" /\ TestBit(call[t].object)
    /\ Update(t, refCount[call[t].object])
    /\ UNCHANGED <<allocated, home, halted>>

PlainRead(t) ==
    /\ ~halted /\ call[t].at = "entered" /\ ~TestBit(call[t].object)
    /\ call' = [call EXCEPT ![t].at = "read", ![t].read = refCount[call[t].object]]
    /\ UNCHANGED <<refCount, allocated, holds, stack, stage, home, halted>>

PlainWrite(t) ==
    /\ ~halted /\ call[t].at = "read"
    /\ Update(t, call[t].read)
    /\ UNCHANGED <<allocated, home, halted>>

\* int3
Trap(t) ==
    /\ ~halted /\ call[t].at = "trap"
    /\ halted' = TRUE
    /\ UNCHANGED <<refCount, allocated, holds, call, stack, stage, home>>

-----------------------------------------------------------------------------
(* What a thread outside of destructors does.                               *)
Ready(t) == ~halted /\ call[t].op = "none" /\ stack[t] = << >>

\* swift_allocObject
Allocate(t, v, o) ==
    /\ Ready(t) /\ holds[v] = None /\ ~allocated[o]
    /\ allocated' = [allocated EXCEPT ![o] = TRUE]
    /\ refCount' = [refCount EXCEPT ![o] = RC_INTERVAL]
    /\ holds' = [holds EXCEPT ![v] = o]
    /\ home' = [home EXCEPT ![o] = t]
    /\ UNCHANGED <<call, stack, stage, halted>>

Content(o) == holds[Field(o)]

\* Whoever shares an object asks for atomic updates first, while nobody else
\* knows it, and of what it holds before.
MarkShared(t, v) ==
    /\ Ready(t) /\ holds[v] # None
    /\ LET o == holds[v]
       IN  /\ Refs(o) = {v} /\ ~Atomic(o)
           /\ Content(o) # None => Atomic(Content(o))
           /\ refCount' = [refCount EXCEPT ![o] = @ + 1]
    /\ UNCHANGED <<allocated, holds, call, stack, stage, home, halted>>

\* A copy of a variable, or of the field of an object it holds.
Copy(t, v, d) ==
    /\ Ready(t) /\ holds[v] # None /\ holds[d] = None
    /\ \E o \in {holds[v], Content(holds[v])} \ {None} : Begin(t, "retain", o, d)

Drop(t, v) ==
    /\ Ready(t) /\ holds[v] # None
    /\ Begin(t, "release", holds[v], v)

\* An assignment to a field exchanges it with a variable, which is dropped later.
Exchange(t, v, w) ==
    /\ Ready(t) /\ v # w /\ holds[w] # None
    /\ LET o == holds[w]
       IN  /\ ~Atomic(o) \/ (Refs(o) = {w} /\ (holds[v] # None => Atomic(holds[v])))
           /\ holds' = [holds EXCEPT ![v] = Content(o), ![Field(o)] = holds[v]]
    /\ UNCHANGED <<refCount, allocated, call, stack, stage, home, halted>>

\* A reference moves to another thread.
Hand(t, v, u, w) ==
    /\ Ready(t) /\ Ready(u) /\ t # u
    /\ holds[v] # None /\ Atomic(holds[v]) /\ holds[w] = None
    /\ holds' = [holds EXCEPT ![v] = None, ![w] = holds[v]]
    /\ UNCHANGED <<refCount, allocated, call, stack, stage, home, halted>>

-----------------------------------------------------------------------------
Runtime(t) ==
    \/ \E o \in Objects : \/ DestroyRetain(t, o) \/ DestroyRelease(t, o)
                         \/ DestroyBody(t, o) \/ DestroyNoField(t, o) \/ Deallocate(t, o)
    \/ LockedUpdate(t) \/ PlainRead(t) \/ PlainWrite(t) \/ Trap(t)

Program(t) ==
    \E v \in Vars(t) :
        \/ \E o \in Objects : Allocate(t, v, o)
        \/ MarkShared(t, v)
        \/ Drop(t, v)
        \/ \E w \in Vars(t) : Copy(t, v, w) \/ Exchange(t, v, w)
        \/ \E u \in Threads : \E w \in Vars(u) : Hand(t, v, u, w)

Halted == halted /\ UNCHANGED vars

Next == (\E t \in Threads : Runtime(t) \/ Program(t)) \/ Halted

Spec == Init /\ [][Next]_vars /\ \A t \in Threads : WF_vars(Runtime(t))

-----------------------------------------------------------------------------
\* An increment has carried, and the process is about to stop.
Doomed == halted \/ \E t \in Threads : call[t].at = "trap"

Dying(o) == stage[o] # "no"

\* Every count is the number of places that hold the object, whatever threads
\* do at once: no update is lost (swift_retain, swift_release).
CountsReferences ==
    ~Doomed => \A o \in Objects : refCount[o] \div RC_INTERVAL = Cardinality(Refs(o))

\* No place holds a deallocated object, nothing is retained or released after
\* its end, and an object is destroyed by one destroy function, once, although
\* that retains and releases it (emitClassDestructor's extra retain).
Protected ==
    ~Doomed =>
        /\ \A o \in Objects : allocated[o] <=> Refs(o) # {} \/ Dying(o)
        /\ \A t \in Threads : call[t].op # "none" => allocated[call[t].object]
        /\ \A t, u \in Threads : \A i \in DOMAIN stack[t], j \in DOMAIN stack[u] :
              stack[t][i] = stack[u][j] => t = u /\ i = j
        /\ \A o \in Objects : Dying(o) => Refs(o) \subseteq {This(o), Local(o), Use(o)}

\* The runtime stops a program only for a retain of an object that has as many
\* references as the word can count, never for a release.
StopsOnlyWhenFull ==
    [][~Doomed /\ Doomed' =>
         \E t \in Threads : /\ call'[t].at = "trap" /\ call[t].op = "retain"
                            /\ Cardinality(Refs(call[t].object)) = WordSize \div RC_INTERVAL - 1]_vars

\* An object nobody holds any more is deallocated, and its destructor is not
\* entered again and again.
DestructionEnds == \A o \in Objects : Dying(o) ~> (~allocated[o] \/ halted)
================================================================================
