-------------------------------- MODULE SILRun --------------------------------
(***************************************************************************)
(* What the code SILGen emits does when it runs, next to what the source   *)
(* means.  Once the function is generated, two machines run side by side:  *)
(* one executes the SIL instructions, the other the statements; they meet  *)
(* at every call, condition and exit, and a condition takes either outcome.*)
(*                                                                         *)
(* The statement machine (module Source) is the specification.             *)
(***************************************************************************)
EXTENDS SILGen

CONSTANTS
    Var,        \* the variables programs declare, a subset of Name
    Declares    \* those each statement declares, itself or in a part of it

\* t is a part of s that is no declaration itself: a brace, or the if after an else.
Inside(t, s, vars) == t.kind # "var" /\ Declares[t] \subseteq Declares[s] \ ToSet(vars)

\* Every declaration is a variable of its own: none is declared again in its scope.
DeclaresOnce(s) ==
    LET Declared(vs) == IsInjective(vs) /\ ToSet(vs) \subseteq Declares[s]
    IN  /\ s.kind = "call" => Declares[s] = {}
        /\ s.kind = "var" => Declared(s.vars)
        /\ s.kind = "brace" => \A i \in DOMAIN s.body :
              /\ Declares[s.body[i]] \subseteq Declares[s]
              /\ s.body[i].kind = "var" =>
                    \A j \in i + 1 .. Len(s.body) :
                        ToSet(s.body[i].vars) \cap Declares[s.body[j]] = {}
        /\ s.kind = "if" => /\ Inside(s.then, s, << >>)
                            /\ s.else # NoStmt => Inside(s.else, s, << >>)
        /\ s.kind \in {"while", "dowhile"} => Inside(s.body, s, << >>)
        /\ s.kind = "for" => Declared(s.vars) /\ Inside(s.body, s, s.vars)
        /\ s.kind = "foreach" =>
              Declared(s.range \o s.elem) /\ Inside(s.body, s, s.range \o s.elem)

\* What the parser and the type checker build: bodies and arms are braces, and a
\* variable is a VarDecl, which is in one pattern (ParseStmt.cpp, Pattern.h).
ASSUME ScopeAssumption ==
    /\ Declares \in [LoopStmt -> SUBSET Var] /\ Var \subseteq Name
    /\ \A s \in LoopStmt : DeclaresOnce(s)
    /\ \A p \in Program : /\ IsInjective(p.params)
                          /\ ToSet(p.params) \subseteq Var \ Declares[p.body]

\* T is a set of statements in which no continue jumps to the loop around them.
ContinueFree(T) ==
    \A s \in T : /\ s.kind # "continue"
                 /\ s.kind = "brace" => ToSet(s.body) \subseteq T
                 /\ s.kind = "if" => s.then \in T /\ (s.else # NoStmt => s.else \in T)

VARIABLES
    phase,  \* "generate", "run" or "done"
    pc,     \* the SIL instruction about to execute: block and index
    mem,    \* what the SIL has done to the memory of each variable
    k,      \* continuation of the source: frames still to run, innermost first
    env     \* the variables in scope in the source, innermost last

runVars == <<phase, pc, mem, k, env>>
vars == <<genVars, runVars>>

MemState == {"none", "allocated", "initialized", "destroyed"}

SourceStep ==
    /\ phase = "run" /\ SourceEvent(k) = Silent
    /\ k' = SourceNext(k, env).k
    /\ env' = SourceNext(k, env).env
    /\ UNCHANGED <<genVars, phase, pc, mem>>

-----------------------------------------------------------------------------
(* The SIL *)

AtInstruction ==
    pc.block \in fn.linked /\ pc.index \in 1 .. Len(fn.insts[pc.block])
Current == fn.insts[pc.block][pc.index]

MachineEvent ==
    CASE Current.op \in {"apply", "condbr"} -> Event(Current.op, Current.id)
      [] Current.op = "return" /\ Current.id # NoName -> Event("return", Current.id)
      [] Current.op = "return" /\ Current.id = NoName -> Event("end", NoName)
      [] Current.op = "unreachable" -> Event("end", NoName)
      [] OTHER -> Silent

\* An instruction on the memory of a variable: the state it needs and leaves.
Needs  == [alloc |-> "none", init |-> "allocated",
           destroy |-> "initialized", dealloc |-> "destroyed"]
Leaves == [alloc |-> "allocated", init |-> "initialized",
           destroy |-> "destroyed", dealloc |-> "none"]

GoTo(b) == pc' = [block |-> b, index |-> 1]
StepOver == pc' = [pc EXCEPT !.index = @ + 1]

MachineStep ==
    /\ phase = "run" /\ SourceEvent(k) # Silent
    /\ AtInstruction /\ MachineEvent = Silent
    /\ \/ Current.op = "br" /\ GoTo(Current.succs[1]) /\ UNCHANGED mem
       \/ /\ Current.op \in DOMAIN Needs
          /\ StepOver
          /\ mem' = [mem EXCEPT ![Current.id] = Leaves[Current.op]]
    /\ UNCHANGED <<genVars, phase, k, env>>

Meeting == /\ phase = "run"
           /\ AtInstruction
           /\ SourceEvent(k) # Silent /\ MachineEvent # Silent

Call ==
    /\ Meeting /\ MachineEvent.op = "apply" /\ SourceEvent(k) = MachineEvent
    /\ StepOver
    /\ k' = Tail(k)
    /\ UNCHANGED <<genVars, phase, mem, env>>

Test(b) ==
    /\ Meeting /\ MachineEvent.op = "condbr" /\ SourceEvent(k) = MachineEvent
    /\ GoTo(Current.succs[IF b THEN 1 ELSE 2])
    /\ k' = AfterTest(k, env, b)
    /\ UNCHANGED <<genVars, phase, mem, env>>

Leaving == Meeting /\ MachineEvent.op \in {"return", "end"}
Finish ==
    /\ Leaving /\ SourceEvent(k) = MachineEvent
    /\ phase' = "done"
    /\ UNCHANGED <<genVars, pc, mem, k, env>>

-----------------------------------------------------------------------------
Init ==
    /\ SILGenInit
    /\ phase = "generate"
    /\ pc = [block |-> Entry, index |-> 1]
    /\ mem = [v \in Var |-> "none"]
    /\ k = <<Visit(prog.body)>>
    /\ env = prog.params

Generate == phase = "generate" /\ SILGenStep /\ UNCHANGED runVars

StartRun ==
    /\ phase = "generate" /\ Generated
    /\ phase' = "run"
    /\ UNCHANGED <<genVars, pc, mem, k, env>>

\* The function has returned, or the compiler has died.
Stopped == (phase = "done" \/ failed # "no") /\ UNCHANGED vars

Next == \/ Generate \/ StartRun
        \/ SourceStep \/ MachineStep
        \/ Call \/ (\E b \in BOOLEAN : Test(b)) \/ Finish
        \/ Stopped

\* The compiler is one thread that runs until it is done.
Spec == Init /\ [][Next]_vars /\ WF_vars(Generate \/ StartRun)

-----------------------------------------------------------------------------
(* Properties *)

\* What constructSIL hands to the verifier: every block of the function ends in
\* a terminator, no destination is left over, and no cleanup except those of
\* the parameters, which belong to no scope.
FunctionComplete ==
    Generated => /\ \A b \in fn.linked : Ended(fn, b)
                 /\ breakDests = << >> /\ continueDests = << >>
                 /\ cleanups = prog.params

\* Execution never runs off the end of a block or into an erased one.
NeverLost == phase = "run" => AtInstruction

\* The emitted code calls, tests and exits in the order the source does,
\* whatever the conditions turn out to be (visitIfStmt through visitContinueStmt).
SameObservations == Meeting => SourceEvent(k) = MachineEvent

\* SIL.rst on alloc_var, destroy and dealloc: memory is allocated once at a
\* time, initialized once, destroyed once, and deallocated after that, on
\* every path through the scopes and jumps of the function.
MemoryDiscipline ==
    (phase = "run" /\ AtInstruction /\ Current.op \in DOMAIN Needs)
        => mem[Current.id] = Needs[Current.op]

\* When anything observable happens, the memory that exists is that of the
\* variables in scope: a cleanup is neither late nor early.  At the end of the
\* function only the parameters are left (their cleanups are never emitted).
LiveIsInScope ==
    Meeting => {v \in Var : mem[v] # "none"} = ToSet(env)

\* Generation of a function always ends, in a function or a diagnosis.
GenerationEnds == <>(phase = "run" \/ failed # "no")

=============================================================================
