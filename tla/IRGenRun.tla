------------------------------- MODULE IRGenRun -------------------------------
(***************************************************************************)
(* What the code IRGen emits does when it runs, next to what the source    *)
(* means (module Source).  Once the function is lowered, one machine       *)
(* executes the instructions and one the statements; they meet at every    *)
(* call, test, result and return, and a condition takes either outcome.    *)
(***************************************************************************)
EXTENDS IRGenStmt

CONSTANT Object     \* the variables and temporaries programs create

VARIABLES
    phase,  \* "generate", "run" or "done"
    pc,     \* the instruction about to execute: block and index
    mem,    \* what the code has done to each object
    slot,   \* the label in the jump-destination slot, NoLabel before the first
    k,      \* continuation of the source
    env     \* the variables in scope in the source, innermost last

runVars == <<phase, pc, mem, slot, k, env>>
vars == <<genVars, runVars>>

NoLabel == -1
MemState == {"none", "allocated", "initialized"}

AtInstruction ==
    pc.block \in igf.linked /\ pc.index \in 1 .. Len(igf.insts[pc.block])
Current == igf.insts[pc.block][pc.index]

MachineEvent ==
    CASE Current.op \in {"apply", "condbr"} -> Event(Current.op, Current.id)
      [] Current.op = "result" -> Event("return", Current.id)
      [] Current.op = "ret" -> Event("end", NoName)
      [] Current.op = "unreachable" -> Event("unreachable", NoName)
      [] OTHER -> Silent

\* An instruction on an object: the state it needs and the one it leaves.
Needs  == [alloc |-> "none", init |-> "allocated", release |-> "initialized",
           dealloc |-> "allocated", make |-> "none", pass |-> "initialized"]
Leaves == [alloc |-> "allocated", init |-> "initialized", release |-> "none",
           dealloc |-> "none", make |-> "initialized", pass |-> "none"]

GoTo(b) == pc' = [block |-> b, index |-> 1]
StepOver == pc' = [pc EXCEPT !.index = @ + 1]

\* The successor a switch selects: that of the label in the slot, or the default.
Selected ==
    LET cases == {i \in DOMAIN Current.labels : Current.labels[i] = slot}
    IN  IF cases = {} THEN Current.succs[1] ELSE Current.succs[Min(cases) + 1]

SourceStep ==
    /\ phase = "run" /\ SourceEvent(k) = Silent
    /\ k' = SourceNext(k, env).k
    /\ env' = SourceNext(k, env).env
    /\ UNCHANGED <<genVars, phase, pc, mem, slot>>

MachineStep ==
    /\ phase = "run" /\ SourceEvent(k) # Silent
    /\ AtInstruction /\ MachineEvent = Silent
    /\ \/ Current.op = "br" /\ GoTo(Current.succs[1]) /\ UNCHANGED <<mem, slot>>
       \/ Current.op = "switch" /\ GoTo(Selected) /\ UNCHANGED <<mem, slot>>
       \/ /\ Current.op = "store"
          /\ StepOver
          /\ slot' = Current.labels[1]
          /\ UNCHANGED mem
       \/ /\ Current.op \in MemOps
          /\ StepOver
          /\ mem' = [mem EXCEPT ![Current.id] = Leaves[Current.op]]
          /\ UNCHANGED slot
    /\ UNCHANGED <<genVars, phase, k, env>>

Meeting == /\ phase = "run"
           /\ AtInstruction
           /\ SourceEvent(k) # Silent /\ MachineEvent # Silent

Call ==
    /\ Meeting /\ MachineEvent.op = "apply" /\ SourceEvent(k) = MachineEvent
    /\ StepOver
    /\ k' = Tail(k)
    /\ UNCHANGED <<genVars, phase, mem, slot, env>>

Test(b) ==
    /\ Meeting /\ MachineEvent.op = "condbr" /\ SourceEvent(k) = MachineEvent
    /\ GoTo(Current.succs[IF b THEN 1 ELSE 2])
    /\ k' = AfterTest(k, env, b)
    /\ UNCHANGED <<genVars, phase, mem, slot, env>>

\* The result is known; the variables in scope are still to be destroyed.
Result ==
    /\ Meeting /\ MachineEvent.op = "return" /\ SourceEvent(k) = MachineEvent
    /\ StepOver
    /\ k' = << >>
    /\ env' = << >>
    /\ UNCHANGED <<genVars, phase, mem, slot>>

Finish ==
    /\ Meeting /\ MachineEvent.op = "end" /\ SourceEvent(k) = MachineEvent
    /\ phase' = "done"
    /\ UNCHANGED <<genVars, pc, mem, slot, k, env>>

-----------------------------------------------------------------------------
Init ==
    /\ IRGenInit
    /\ phase = "generate"
    /\ pc = [block |-> Entry, index |-> 1]
    /\ mem = [o \in Object |-> "none"]
    /\ slot = NoLabel
    /\ k = <<Visit(prog.body)>>
    /\ env = prog.params

Generate == phase = "generate" /\ IRGenStep /\ UNCHANGED runVars

StartRun ==
    /\ phase = "generate" /\ Generated
    /\ phase' = "run"
    /\ UNCHANGED <<genVars, pc, mem, slot, k, env>>

\* The function has returned, or the compiler has died.
Stopped == (phase = "done" \/ igf.failed # "no") /\ UNCHANGED vars

Next == \/ Generate \/ StartRun
        \/ SourceStep \/ MachineStep
        \/ Call \/ (\E b \in BOOLEAN : Test(b)) \/ Result \/ Finish
        \/ Stopped

\* The emitted code is one thread that runs as long as it has something to do.
Spec == Init /\ [][Next]_vars /\ WF_vars(MachineStep)

-----------------------------------------------------------------------------
(* Properties *)

CleanupOK(c) ==
    /\ c.state \in CleanupStates
    /\ {c.usedActive, c.usedInactive, c.fallthrough} \subseteq BOOLEAN
    /\ c.nextLabel \in Label
    /\ c.entry \in Block \cup {NoBlock}
    /\ \A i \in DOMAIN c.outflows : c.outflows[i] \in [label : Label, block : Block]

TypeOK ==
    /\ igf.n \in Block
    /\ igf.linked \subseteq 1 .. igf.n
    /\ {igf.ip, igf.cleared, igf.unreachable} \subseteq Block \cup {NoBlock}
    /\ igf.innermost \in 0 .. Depth(igf)
    /\ \A i \in DOMAIN igf.stack : CleanupOK(igf.stack[i])
    /\ mem \in [Object -> MemState]
    /\ slot \in Label \cup {NoLabel}

\* The LLVM verifier's rule: a finished block has one terminator, at its end,
\* and no terminator goes to a block that is not in the function.
WellFormed ==
    Generated =>
        \A b \in igf.linked :
            LET is == igf.insts[b] IN
            /\ is # << >> /\ IsTerm(Last(is))
            /\ \A i \in 1 .. Len(is) - 1 : ~IsTerm(is[i])
            /\ ToSet(Last(is).succs) \subseteq igf.linked

\* The emitted code calls, tests, returns and ends in the order the source
\* does, whatever the conditions turn out to be: every branch comes out of the
\* cleanups it goes through at its own destination.
SameObservations == Meeting => SourceEvent(k) = MachineEvent

\* Each object is allocated, initialized and released in turn, on every path:
\* no cleanup runs twice, and none before its object exists.
MemoryDiscipline ==
    (phase = "run" /\ AtInstruction /\ Current.op \in MemOps)
        => mem[Current.id] = Needs[Current.op]

\* The code between two observations ends: whatever the source does next, the
\* code gets to something observable too, and does not go round in its cleanups.
CodeAnswers == (phase = "run" /\ SourceEvent(k) # Silent) ~> Meeting

\* The temporaries a call still owns when it happens.
LiveTemps ==
    LET s == Head(k).stmt IN
    IF SourceEvent(k).op \in {"apply", "return"}
    THEN {s.temps[i].name : i \in {j \in DOMAIN s.temps : ~s.temps[j].taken}} ELSE {}

\* When anything observable happens, the objects that exist are the variables
\* in scope and the temporaries of the call; when the function ends, none.
LiveIsInScope ==
    Meeting => {o \in Object : mem[o] # "none"} =
                   IF SourceEvent(k).op = "end" THEN {} ELSE ToSet(env) \cup LiveTemps

\* Two things fail, and nothing else: a popped cleanup asks its entry, which has
\* no parent yet, for a place (GenControl.cpp:587), and the epilogue casts the
\* return block's only use to a branch (GenFunc.cpp:2749), which a switch out of
\* a cleanup breaks.  The assertions of emitMergeableBlock, Condition, getUn-
\* reachableBlock, setCleanupState, popAndEmitTopCleanup and the builder hold.
OtherAssertionsHold ==
    igf.failed \in {"no", "entry block has no parent", "return block used by a switch"}

=============================================================================
