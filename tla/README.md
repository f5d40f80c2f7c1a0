# TLA+ models of the Swift compiler and its runtime

This directory models parts of the Swift compiler (an early one: `src/lib` parses and
checks Swift and lowers it to LLVM, directly through IRGen or through the new SIL) and of
its runtime (`src/runtime`). Each module is translated from the C++ (or assembly) it names
and TLC checks it on small instances; the SIL builder, the lowering of statements to SIL,
the walks of the ARC optimizer, the size classes, the allocator and the reference counts are
also proved about with TLAPS, for every value of the constants.

## The system

| Part | State it keeps | Operations | What is hard |
|---|---|---|---|
| Lexer, parser (`lib/Parse`) | current token and one token of look-ahead, scopes, pending contexts | `consumeToken`, `skipUntil*`, `parse*` | recovery after an error must get on, and every error must be told |
| AST, types (`lib/AST`) | uniquing tables, arenas | `get` of each type, substitution | equal types must be one pointer |
| Name binding and lookup (`lib/Sema/NameBinding.cpp`, `lib/AST/Module.cpp`, `NameLookup.cpp`) | per-module lookup caches | `lookupValue`, `lookupExtensions` | a cache filled before its module is complete is stale |
| Type checker, constraint solver, archetype builder (`lib/Sema`) | type variables with representatives, work lists, known conformances, potential archetypes | `simplify`, `solve`, `addConformanceRequirement`, `conformsToProtocol` | union-find state, search with undo, recursion through a half-filled table |
| SIL functions (`lib/SIL`, `include/swift/SIL`) | blocks, instruction lists, predecessor lists, insertion point | `create*`, `emitBlock`, `eraseFromParent` | predecessor lists decide what is dead |
| SILGen (`lib/SIL/SILGen`) | cleanup stack, break and continue destinations | one visitor for each statement | cleanups on every way out of a scope |
| IRGen control flow (`lib/IRGen/GenControl.cpp`, `GenStmt.cpp`, `GenInit.cpp`) | LLVM blocks, cleanup stack with entry blocks, labels and outflows | `emitBranch`, `endScope`, `setCleanupState`, one emitter for each statement | a cleanup's code is emitted once, for branches that were emitted before |
| ARC optimizer (`lib/IRGen/OptimizeARC.cpp`) | the instructions of a block, iterators into them | canonicalization, motion of retains and releases, elimination of objects, expansion | aliases, destructors, and erasing under an iterator |
| IRGen for types, protocols, functions (`lib/IRGen`) | type and symbol tables, explosions | emission | wide, with little state |
| Runtime: memory (`runtime/Alloc.cpp`, `FastEntryPoints.s`) | per-thread lists of free blocks for each size class | `swift_alloc`, `swift_rawAlloc`, their `try` and `slow` forms, `dealloc` | compiler and runtime must agree on size classes |
| Runtime: objects (`runtime/Alloc.cpp`, `FastEntryPoints.s`, destroy functions from `GenClass.cpp`, `GenHeap.cpp`) | reference counts with an atomic bit | `swift_allocObject`, `swift_retain`, `swift_release`, destruction | counts from several threads; a destructor that retains its own object |
| Runtime: metadata (`runtime/Metadata.cpp`) | caches keyed by arguments | `swift_getGenericMetadata`, tuple and function metadata | one metadata for one type |
| Standard library, driver, REPL | programs and glue | | |

The parser, Sema and the AST share trees; SILGen and IRGen both read the checked tree and
never change it. Code that IRGen emits calls the runtime: `emitAllocRawCall` and
`emitDeallocRawCall` choose the entry point and the size class, retains and releases go to
`FastEntryPoints.s`, and the destroy functions that `swift_release` calls back are emitted
code again. The ARC optimizer runs between IRGen and LLVM. All of the compiler is one thread; the runtime is called from any number of threads.

`PROJECT.json` lists every part with its files, also those that are not modelled, and each
place where this code can go wrong in a way a test would hardly reach.

## Modules

| Module | Models | |
|---|---|---|
| `SILBuilder` | `SILBuilder.h`, `BasicBlock.h`, `SILSuccessor.cpp` | blocks, terminators, predecessor lists; the contract of the builder as a state machine |
| `SILBuilderProofs` | | proofs about it |
| `Source` | what a function body means | abstract specification of both lowerings |
| `SILGen` | `lib/SIL/SILGen` | the statement visitors, `Condition`, cleanups, jumps |
| `SILRun` | | executes the SIL next to the source |
| `SILGenProofs` | | proofs about the lowering and the code it emits |
| `SILMemoryProofs` | | the proof that the emitted code keeps the memory of each variable in order |
| `SILMeaningProofs` | | the proof that the emitted code does what the source does |
| `IRGenControl` | `GenControl.cpp`, `IRBuilder.h`, `Cleanup.h`, `Scope.h` | the builder, conditions, the cleanup stack |
| `IRGenStmt` | `GenStmt.cpp`, `GenInit.cpp`, parts of `GenFunc.cpp` | the statement emitters, variables, temporaries, prologue and epilogue |
| `IRGenRun` | | executes the LLVM code next to the source |
| `SizeClasses` | `Alloc.cpp`, `IRGenFunction.cpp` | the compiler's size-to-class table, the runtime's class-to-size table |
| `RuntimeAlloc` | `Alloc.cpp`, `FastEntryPoints.s` | threads that allocate and release plain memory |
| `RuntimeAllocProofs` | | proofs about it and the size classes |
| `Memory` | `Alloc.h` | plain memory as the header promises it: abstract specification |
| `RuntimeMemory` | | `RuntimeAlloc` seen as `Memory`: the refinement mapping |
| `RuntimeMemoryProofs` | | the proof that it implements it |
| `HeapObjects` | `FastEntryPoints.s`, `Alloc.cpp`, `GenClass.cpp`, `GenHeap.cpp` | counts, plain and locked updates, destroy functions, threads that share objects |
| `HeapObjectsProofs` | | proofs about it |
| `ParserSteps` | `Token.h`, parts of `Parser.cpp` and `ParseStmt.cpp` | tokens, and the steps parse functions are made of |
| `ParserCode` | `lib/Parse/Parse*.cpp` | every parse function, as such steps |
| `ParserMachine` | `Parser.cpp` | the machine that runs them on a token stream |
| `SwiftGrammar` | the productions quoted above the functions | the language, as a context-free grammar |
| `Parser` | `Frontend.cpp`, `parseIntoTranslationUnit` | files and who has them parsed; the properties |
| `SwiftTypes` | `Types.h`, parts of `lib/Sema` and `lib/AST` | types, and what the solver asks about them |
| `TypeVariables` | `TypeVariableType::Implementation` | representatives, path compression, undo |
| `ConstraintSystem`, `Matching`, `Simplification` | `TypeCheckConstraints.cpp` | constraints; `matchTypes`; `simplifyConstraint`, members, overloads |
| `ConstraintGen` | the same file | constraints of expressions and assignments |
| `SolutionSteps`, `Ranking`, `Solver` | the same file | the choice of a step, the comparison of solutions, the search |
| `TypingRules` | | when types are related, without order or state; the properties |
| `ARCInstructions` | `classifyInstruction` | a basic block |
| `OptimizeARC` | `OptimizeARC.cpp` | the passes |
| `OptimizeARCProofs` | | proofs about their walks |
| `ARCMeaning` | | what a block does to counted objects: reference semantics |
| `MCSILGen`, `MCIRGen`, `MCRuntimeAlloc`, `MCHeapObjects`, `MCParser`, `MCSolver`, `MCOptimizeARC` | | the instances TLC checks |

### How the lowerings are modelled

A visitor is a recursive C++ function. Its recursion is an explicit stack, `todo`: a frame
is the part of a visitor between two recursive calls, and one action runs one frame, with
all the calls it makes on the builder and the cleanups. In SILGen those calls are
composed from the operators of `SILBuilder`; in IRGen the whole `IRGenFunction` is one
record, `igf`, and each method is an operator from record to record. A failed assertion
sets `failed`, and nothing happens after it. A program of SILGen's grammar also says whether
the compiler was built with assertions, because a build without them goes on where the other
stops. The statements themselves are constants closed under the grammar: `FreeStmt` those
that may stand outside every loop, `LoopStmt` all of them. A run gives their finite sets, the
proofs need no more than the closure.

When the function is complete, two machines run in lock step: one executes the emitted
instructions, the other executes the statements as `Source` defines them. They meet at
everything a caller could observe (a call, a test, the result, the end), each test takes
either outcome, and between meetings each goes its own way. So one pass of TLC covers every
path through every program of the grammar, and the properties compare the emitted code
with the source instead of with itself.

Expressions are abstracted to calls with a name. In IRGen a call makes owned temporaries
for its arguments, of which the callee takes some; in SIL at this commit expressions have
no cleanups. Assignments are calls.

Two things in IRGen are left out because nothing in these modules leads to them. A cleanup
used while active and also while inactive would need a control flag (`transitionControlToFlag`);
the model fails there, and `OtherAssertionsHold` shows that it never happens for these
statements. A tuple pattern is initialized element by element, as for a tuple literal, not
from the result of one call.

### How the allocator is modelled

A thread that allocates first has a request (`want`), then takes a block from its own list
(`PopCache`) or asks the C library (`SlowAlloc`, `GiveUp`). A release pushes the block on a
list of the releasing thread or frees it. The steps of `FastEntryPoints.s` need no finer
grain: the lists belong to one thread. What a block contains is abstracted to "zero", "link"
(zero but for the next pointer) and "data". `Memory` knows neither lists nor entry points: a
thread asks and gets a block nobody holds, or nothing if it said it can do without; memory
that is not raw is zero, as `Alloc.h:65` says. The lists do not keep that: they leave the next
pointer in the first word of a block they hand out. So `RuntimeMemory` has two views of a
block. `KeepsMemoryPastLink` sees what lies past the first word, and holds; `KeepsMemory` sees
whole blocks, for which the pointer is not zero, and holds only while no list of the zeroed
pool gets two blocks long (`SingleLists`).

### How heap objects are modelled

A strong reference is a place that holds an object: a variable of a thread, the field of an
object, or one of the three references a destructor takes to its own object (the extra
retain, the variable `this`, a copy in its body). A retain fills a place and a release
empties it. The access to the count is one step if the atomic bit is set and a read and a
write otherwise, with everything other threads do in between. A count that reaches zero
pushes the object on the thread's stack of destructions, and the stages of the destroy
function (`emitClassDestructor`, `createDtorFn`) make their calls through the same entry
points. A count that carries or borrows goes to `int3`.

`Alloc.h` says that retain and release count "Atomically" (lines 134 and 158). The entry
points do so only when the bit is set; `swift_allocObject` leaves it clear and nothing in
the repository sets it. The model lets whoever shares an object set it (`MarkShared`), while
no other reference exists and after the object in its field was marked: that is the
discipline under which the entry points are correct, and `CountsReferences` fails when the
bit is not looked at.

### How the parser is modelled

A parse function is a sequence of steps: look, consume, require, call, loop, guard against
the failure of a callee. The machine keeps the sequence of what is left of all active
functions, which is the C++ stack. A failure unwinds to the nearest caller that handles it.
Names, scopes and the tree are left out; of what a function returns, only what a caller looks
at is kept (`shape`). The whole parse of a file is one step, as the parser is sequential and
shares nothing.

### How the constraint solver is modelled

`matchTypes`, `addConstraint` and `resolveOverload` call each other: the calls that are
pending are `todo`, and a step makes one. The search is the loop of `solve`, with its stack
of systems, its counters of active children and the one table of type variables that all
systems share and undo. What the solver asks the rest of the type checker (members,
conformances, superclasses) are constants, whose values in `MCSolver` are the declarations of
the tests under `src/test/Constraints`.

### How the ARC optimizer is modelled

An action is what a pass does with the instruction its iterator points at, with all the
scanning, moving and erasing it does. An instruction has an identity, so an iterator can
become invalid. Every block is one basic block; loads, stores, copies, calls of three kinds,
casts, aggregates and the runtime's calls are told apart, sizes and addresses are not.
Where the code takes the first extract in LLVM's list of uses (`OptimizeARC.cpp:263`) the model
takes the first in the block, and it does not keep the casts that are dead once an extract is
replaced. No property depends on either.
`ARCMeaning` runs a block on counted objects, and the block after the passes must do what
the block before them did wherever that one was correct.

## Runs

| Run | Shows |
|---|---|
| `silgen` | For every function of the grammar: after every visitor blocks are well terminated, and erasing a block whose predecessor list is empty never leaves a branch to it; the SIL is complete, does what the source says on every path, and allocates, initializes, destroys and deallocates each variable in turn and exactly with its scope; generation ends. Built with assertions, the compiler stops on exactly the functions of the shapes that `MCSILGen` describes independently (`Trips`), and only in `Condition` or at a return without value. |
| `silgen_docontinue` | Finding: `continue` in a `do`-`while` goes to the body without testing the condition. IRGen does the same (`GenStmt.cpp:223`). |
| `irgen` | For every function of its grammar: the LLVM code is well formed, does what the source says, every object is released once and in time, temporaries included, each branch finds its way out of the cleanups, and the code between two observations ends. No assertion fails but the two below. |
| `alloc` | Memory has one holder and is large enough; past the first word of each block the lists and entry points together implement `Memory`. |
| `alloc_slow` | Finding: memory obtained slowly with its exact size is handed out again for a larger size of its class. |
| `alloc_zero` | Finding: memory promised as zero filled has the pointer of its list in its first word, if another block was behind it in the list. |
| `heap` | Counts are the numbers of references, objects live exactly as long as they have any, are destroyed once and to the end, and only a full count stops the program. |
| `parser` | On 29 programs and all that is one edit away from them: parsing finishes, never goes round without consuming, accepts only what the grammar or two named extensions allow, gives up only after a diagnostic (one exception, the subscript with empty accessors), and trips one assertion only (the bound of `new T[...]` that does not parse). |
| `solver` | On several hundred expressions: each solution satisfies every constraint ever posed, by rules written independently; undo restores exactly what was there; no system is deleted while it is needed; the search ends and resolves what the tests say; assertions trip on exactly seven expressions. |
| `solver_open` | Finding: a system counts as solved while a type variable is free. |
| `arc` | Every block keeps its meaning through all passes, the walk never loses its iterator and ends, and no pass meets what canonicalization should have removed. |
| `arc_selects` | Finding: elimination of a stored-only object erases stores through a select that go to another object. |

`LiveIsInScope` and `MemoryDiscipline` do not ask that a `return` runs cleanups, because the
code runs none there (`SILGen.h:98`): at a return the variables in scope are live, and memory
that is never touched again breaks no order. So neither would notice that the cleanups are
missing.

Two things the passing runs pin down without a run of their own:

- The assertions of `Condition` (`Condition.cpp:104`, `126`) do not hold: a zapped branch
  stays in the predecessor list, and an `if` whose arms both leave fails too.
  `AssertionsTripExactly` says on which functions.
- In IRGen the entry block of a cleanup that is only the default edge of a switch is placed
  with its own null parent (`GenControl.cpp:587`), and the epilogue casts the only use of the
  return block to a branch (`GenFunc.cpp:2749`), which is a switch for an endless `for` whose
  body declares a variable and returns, in a function without parameters. 64 and ten
  functions of the grammar fail there, and `OtherAssertionsHold` says that nothing else fails.

The comment at `OptimizeARC.cpp:440` says that release motion zaps a release that gets to
the allocation of its object. The scan stops at the definition of the object before it looks
at what that is, so the case for it (`OptimizeARC.cpp:527`) is never reached: the model has no
such step. The result is correct, only less optimized.

### Bounds

- `silgen*`, `irgen`: every `if` whose arms are empty, declare a variable and call, leave
  at once or leave in the middle; alone, before a return, in the body of each kind of loop
  next to a variable; each kind of loop in each other one; in `irgen` also all ways of
  passing three temporaries in a call, two initializers and a result, and `for` loops with no
  scope around them. Two loops and an `if` make the three levels that a branch can leave at
  once. The `MaxBlock` of `silgen` is what its functions need, so that `BuilderTypeOK` fails on one
  block too many; the other `MaxBlock` and `MaxLabel` are above that.
  Functions in which `continue` leaves a `do`-`while` are left to the run about them.
- `alloc*`: two threads and three blocks (one thread in the two findings, and two
  blocks in `alloc_zero`), and sizes that share a class (137 and 144 bytes), have
  the last class but no token (a page), and have no class. Two blocks in a list and one
  outside it are the most that a push, a pop and a third party involve.
- `heap`: two threads with two variables each, a box and an object with a destructor, and a
  word of eight values, so that three references fill a count. Two threads and one object
  lose an update; a second object is needed for a destruction inside another.
- `parser`: 29 seed programs that use every production of the grammar, edited at every place
  by dropping a token or by putting in or replacing it with one of 26, each parsed as the main
  file, a library and an import. One error is what recovery has to get over; what it does with
  the next one depends only on where it came to rest.
- `solver`: every function of the tests' declarations (29 callees) with every argument (27),
  and the nested expressions of the tests.
- `arc`: all sequences of three or four instructions from ten vocabularies, each of which
  serves one optimization, with parameters that are equal or not, counts of one to three, an
  object that holds another or none, destructors with and without effects and a global that
  may hold a reference. An optimization involves two instructions and what is between them.

`alloc*`, `heap` and `parser` do not check deadlock: a thread
waits for ever when all memory is held and its request may not fail, a thread whose variables
are full of objects it will not drop is done, and a parsed file is parsed.

### Fairness

`SILRun` assumes weak fairness of generation: the compiler is one thread that runs until it
is done (`GenerationEnds`). `IRGenRun` assumes weak fairness of the emitted code: it is run
by a processor (`CodeAnswers`). Nothing is assumed about which way a test goes, and nothing
about the allocator. `HeapObjects` assumes that each thread gets on with the runtime call and
the destroy function it is in, and nothing about what a program does outside them. The
passes of `OptimizeARC` and the search of `Solver` are one thread that runs until it is done.
`Solver` writes weak fairness of `Next` out as `[]<>Ended \/ []<><<vars' # vars>>_vars`: `Next`
has a step that changes something until the search has ended, which the run's check for
deadlock confirms, and TLC does not have to evaluate ENABLED of the whole search.

## Proofs

- `SILBuilderProofs`: `BuilderTyped`, `BuilderTerminates` and `BuilderErasesSafely`, for any
  number of blocks and any names. The inductive invariant is `WellFormed`: the type, one
  terminator at the end (`EndsOnce`), predecessor lists that miss no branch (`PredsCover`)
  and no branch to an erased block (`EdgesLinked`). None of them is inductive alone: erasing
  a block is safe only because its list is complete, and the list stays complete only
  because a block is terminated once. Each builder call has a lemma of its own that says it
  preserves `WellFormed` under its contract. That contract (`BuilderSpec`) allows any sequence
  of calls; TLC checks the invariants on the sequences that SILGen makes (`silgen`).
- `SILGenProofs`: `SILGenCompletes`, `SILGenNeverLost`, `SILGenKeepsBuilderContract` and
  `SILGenAssertionsHold`, for any set of programs of the grammar, of any size and nesting. The
  inductive invariant `GenInv` is about the stack of frames, that is, about what the visitors
  that are still active will do. Each block that is not emitted is owned by exactly one frame,
  which will emit or erase it, and is used only as that frame relies on (`Ownership`,
  `FramesFit`); frames that emit code run only where code can be reached (`Reachable`); the
  break and continue destinations are those of the loops on the stack, in order
  (`DestsMatch`, `ContinuesFit`); branches thread cleanups that are there (`BranchFits`); and
  the scopes on the stack reach down to the parameters' cleanups and no further (`ScopesFit`).
  Without ownership a block could be left without terminator when the last frame is gone;
  without the loops' order a `break` could go to a block that was erased. The proof has a
  lemma for each frame, over lemmas that say what replacing the first frame does to each part.
  When the stack is empty nothing is owned, so everything is emitted and terminated:
  `FunctionComplete`. `RunInv` adds that the machine which executes the finished code is at
  one of its instructions. That the visitors keep `WellFormed` closes the gap that
  `SILBuilderProofs` leaves: the contract its client is assumed to keep is kept by SILGen.
- `SILMemoryProofs`: `SILGenKeepsMemory`, that is `MemoryDiscipline`, for any set of programs in
  which no variable is declared again in its own scope. What a block of the finished code does
  depends on the memory it starts with, and the branches to it are emitted by visitors that are
  long done, or not begun, when the block is. The invariant `MemInv` therefore says that there
  is an account of the code emitted so far (`Accounts`): the memory before every instruction
  and at the end of every block, such that each instruction finds what it needs and each
  branch leaves the memory its target starts with. It exists before the code is complete,
  because a block that is empty can start with anything; a visitor that creates a block
  decides what it starts with (`Ready`). And it says that every frame on the stack has a
  scope, a list of different variables, which is the cleanup stack there will be when the
  frame runs (`ScopesOf`): binding a variable, ending a scope and leaving a brace change it
  in the one way `After` allows, a frame that will emit a block, or branch back to one,
  finds the block to start with exactly the variables of its scope (`FrameScope`), and a
  `break` or `continue` that pops to the depth of its destination leaves the scope of the
  frame that ends that loop (`DestScope`). Without the scopes of frames that wait, nothing
  ties the cleanups a jump pops to those its target expects. There is a lemma for each
  frame, as in `SILGenProofs`, whose lemmas about the stack it builds on. `MemRunInv` then
  follows the execution: the memory is always what the account says it is there.
- `SILMeaningProofs`: `SILGenIsFaithful` and `SILGenKeepsScopes`, that is `SameObservations` and
  `LiveIsInScope`, for any set of programs in which no `continue` belongs to a `do`-`while`
  (`NoDoContinue`). Without that hypothesis the first is false, as `silgen_docontinue` shows;
  `LoweredAssumption` in `MCSILGen` shows that the programs of `silgen` satisfy it. A point is
  a state of the source together with the variables the code has allocated by then. The
  invariant `SrcInv` says that there is a point for the start of every block such that each
  instruction emitted so far leads from point to point as the source does, by the same event
  or silently, and each branch to where its target starts (`Tells`, `Conducts`). As with the
  memory, the points exist before the code is complete: a visitor that creates a block says
  what of the source is left there. For the frames on the stack there are ghosts: what is
  left of the source, the cleanups and the destinations there will be before each of them
  runs, linked by what the frame lowers (`Lowers`, `Leads`), down to an empty source. A jump
  takes code and source to the same place because the ghosts of the loops on the stack say
  where each destination continues (`Exits`); that is what `continue` in a `do`-`while` breaks.
  There is a lemma for each visitor. `MeaningRunInv` then follows the two machines
  (`Together`): from the source's state at the next instruction's point, silent steps lead
  to where the source is. The source is deterministic, so where it waits for an event it
  waits for that of the code (`WaitsOnce`). The theorems say what happens when both wait;
  that neither goes on for ever without an event is a liveness property and not proved.
- `OptimizeARCProofs`: `ArcKeepsIterator` and `ArcStaysCanonical`, for any blocks, of any
  length. The inductive invariant `ArcInv` says that the block is `Sound` (identities differ,
  the terminator is last); that before the iterator of canonicalization, everywhere during
  the optimizations, and from the iterator of the expansion on no retain returns its
  argument; and that the identity of a triple that canonicalization may still build is free
  (`Fresh`). Erasure and the replacement of a call thin the block in order (`Thins`), motion
  permutes it (`Permutes`), and both leave the terminator, so what a walk goes on from is
  there: that is where the proof needs that the elimination of an object steps over what it
  erases and never erases the `ret`, and that a pair of a retain and a release does not
  involve the instruction behind it. `NthIs` counts the positions a set keeps, by a least
  counterexample (`Least`), which stands in for induction.
- `RuntimeAllocProofs`, on size classes: `ClassFits`, for both pointer sizes and every request of up to a page:
  the class exists and its blocks are large enough. The lemmas give the bounds of each group
  of classes and show that both tables cut at the same places.
- `RuntimeAllocProofs`, on the caches: `AllocTypes`, `AllocOneHolder`, `AllocBigEnough` and
  `AllocReturnsZeroed`, for any threads, blocks and sizes. `AllocInv` states that lists are
  disjoint and without repetition, that what is in them is not in use, and that what is in use or in a list is not at the C library.
  `FitInv` adds that a block in a list is as large as the list's class: without it nothing
  is known of a block when it is popped. `AllocBigEnough` assumes `ExactSizes`: sizes only
  known at run time are class sizes or larger than a page. The run `alloc_slow` shows
  that the assumption is needed. `AllocReturnsZeroed` assumes `SingleLists`, that no list of
  the zeroed pool ever holds two blocks, and the run `alloc_zero` shows that this is needed.
  It uses `ListsLinked`: in a list of the zeroed pool each block is zero but for the link to
  the next one, and the last is zero. To say only that none holds data would not do: the pop
  leaves the link in the block it hands out, and what a client finds there depends on whether
  the block was the last.
- `RuntimeMemoryProofs`: `RuntimeAlloc` implements `Memory` under the mapping of
  `RuntimeMemory`, each action being a step of `Memory` or none: `AllocKeepsMemoryPastLink` for
  what lies past the first word of a block, `AllocKeepsMemory` for whole blocks if
  `SingleLists` always holds, both under `ExactSizes`. The lemmas are about either view (their
  `link` is what the pointer in the first word counts as) and meet `SingleLists` only where a
  block is popped. They use the two invariants above and `ListsLinked`, and that every block
  has the size of some request.
- `HeapObjectsProofs`: `HeapCounts`, `HeapProtected` and `HeapStops`, for any threads, objects,
  variables, kinds and width of the word. The inductive invariant says, until a count
  carries, that a count is the number of places that hold the object. That alone is not
  inductive: a plain update overwrites what others did since it read. So it also says that an
  object without the atomic bit is only held by places of the thread that allocated it, and
  of objects that are so themselves (`Confined`), that what a call in progress has read is
  still the count (`CallsSound`), and what a destroy function at each stage has taken and
  not given back (`Destroyed`), from which the count is never zero again while it runs.
  `HeapStops` follows with the action property: a release finds its own reference counted.

Assumptions on constants: `MaxBlockAssumption`, `StatementAssumption` (the statements are those
of the grammar, and a condition that is tested has a name), `ProgramAssumption` (a function body is a brace statement of theirs),
`ScopeAssumption` (a declaration is not inside its own scope again: each `VarDecl` is in one
pattern, `Pattern.h:198`; and bodies and arms are braces or, after an `else`, an `if`, as
`parseStmtIf`, `parseStmtWhile`, `parseStmtDoWhile` and both forms of `for` make them; the same name in
two arms, or in a loop that is entered again, is allowed),
`PointerSizeAssumption`, `BytesAssumption`, `BoundsAssumption`, `HeapAssumption`, and
`BlocksAssumption` (a block's instructions are numbered and end in a `ret`). TLC evaluates them
in the runs. `NoDoContinue` is a hypothesis of the two theorems of `SILMeaningProofs`, not an
assumption of a module: the other theorems about SILGen hold without it.

Only model-checked:

- of SILGen, on which functions exactly an assertion fails (`AssertionsTripExactly` describes
  the shapes by recursion); functions with a `continue` in a `do`-`while` do not do what the
  source says, and only the proofs about completeness, assertions and memory cover them;
- IRGen, the parser and the solver, whose operators are recursive or go through a function
  as large as the language; the solver's and the parser's properties compare with recursive
  definitions;
- of the ARC optimizer `MeaningKept`: it quantifies over executions of two blocks;
- liveness (`GenerationEnds`, `CodeAnswers`, `SolverStops`, `PassesEnd`, `DestructionEnds`),
  which TLAPS does not reach under fairness.

The recursive operators are in modules that no proof uses.

## Not modelled, and what comes next

In this order:

1. The metadata caches (`runtime/Metadata.cpp`) against "one metadata for one key", and tuple
   layout against a reference definition.
2. `ArchetypeBuilder`: representatives and requirements, against the closure of the declared
   requirements; `TypeCheckProtocol`: the table of known conformances during recursion.
3. The rest of the solver: func expressions, new arrays, array types, generic classes,
   `TypeMember` constraints, and the application of a solution to the expression.
4. The ARC passes across blocks (`SSAUpdater` in the expansion), and the alias analysis.
5. More proofs: `IRGenRun`'s `WellFormed`, with the ownership argument of `SILGenProofs`, and
   the type invariant of the solver.
6. Constructors in IRGen (whose end branches without asking whether it is reachable,
   `GenConstructor.cpp:67`), tuple initialization by a call, and control flags.
7. In the runtime: an object that its destructor stores somewhere and that is freed all the
   same (`GenClass.cpp:240`; the model's destructors give back what they take), the portable
   entry points, and the retry loop of an allocation that may not fail (`Alloc.cpp:160`), for
   which nothing promises progress.
8. In-flight diagnostics, the lookup caches, `DiverseStack`, `StructLayout`, the mangler's
   substitution table.

Left out for good: the type checker's rules outside the solver, the lexer's characters,
printers, emission of metadata and witness tables, the Objective-C bridge, the standard
library and the REPL: they have little state of their own, are too wide for a checkable
model, or lean on code outside the repository. These are most of the implementation's
lines, and the map covers about a seventh of them.
