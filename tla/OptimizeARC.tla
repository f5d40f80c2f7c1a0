------------------------------ MODULE OptimizeARC ------------------------------
(***************************************************************************)
(* The reference counting passes of lib/IRGen/OptimizeARC.cpp on one basic *)
(* block: swift-arc-optimize (canonicalization, then one walk with three   *)
(* optimizations) and, much later, swift-arc-expand (retains that return   *)
(* their argument, then swift_retainAndReturnThree).  An action is what a  *)
(* pass does with the instruction its iterator points at.                  *)
(***************************************************************************)
EXTENDS ARCInstructions

CONSTANTS
    Blocks,     \* the blocks to optimize
    Dtors,      \* destructors: whether readonly, and their instructions, on "this"
    Names       \* the value the expansion makes of the retain with an identity

\* An instruction's identity is where it comes in; a block ends in a terminator.
ASSUME BlocksAssumption ==
    \A block \in Blocks :
        /\ block # << >> /\ block \in Seq(Range(block))
        /\ \A p \in DOMAIN block : IsInstruction(block[p]) /\ block[p].id = p
        /\ block[Len(block)].op = "ret"

VARIABLES
    given,      \* the block as it came in
    code,       \* the block as it is
    pass,       \* "canonicalize", "optimize", "expand", "return" or "done"
    next,       \* the instruction the pass visits next, or End
    local,      \* LocalUpdates of performARCExpansion: pairs of a value and its newest name
    crash       \* a pass met what it asserts is canonicalized away

vars == <<given, code, pass, next, local, crash>>

Init ==
    /\ given \in Blocks
    /\ code = given
    /\ pass = "canonicalize" /\ next = given[1].id
    /\ local = {} /\ crash = FALSE

I    == code[At(code, next)]
Here == At(code, next)
Then == After(code, next)

Visit(p) == ~crash /\ pass = p /\ next # End
Keep     == UNCHANGED <<given, pass, local, crash>>

-----------------------------------------------------------------------------
(* canonicalizeInputFunction                                               *)
NullsOut == {"RetainNoResult", "Release", "ObjCRelease"}

DeleteNull ==
    /\ Visit("canonicalize") /\ Classify(I) \in NullsOut /\ Subject(I) = Null
    /\ code' = Without(code, next) /\ next' = Then
    /\ Keep

\* Mutant: only a retain whose result nobody uses.
CanonicalizeRetain_Unused ==
    /\ Visit("canonicalize") /\ Classify(I) = "Retain"
    /\ IF Users(code, I.def) = {}
       THEN /\ code' = [code EXCEPT ![Here].op = "retain_noresult", ![Here].def = ""]
            /\ UNCHANGED next
       ELSE next' = Then /\ UNCHANGED code
    /\ Keep

\* x = swift_retain(y) becomes a retain without result, which is visited again.
CanonicalizeRetain ==
    /\ Visit("canonicalize") /\ Classify(I) = "Retain"
    /\ code' = [ReplaceUses(code, I.def, Subject(I)) EXCEPT
                   ![Here].op = "retain_noresult", ![Here].def = ""]
    /\ UNCHANGED next /\ Keep

\* updateCallValueUses: only the first extract of a word is looked through.
LookThrough(block, call, word) ==
    LET extracts == {p \in DOMAIN block : /\ block[p].op = "extract" /\ block[p].tag = word
                                          /\ block[p].args = <<call.def>>}
        first    == block[FirstOf(extracts)]
    IN  IF extracts = {} THEN block
        ELSE Without(ReplaceUses(block, first.def, call.args[1 + word]), first.id)

\* Uses of the triple that are left get one built from the three arguments.
CanonicalizeRetainThree ==
    /\ Visit("canonicalize") /\ Classify(I) = "RetainAndReturnThree"
    /\ \E one \in {LookThrough(code, I, 1)} : \E two \in {LookThrough(one, I, 2)} :
       \E through \in {LookThrough(two, I, 3)} :
         LET retain == [I EXCEPT !.op = "retain_noresult", !.def = "", !.args = <<Subject(I)>>]
             triple == [I EXCEPT !.op = "pack", !.args = Tail(I.args), !.id = Len(given) + I.id]
             rest   == IF Users(through, I.def) = {} THEN << >> ELSE <<triple>>
             call   == At(through, next)
         IN  code' = SubSeq(through, 1, call - 1) \o <<retain>> \o rest
                       \o SubSeq(through, call + 1, Len(through))
    /\ UNCHANGED next /\ Keep

CanonicalizeObjCRetain ==
    /\ Visit("canonicalize") /\ Classify(I) = "ObjCRetain"
    /\ LET block == [ReplaceUses(code, I.def, Subject(I)) EXCEPT ![Here].def = ""]
       IN  code' = IF Subject(I) = Null THEN Without(block, next) ELSE block
    /\ next' = Then /\ Keep

CanonicalAlready ==
    /\ Visit("canonicalize")
    /\ Classify(I) \notin NotCanonical \cup {"ObjCRetain"}
    /\ Classify(I) \in NullsOut => Subject(I) # Null
    /\ next' = Then /\ UNCHANGED code /\ Keep

-----------------------------------------------------------------------------
(* performLocalReleaseMotion                                               *)
\* Mutant: a release moves past anything that does not mention the object.
StopsRelease_OnlyMentions(i, object) ==
    i.def = object \/ object \in Range(i.args)

StopsRelease(i, object) ==
    \/ i.def = object
    \/ Classify(i) \in {"RetainNoResult", "AllocObject", "Unknown", "ObjCRelease", "ObjCRetain"}
    \/ Classify(i) = "Release" /\ Subject(i) = object

Stopped(object) == {p \in 1..Here-1 : StopsRelease(code[p], object)}
Protects(i, object) ==
    i.def # object /\ Classify(i) = "RetainNoResult" /\ Subject(i) = object

ReleaseMotion ==
    /\ Visit("optimize") /\ Classify(I) = "Release"
    /\ LET stops == Stopped(Subject(I))
           last  == IF stops = {} THEN 0 ELSE LastOf(stops)
           met   == \E p \in last+1..Here-1 : Classify(code[p]) \in NotCanonical
       IN  /\ crash' = met
           /\ code' = IF last # 0 /\ Protects(code[last], Subject(I))
                      THEN Without(Without(code, next), code[last].id)
                      ELSE MoveUp(code, Here, last + 1)
    /\ next' = Then
    /\ UNCHANGED <<given, pass, local>>

-----------------------------------------------------------------------------
(* performLocalRetainMotion, of swift_retain_noresult and of objc_retain    *)
StopsRetain(i) ==
    \/ Classify(i) \in {"Release", "ObjCRelease", "ObjCRetain"} \cup NotCanonical
    \/ Classify(i) = "Unknown" /\ i.op \notin Accesses

Undoes(i, retain) ==
    /\ Classify(i) = IF Classify(retain) = "ObjCRetain" THEN "ObjCRelease" ELSE "Release"
    /\ Subject(i) = Subject(retain)

\* Mutant: moving a retain over another one counts.
Progress_AnyMove(positions) == positions # {}

\* Moving it over other retains alone is no progress.
Progress(positions) == \E p \in positions : Classify(code[p]) # "RetainNoResult"

RetainMotion ==
    /\ Visit("optimize") /\ Classify(I) \in {"RetainNoResult", "ObjCRetain"}
    /\ LET stop  == FirstOf({p \in Here+1..Len(code) : p = Len(code) \/ StopsRetain(code[p])})
           pairs == Undoes(code[stop], I)
           moves == Progress(Here+1..stop-1)
           moved == IF pairs THEN Without(Without(code, next), code[stop].id)
                    ELSE IF moves THEN MoveDown(code, Here, stop) ELSE code
           safe  == Before(code, next)
       IN  /\ code' = moved
           /\ crash' = (Classify(code[stop]) \in NotCanonical)
           /\ next' = IF ~(pairs \/ moves) THEN Then
                      ELSE IF safe = End THEN IdAt(moved, 1) ELSE After(moved, safe)
    /\ UNCHANGED <<given, pass, local>>

-----------------------------------------------------------------------------
(* performStoreOnlyObjectElimination                                       *)
\* analyzeDestructor, for a destructor whose body is known.
HarmlessInDtor(i) ==
    \/ Classify(i) \in {"NoMemoryAccessed", "AllocObject"}
    \/ Classify(i) \in {"Retain", "RetainAndReturnThree", "RetainNoResult", "Release"}
         /\ Subject(i) = "this"
    \/ i.op = "load"
    \/ i.op = "store" /\ i.args[2] = "this"
    \/ i.op = "memcpy" /\ i.args[1] = "this"

NoSideEffects(dtor) == dtor.readonly \/ \A i \in Range(dtor.body) : HarmlessInDtor(i)

\* The values the walk over the uses of a value reaches; a store or a memcpy
\* ends it, and so does the first use that keeps the object.
Derived(object) ==
    FoldLeft(LAMBDA vs, i : IF i.op \notin {"store", "memcpy"} /\ Range(i.args) \cap vs # {}
                            THEN vs \cup {i.def} ELSE vs, {object}, code) \ {""}
Involved(object) ==
    {i \in Range(code) : i.def = object \/ Range(i.args) \cap Derived(object) # {}}

\* store source, destination; memcpy destination, source
Source(i) == i.args[IF i.op = "store" THEN 1 ELSE 2]

Eliminable(i, object) ==
    IF i.op \in {"store", "memcpy"} THEN Source(i) \notin Derived(object)
    ELSE /\ Classify(i) \in {"NoMemoryAccessed", "AllocObject", "Release", "RetainNoResult"}
         /\ i.op # "ret"

\* Mutant: it does not.
SteppedOver_Never(ids) == Then

\* The iterator of the walk steps over what goes.
SteppedOver(ids) ==
    IdAt(code, FirstOf({p \in Here+1..Len(code) : code[p].id \notin ids}))

StoreOnly ==
    /\ Visit("optimize") /\ Classify(I) = "AllocObject"
    /\ LET involved == Involved(I.def)
           ids      == {i.id : i \in involved}
           zap      == /\ NoSideEffects(Dtors[I.tag])
                       /\ \A i \in involved : Eliminable(i, I.def)
       IN  /\ code' = IF zap THEN Erase(code, ids) ELSE code
           /\ next' = IF zap THEN SteppedOver(ids) ELSE Then
    /\ Keep

NothingToOptimize ==
    /\ Visit("optimize")
    /\ Classify(I) \notin {"AllocObject", "Release", "RetainNoResult", "ObjCRetain"}
    /\ next' = Then /\ UNCHANGED code /\ Keep

-----------------------------------------------------------------------------
(* performARCExpansion.  With one block, every use is rewritten here and    *)
(* none is left to the SSAUpdater.                                          *)
Newest(v) == IF \E u \in local : u[1] = v THEN (CHOOSE u \in local : u[1] = v)[2] ELSE v

ExpandRetain ==
    /\ Visit("expand") /\ Classify(I) \in {"RetainNoResult", "RetainAndReturnThree"}
    /\ LET object == Subject(I)
           name   == Names[next]
       IN  /\ code' = [code EXCEPT ![Here] = [@ EXCEPT !.op = "retain", !.def = name,
                                                       !.args = <<Newest(object)>>]]
           /\ local' = IF object \notin Defined(code) THEN local
                       ELSE {u \in local : u[1] # object} \cup {<<object, name>>}
    /\ next' = Then
    /\ UNCHANGED <<given, pass, crash>>

ExpandOther ==
    /\ Visit("expand") /\ Classify(I) \notin {"RetainNoResult", "RetainAndReturnThree"}
    /\ crash' = (Classify(I) = "Retain")
    /\ code' = [code EXCEPT ![Here].args = [a \in DOMAIN @ |-> Newest(@[a])]]
    /\ next' = Then
    /\ UNCHANGED <<given, pass, local>>

-----------------------------------------------------------------------------
(* optimizeReturn3                                                         *)
Return == code[Len(code)]
Triple == {i \in Range(code) : i.op = "pack" /\ Return.args = <<i.def>>}

\* The retains before the return with nothing but pure instructions between.
RetainsAtReturn ==
    {p \in DOMAIN code : /\ Classify(code[p]) = "Retain"
                         /\ \A q \in p..Len(code) : Classify(code[q]) \in {"Retain", "NoMemoryAccessed"}}

\* The first retain of a returned value, or of what one returns.
RetainsOf(v) == {p \in RetainsAtReturn : Subject(code[p]) = v}
Sources(v)   == {Subject(i) : i \in {r \in Range(code) : r.def = v /\ Classify(r) = "Retain"}}
Candidates(v) == IF RetainsOf(v) # {} THEN RetainsOf(v)
                 ELSE UNION {RetainsOf(u) : u \in Sources(v)}

ReturnThree ==
    /\ ~crash /\ pass = "return"
    /\ \E pack \in Triple :
         LET found == {w \in 1..3 : Candidates(pack.args[w]) # {}}
             p     == FirstOf(Candidates(pack.args[FirstOf(found)]))
             r     == code[p]
             call  == [r EXCEPT !.op = "retain3", !.def = "t",
                                !.args = <<Subject(r)>> \o pack.args]
             word  == <<"t1", "t2", "t3">>
             split == [w \in 1..3 |-> [Instruction("extract", word[w], <<"t">>, w)
                                          EXCEPT !.id = 2 * Len(given) + w]]
             whole == [pack EXCEPT !.args = word, !.def = "t4", !.id = 2 * Len(given) + 4]
             kept  == SelectSeq(Front(code), LAMBDA i : i # r /\ (i = pack => Users(code, pack.def) # {Return}))
         IN  IF found = {} THEN UNCHANGED code
             ELSE code' = ReplaceUses(kept \o <<call>> \o split
                                        \o <<whole, [Return EXCEPT !.args = <<"t4">>]>>,
                                      r.def, Subject(r))
    /\ pass' = "done"
    /\ UNCHANGED <<given, next, local, crash>>

OtherReturn ==
    /\ ~crash /\ pass = "return" /\ Triple = {}
    /\ pass' = "done"
    /\ UNCHANGED <<given, code, next, local, crash>>

-----------------------------------------------------------------------------
NextPass(p) ==
    CASE p = "canonicalize" -> "optimize" [] p = "optimize" -> "expand" [] p = "expand" -> "return"

\* runOnFunction of the two passes.
EndOfBlock ==
    /\ ~crash /\ next = End /\ pass \in {"canonicalize", "optimize", "expand"}
    /\ pass' = NextPass(pass)
    /\ next' = IF pass' = "return" THEN End ELSE code[1].id
    /\ UNCHANGED <<given, code, local, crash>>

Next ==
    \/ DeleteNull \/ CanonicalizeRetain \/ CanonicalizeRetainThree
    \/ CanonicalizeObjCRetain \/ CanonicalAlready
    \/ StoreOnly \/ ReleaseMotion \/ RetainMotion \/ NothingToOptimize
    \/ ExpandRetain \/ ExpandOther \/ ReturnThree \/ OtherReturn
    \/ EndOfBlock
    \/ pass = "done" /\ UNCHANGED vars

Spec == Init /\ [][Next]_vars /\ WF_vars(Next)

-----------------------------------------------------------------------------
\* The iterator of a walk never points at an instruction that is gone,
\* although the optimizations erase and move instructions before and behind it
\* (OptimizeARC.cpp:906, 944).
IteratorValid == next \in Ids(code) \cup {End}

\* What canonicalization promises the passes behind it, which assert that no
\* retain with a result is left (OptimizeARC.cpp:466, 591, 832, 1202).
StaysCanonical == ~crash
===============================================================================
