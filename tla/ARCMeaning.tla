------------------------------ MODULE ARCMeaning ------------------------------
(***************************************************************************)
(* What a block does: it runs on counted objects, each of which has one    *)
(* field that may hold another.  The runtime's swift_retain and            *)
(* swift_release count; an object whose count reaches zero is destroyed,   *)
(* and nothing may touch it any more.  Observed are the stores and calls   *)
(* on objects from outside, the objects destroyed between two of these, in *)
(* no order, what is returned, and the counts that are left.               *)
(***************************************************************************)
EXTENDS ARCInstructions

CONSTANTS
    Dtors,      \* as in OptimizeARC
    Contexts    \* what the block may find: see Enter

\* The objects that are there before, and the allocated ones, named by the
\* value that is their allocation.
Outer   == {"o1", "o2"}
Fresh   == {"a"}
Objects == Outer \cup Fresh

\* A context gives the parameters their objects, the objects their counts,
\* fields and destructors, and says whether a global variable holds one of
\* the counts of o1.
Enter(context) ==
    [env    |-> {<<v, context.params[v]>> : v \in DOMAIN context.params} \cup {<<Null, Null>>, <<"k", Undef>>},
     agg    |-> {},
     count  |-> [o \in Objects |-> IF o \in Outer THEN context.count[o] ELSE 0],
     field  |-> [o \in Objects |-> IF o \in Outer THEN context.field[o] ELSE Null],
     dtor   |-> [o \in Objects |-> IF o \in Outer THEN context.dtor[o] ELSE "none"],
     global |-> context.global,
     ok     |-> TRUE,
     died   |-> {},
     events |-> << >>]

Value(s, v) == IF \E b \in s.env : b[1] = v THEN (CHOOSE b \in s.env : b[1] = v)[2] ELSE Undef
Bind(s, v, o) == IF v = "" THEN s ELSE [s EXCEPT !.env = @ \cup {<<v, o>>}]

Alive(s, o) == o = Null \/ (o \in Objects /\ s.count[o] > 0)
Must(s, cond) == [s EXCEPT !.ok = @ /\ cond]

\* swift_retain, objc_retain
Retain(s, o) ==
    IF o = Null THEN s
    ELSE IF o \notin Objects THEN Must(s, FALSE)
    ELSE Must([s EXCEPT !.count[o] = @ + 1], s.count[o] > 0)

Does(dtor, op) == \E i \in Range(dtor.body) : i.op = op /\ i.args # <<"this">>

\* swift_release and _swift_release_slow: the destructor may release what the
\* object holds, and is an event when anyone can see it.
RECURSIVE Release(_, _)
Release(s, o) ==
    IF o = Null THEN s
    ELSE IF o \notin Objects THEN Must(s, FALSE)
    ELSE LET less == Must([s EXCEPT !.count[o] = @ - 1], s.count[o] > 0)
             dtor == Dtors[s.dtor[o]]
             dead == IF Does(dtor, "call") THEN [less EXCEPT !.died = @ \cup {o}] ELSE less
         IN  IF less.count[o] # 0 \/ ~less.ok THEN less
             ELSE IF Does(dtor, "release") THEN Release(dead, s.field[o]) ELSE dead

Event(s, what, objects) ==
    [s EXCEPT !.events = Append(@, [what |-> what, on |-> objects, died |-> s.died]), !.died = {}]

\* Memory of fresh objects is seen by nobody else.
Seen(s, what, o) == IF o \in Outer THEN Event(s, what, <<o>>) ELSE s

Usable(s, o) == Must(s, o \in Objects /\ Alive(s, o))

\* Callees: "uses" looks at its argument, "takes" releases it, "drops"
\* empties the global variable.
Call(s, i) ==
    LET o    == IF i.args = << >> THEN Null ELSE Value(s, i.args[1])
        seen == Event(Must(s, Alive(s, o)), i.tag, <<o>>)
    IN  CASE i.tag = "uses"  -> seen
          [] i.tag = "takes" -> Release(seen, o)
          [] i.tag = "drops" -> IF s.global THEN Release([seen EXCEPT !.global = FALSE], "o1") ELSE seen

Words(s, v) == (CHOOSE b \in s.agg : b[1] = v)[2]
Values(s, args) == [a \in DOMAIN args |-> Value(s, args[a])]

Step(s, i) ==
    LET arg(n) == Value(s, i.args[n])
    IN  IF ~s.ok THEN s ELSE
        CASE i.op = "compute"     -> s
          [] i.op = "cast"        -> Bind(s, i.def, arg(1))
          [] i.op = "select"      -> Bind(s, i.def, arg(2))
          [] i.op = "extract"     -> Bind(s, i.def, Words(s, i.args[1])[i.tag])
          [] i.op = "pack"        -> [s EXCEPT !.agg = @ \cup {<<i.def, Values(s, i.args)>>}]
          [] i.op = "ret"         -> Event(s, "return", IF i.args = << >> THEN << >> ELSE Words(s, i.args[1]))
          [] i.op = "alloc"       -> [Bind(s, i.def, i.def) EXCEPT !.count[i.def] = 1, !.dtor[i.def] = i.tag]
          [] i.op \in {"retain", "retain_noresult", "objc_retain"} -> Bind(Retain(s, arg(1)), i.def, arg(1))
          [] i.op = "retain3"     -> [Retain(s, arg(1)) EXCEPT
                                        !.agg = @ \cup {<<i.def, Values(s, Tail(i.args))>>}]
          [] i.op \in {"release", "objc_release"} -> Release(s, arg(1))
          [] i.op = "load"        -> Bind(Usable(s, arg(1)), i.def, IF arg(1) \in Objects THEN s.field[arg(1)] ELSE Undef)
          [] i.op = "store"       -> LET t == Seen(Usable(s, arg(2)), "store", arg(2))
                                     IN  IF arg(1) = Undef \/ ~t.ok THEN t
                                         ELSE [t EXCEPT !.field[arg(2)] = arg(1)]
          [] i.op = "memcpy"      -> LET t == Seen(Usable(Usable(s, arg(1)), arg(2)), "store", arg(1))
                                     IN  IF ~t.ok THEN t ELSE [t EXCEPT !.field[arg(1)] = s.field[arg(2)]]
          [] i.op = "call"        -> Call(s, i)

Run(block, context) == FoldLeft(Step, Enter(context), block)

\* What is left: objects from outside, and what they or the caller got.
Left(s) == LET kept == {o \in Outer : s.count[o] > 0}
               held == {s.field[o] : o \in kept} \cup Range(Last(s.events).on)
           IN  [events |-> s.events,
                count  |-> [o \in kept \cup (held \cap Fresh) |-> s.count[o]],
                field  |-> [o \in kept |-> s.field[o]]]

\* Wherever one block runs without touching a destroyed object, the other
\* does, and no one sees a difference.
Refines(block, original) ==
    \A c \in Contexts :
        LET before == Run(original, c)
            after  == Run(block, c)
        IN  before.ok => after.ok /\ Left(after) = Left(before)
===============================================================================
