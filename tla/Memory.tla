-------------------------------- MODULE Memory --------------------------------
(***************************************************************************)
(* What the runtime promises of plain memory (runtime/Alloc.h): a thread   *)
(* asks for so many bytes, to be zero filled or not, and gets a block      *)
(* nobody holds, with room for them, or, if it said it could do without,   *)
(* nothing.  Where blocks come from is left open.                          *)
(***************************************************************************)
EXTENDS Integers

CONSTANTS
    Thread, Block,
    Bytes,      \* what may be asked for
    Room        \* how large blocks may be

VARIABLES
    held,       \* the size a client holds a block for, or Nobody
    room,       \* how large a held block is
    content,    \* what is in a held block
    asked       \* what a thread is waiting for, or Nothing

memory == <<held, room, content, asked>>

Nobody == -1
Nothing == [bytes |-> 0, pool |-> "none", try |-> FALSE]
Asks == [bytes : Bytes, pool : {"zeroed", "raw"}, try : BOOLEAN]

\* "The default API will wait for available memory and return zero filled", and
\* "The "raw" flag allocates uninitialized memory".
MayHold(pool) == IF pool = "zeroed" THEN {"zero"} ELSE {"zero", "data"}

AskMemory(t) ==
    /\ asked[t] = Nothing
    /\ \E a \in Asks : asked' = [asked EXCEPT ![t] = a]
    /\ UNCHANGED <<held, room, content>>

Grant(t, b, size) ==
    /\ asked[t] # Nothing /\ held[b] = Nobody
    /\ size >= asked[t].bytes
    /\ held' = [held EXCEPT ![b] = asked[t].bytes]
    /\ room' = [room EXCEPT ![b] = size]
    /\ \E w \in MayHold(asked[t].pool) : content' = [content EXCEPT ![b] = w]
    /\ asked' = [asked EXCEPT ![t] = Nothing]

Fail(t) ==
    /\ asked[t].try
    /\ asked' = [asked EXCEPT ![t] = Nothing]
    /\ UNCHANGED <<held, room, content>>

Fill(b) ==
    /\ held[b] # Nobody
    /\ content' = [content EXCEPT ![b] = "data"]
    /\ UNCHANGED <<held, room, asked>>

GiveBack(b) ==
    /\ held[b] # Nobody
    /\ held' = [held EXCEPT ![b] = Nobody]
    /\ room' = [room EXCEPT ![b] = 0]
    /\ content' = [content EXCEPT ![b] = "none"]
    /\ UNCHANGED asked

MemoryInit ==
    /\ held = [b \in Block |-> Nobody]
    /\ room = [b \in Block |-> 0]
    /\ content = [b \in Block |-> "none"]
    /\ asked = [t \in Thread |-> Nothing]

MemoryNext ==
    \/ \E t \in Thread : AskMemory(t) \/ Fail(t) \/ \E b \in Block, size \in Room : Grant(t, b, size)
    \/ \E b \in Block : Fill(b) \/ GiveBack(b)

MemorySpec == MemoryInit /\ [][MemoryNext]_memory

=============================================================================
