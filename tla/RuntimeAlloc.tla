----------------------------- MODULE RuntimeAlloc -----------------------------
(***************************************************************************)
(* Plain memory in the runtime (runtime/Alloc.cpp, FastEntryPoints.s): a   *)
(* thread keeps, for each size class, one list of zeroed blocks and one of *)
(* raw blocks; a request for a known size pops its list and falls back to  *)
(* the C library, a release pushes the block, and the slow entry points    *)
(* serve sizes the compiler does not know.                                 *)
(***************************************************************************)
EXTENDS SizeClasses

CONSTANTS
    Thread,
    Block,          \* bound: the addresses the C library hands out
    KnownBytes,     \* sizes the compiler knows: it uses a token if there is one
    DynamicBytes    \* sizes only known when the program runs

ASSUME BytesAssumption == KnownBytes \subseteq Nat /\ DynamicBytes \subseteq Nat

VARIABLES
    cap,    \* the size a block was asked for at the C library, or Freed
    cache,  \* tsd->cache and tsd->rawCache of every thread: the blocks of each
            \* list, its head first
    used,   \* the size a client holds the block for, or Unused
    word,   \* what is in a block: "zero", "data", or "link", which is zero but
            \* for its first word, the next pointer of the list it was in
    want    \* the request a thread is in, or no request

vars == <<cap, cache, used, word, want>>

Freed == -1
Unused == -1
Pool == {"zeroed", "raw"}
Request == [bytes : KnownBytes \cup DynamicBytes, known : BOOLEAN,
            pool : Pool, try : BOOLEAN]
NoRequest == [bytes |-> 0, known |-> FALSE, pool |-> "none", try |-> FALSE]

\* A request for a known size that has a token uses the lists: there is one for
\* each thread, pool and class (of the classes the sizes at hand belong to).
ByToken(r) == r.known /\ Token(r.bytes) # NoToken
Class == {idx \in Index : \E b \in KnownBytes \cup DynamicBytes :
             idx = Token(b) \/ (b \in 1 .. Page /\ idx = IndexOf(b))}
Key == Thread \X Pool \X Class
ListOf(t, r) == <<t, r.pool, Token(r.bytes)>>
List(t, r) == cache[ListOf(t, r)]

\* emitAllocRawCall and the other callers choose the entry point.
Ask(t, r) ==
    /\ want[t] = NoRequest
    /\ r.bytes \in IF r.known THEN KnownBytes ELSE DynamicBytes
    /\ want' = [want EXCEPT ![t] = r]
    /\ UNCHANGED <<cap, cache, used, word>>

\* Mutant: the list keeps its head.
PopCache_KeepsHead(t) ==
    /\ ByToken(want[t]) /\ List(t, want[t]) # << >>
    /\ used' = [used EXCEPT ![Head(List(t, want[t]))] = want[t].bytes]
    /\ want' = [want EXCEPT ![t] = NoRequest]
    /\ UNCHANGED <<cap, word, cache>>

\* swift_alloc, swift_rawAlloc and the try variants with a block in the list.
PopCache(t) ==
    /\ ByToken(want[t]) /\ List(t, want[t]) # << >>
    /\ cache' = [cache EXCEPT ![ListOf(t, want[t])] = Tail(@)]
    /\ used' = [used EXCEPT ![Head(List(t, want[t]))] = want[t].bytes]
    /\ want' = [want EXCEPT ![t] = NoRequest]
    /\ UNCHANGED <<cap, word>>

Demand(r) == IF ByToken(r) THEN SizeOf(Token(r.bytes)) ELSE r.bytes
MustAsk(t) == want[t] # NoRequest /\ (ByToken(want[t]) => List(t, want[t]) = << >>)
Available == {b \in Block : cap[b] = Freed}

\* swift_slowAlloc gets memory.  FastEntryPoints.s pushes a new block on the
\* empty list and pops it again, which leaves a null next pointer in it.
SlowAlloc(t) ==
    /\ MustAsk(t)
    /\ \E b \in Available :
          /\ cap' = [cap EXCEPT ![b] = Demand(want[t])]
          /\ used' = [used EXCEPT ![b] = want[t].bytes]
          /\ word' = [word EXCEPT ![b] = IF want[t].pool = "raw" THEN "data" ELSE "zero"]
    /\ want' = [want EXCEPT ![t] = NoRequest]
    /\ UNCHANGED cache

\* There is none: a try request returns null, any other goes on asking.
GiveUp(t) ==
    /\ MustAsk(t) /\ Available = {} /\ want[t].try
    /\ want' = [want EXCEPT ![t] = NoRequest]
    /\ UNCHANGED <<cap, cache, used, word>>

\* The client writes to its block.
Write(b) ==
    /\ used[b] # Unused
    /\ word' = [word EXCEPT ![b] = "data"]
    /\ UNCHANGED <<cap, cache, used, want>>

\* Mutant: a raw block goes to the list of zeroed ones.
Push_OtherPool(t, b, pool, idx) ==
    /\ cache' = [cache EXCEPT ![<<t, "zeroed", idx>>] = <<b>> \o @]
    /\ word' = [word EXCEPT ![b] = IF pool = "raw" THEN "data"
                                   ELSE IF cache[<<t, pool, idx>>] = << >> THEN "zero"
                                   ELSE "link"]
    /\ UNCHANGED cap

\* swift_dealloc and swift_rawDealloc.
Push(t, b, pool, idx) ==
    /\ cache' = [cache EXCEPT ![<<t, pool, idx>>] = <<b>> \o @]
    /\ word' = [word EXCEPT ![b] = IF pool = "raw" THEN "data"
                                   ELSE IF cache[<<t, pool, idx>>] = << >> THEN "zero"
                                   ELSE "link"]
    /\ UNCHANGED cap

\* free.
Free(b) == cap' = [cap EXCEPT ![b] = Freed] /\ UNCHANGED <<cache, word>>

\* swift_slowDealloc and swift_slowRawDealloc.
SlowDealloc(t, b, pool, bytes) ==
    \/ (bytes = 0 \/ bytes > Page) /\ Free(b)
    \/ bytes \in 1 .. Page /\ Push(t, b, pool, IndexOf(bytes))

\* A client releases its block, on any thread: by token if it knows the size,
\* else slowly, with the size or with zero.  Who releases into the zeroed list
\* has zeroed the block.
Release(t, b, pool, known, bytes) ==
    /\ used[b] # Unused /\ want[t] = NoRequest
    /\ bytes \in {0, used[b]}
    /\ IF known /\ Token(used[b]) # NoToken
       THEN bytes = 0 /\ Push(t, b, pool, Token(used[b]))
       ELSE SlowDealloc(t, b, pool, bytes)
    /\ used' = [used EXCEPT ![b] = Unused]
    /\ UNCHANGED want

AllocInit ==
    /\ cap = [b \in Block |-> Freed]
    /\ cache = [key \in Key |-> << >>]
    /\ used = [b \in Block |-> Unused]
    /\ word = [b \in Block |-> "data"]
    /\ want = [t \in Thread |-> NoRequest]

AllocNext ==
    \/ \E t \in Thread :
          \/ \E r \in Request : Ask(t, r)
          \/ PopCache(t) \/ SlowAlloc(t) \/ GiveUp(t)
          \/ \E b \in Block, pool \in Pool, known \in BOOLEAN,
                bytes \in {0} \cup KnownBytes \cup DynamicBytes :
                Release(t, b, pool, known, bytes)
    \/ \E b \in Block : Write(b)

AllocSpec == AllocInit /\ [][AllocNext]_vars

-----------------------------------------------------------------------------
\* The types of the state; the lists only hold memory of the C library.
AllocTypeOK ==
    /\ cap \in [Block -> Nat \cup {Freed}]
    /\ cache \in [Key -> Seq(Block)]
    /\ used \in [Block -> KnownBytes \cup DynamicBytes \cup {Unused}]
    /\ word \in [Block -> {"zero", "link", "data"}]
    /\ want \in [Thread -> Request \cup {NoRequest}]

\* No memory is handed out twice: a block of a client is in no list, a block in
\* a list is in it once and in no other, whichever threads allocate and release
\* it and however they mix known and unknown sizes, and neither is back at the
\* C library.
OneHolder ==
    /\ \A key \in Key : \A j \in DOMAIN cache[key] :
          \A other \in Key : \A m \in DOMAIN cache[other] :
             cache[key][j] = cache[other][m] => key = other /\ j = m
    /\ \A key \in Key : \A j \in DOMAIN cache[key] :
          cap[cache[key][j]] # Freed /\ used[cache[key][j]] = Unused
    /\ \A b \in Block : used[b] # Unused => cap[b] # Freed

\* A block is as large as what its client asked for.
BigEnough == \A b \in Block : used[b] # Unused => cap[b] >= used[b]

\* What runtime/Alloc.h says of the default API, swift_slowAlloc and swift_alloc
\* and their try variants: the memory they return is zero filled.
ReturnsZeroed ==
    [][\A t \in Thread, b \in Block :
          /\ want[t].pool = "zeroed" /\ want'[t] = NoRequest
          /\ used[b] = Unused /\ used'[b] # Unused
          => word'[b] = "zero"]_vars

=============================================================================
