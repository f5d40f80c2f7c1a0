--------------------------- MODULE RuntimeMemoryProofs ---------------------------
(***************************************************************************)
(* The runtime's lists implement plain memory, for any number of threads   *)
(* and blocks and any sizes, under the condition of AllocBigEnough: past   *)
(* the first word of a block always, whole blocks if no list of the zeroed *)
(* pool ever holds two.  One fact joins the invariants of the proofs about *)
(* the lists: every block has the size of some request.                    *)
(***************************************************************************)
EXTENDS RuntimeMemory, RuntimeAllocProofs

RoomKnown == \A b \in Block : cap[b] # Freed => \E r \in Request : cap[b] = Demand(r)

SeenInv == ListsLinked /\ RoomKnown

-----------------------------------------------------------------------------
LEMMA InitSeen == AllocInit => SeenInv
<1>1. AllocInit => RoomKnown
  BY DEF AllocInit, RoomKnown
<1> QED BY <1>1, InitLinked DEF SeenInv

LEMMA SlowAllocSeen ==
    ASSUME AllocInv, RoomKnown, NEW t \in Thread, SlowAlloc(t)
    PROVE  RoomKnown'
<1>1. want[t] \in Request
  BY DEF AllocInv, AllocTypeOK, SlowAlloc, MustAsk
<1>2. PICK b \in Available : cap' = [cap EXCEPT ![b] = Demand(want[t])]
  BY DEF SlowAlloc
<1> SUFFICES ASSUME NEW a \in Block, cap'[a] # Freed
             PROVE  \E r \in Request : cap'[a] = Demand(r)
  BY DEF RoomKnown
<1>3. CASE a = b
  <2>1. cap'[a] = Demand(want[t])
    BY <1>2, <1>3 DEF AllocInv, AllocTypeOK
  <2> QED BY <1>1, <2>1
<1>4. CASE a # b
  <2>1. cap'[a] = cap[a]
    BY <1>2, <1>4 DEF AllocInv, AllocTypeOK
  <2> QED BY <2>1 DEF RoomKnown
<1> QED BY <1>3, <1>4

LEMMA ReleaseSeen ==
    ASSUME AllocInv, RoomKnown, NEW t \in Thread, NEW b \in Block, NEW pool \in Pool,
           NEW known \in BOOLEAN, NEW bytes, Release(t, b, pool, known, bytes)
    PROVE  RoomKnown'
<1>1. CASE Free(b)
  <2>1. cap' = [cap EXCEPT ![b] = Freed]
    BY <1>1 DEF Free
  <2> SUFFICES ASSUME NEW a \in Block, cap'[a] # Freed
               PROVE  \E r \in Request : cap'[a] = Demand(r)
    BY DEF RoomKnown
  <2>2. cap'[a] = cap[a]
    BY <2>1 DEF AllocInv, AllocTypeOK
  <2> QED BY <2>2 DEF RoomKnown
<1>2. ASSUME NEW idx, Push(t, b, pool, idx) PROVE RoomKnown'
  BY <1>2 DEF Push, RoomKnown
<1> QED BY <1>1, <1>2, ReleaseCases

LEMMA StepSeen == AllocInv /\ SeenInv /\ [AllocNext]_vars => SeenInv'
<1> SUFFICES ASSUME AllocInv, RoomKnown, [AllocNext]_vars PROVE RoomKnown'
  BY StepLinked DEF SeenInv
<1>1. ASSUME UNCHANGED cap PROVE RoomKnown'
  BY <1>1 DEF RoomKnown
<1>2. ASSUME NEW t \in Thread, NEW r \in Request, Ask(t, r) PROVE RoomKnown'
  BY <1>1, <1>2 DEF Ask
<1>3. ASSUME NEW t \in Thread, PopCache(t) PROVE RoomKnown'
  BY <1>1, <1>3 DEF PopCache
<1>4. ASSUME NEW t \in Thread, SlowAlloc(t) PROVE RoomKnown'
  BY <1>4, SlowAllocSeen
<1>5. ASSUME NEW t \in Thread, GiveUp(t) PROVE RoomKnown'
  BY <1>1, <1>5 DEF GiveUp
<1>6. ASSUME NEW t \in Thread, NEW b \in Block, NEW pool \in Pool,
             NEW known \in BOOLEAN, NEW bytes, Release(t, b, pool, known, bytes)
      PROVE  RoomKnown'
  BY <1>6, ReleaseSeen
<1>7. ASSUME NEW b \in Block, Write(b) PROVE RoomKnown'
  BY <1>1, <1>7 DEF Write
<1>8. CASE UNCHANGED vars
  BY <1>1, <1>8 DEF vars
<1> QED BY <1>2, <1>3, <1>4, <1>5, <1>6, <1>7, <1>8 DEF AllocNext

-----------------------------------------------------------------------------
(* Each step as the client sees it *)

LEMMA SeenInit == ASSUME NEW link, AllocInit PROVE M(link)!MemoryInit
<1>1. used = [b \in Block |-> M(link)!Nobody]
  BY DEF AllocInit, Unused, M!Nobody
<1>2. RoomSeen = [b \in Block |-> 0] /\ ContentSeen(link) = [b \in Block |-> "none"]
  BY DEF AllocInit, RoomSeen, ContentSeen
<1>3. AskedSeen = [t \in Thread |-> M(link)!Nothing]
  BY DEF AllocInit, AskedSeen, AsAsked, NoRequest, M!Nothing
<1> QED BY <1>1, <1>2, <1>3 DEF M!MemoryInit

\* What a client sees of an answered request.
LEMMA SeenRequest ==
    ASSUME NEW link, NEW t \in Thread
    PROVE  /\ want[t] = NoRequest => AskedSeen[t] = M(link)!Nothing
           /\ want[t] \in Request =>
                 /\ AskedSeen[t] # M(link)!Nothing
                 /\ AskedSeen[t].bytes = want[t].bytes
                 /\ AskedSeen[t].pool = want[t].pool
                 /\ AskedSeen[t].try = want[t].try
<1>1. AskedSeen[t] = AsAsked(want[t])
  BY DEF AskedSeen
<1>2. want[t] = NoRequest => AskedSeen[t] = M(link)!Nothing
  BY <1>1 DEF AsAsked, NoRequest, M!Nothing
<1>3. AskedSeen[t].pool = want[t].pool
  BY <1>1 DEF AsAsked
<1>4. want[t] \in Request => AskedSeen[t] # M(link)!Nothing
  BY <1>3 DEF Request, Pool, M!Nothing
<1> QED BY <1>1, <1>2, <1>3, <1>4 DEF AsAsked

\* A request that ends, seen from outside.
LEMMA SeenEnd ==
    ASSUME NEW link, AllocInv, NEW t \in Thread, want' = [want EXCEPT ![t] = NoRequest]
    PROVE  AskedSeen' = [AskedSeen EXCEPT ![t] = M(link)!Nothing]
<1>1. AsAsked(NoRequest) = M(link)!Nothing
  BY DEF AsAsked, NoRequest, M!Nothing
<1>2. \A u \in Thread : want'[u] = IF u = t THEN NoRequest ELSE want[u]
  BY DEF AllocInv, AllocTypeOK
<1>3. AskedSeen' = [u \in Thread |-> AsAsked(want'[u])]
  BY DEF AskedSeen
<1>4. AskedSeen' = [u \in Thread |-> IF u = t THEN M(link)!Nothing ELSE AsAsked(want[u])]
  BY <1>1, <1>2, <1>3
<1> QED BY <1>4 DEF AskedSeen

LEMMA AskSeen ==
    ASSUME NEW link, AllocInv, NEW t \in Thread, NEW r \in Request, Ask(t, r)
    PROVE  M(link)!AskMemory(t)
<1>1. want[t] = NoRequest /\ want' = [want EXCEPT ![t] = r]
  BY DEF Ask
<1>2. UNCHANGED <<used, RoomSeen, ContentSeen(link)>>
  BY DEF Ask, RoomSeen, ContentSeen
<1>3. AsAsked(r) \in M(link)!Asks
  BY DEF AsAsked, Request, Pool, M!Asks
<1>4. AskedSeen' = [AskedSeen EXCEPT ![t] = AsAsked(r)]
  <2>1. \A u \in Thread : want'[u] = IF u = t THEN r ELSE want[u]
    BY <1>1 DEF AllocInv, AllocTypeOK
  <2>2. AskedSeen' = [u \in Thread |-> AsAsked(want'[u])]
    BY DEF AskedSeen
  <2>3. AskedSeen' = [u \in Thread |-> IF u = t THEN AsAsked(r) ELSE AsAsked(want[u])]
    BY <2>1, <2>2
  <2> QED BY <2>3 DEF AskedSeen
<1>5. AskedSeen[t] = M(link)!Nothing
  BY <1>1, SeenRequest
<1> QED BY <1>2, <1>3, <1>4, <1>5 DEF M!AskMemory

\* A block that is handed out, seen from outside.
LEMMA SeenGrant ==
    ASSUME NEW link, AllocInv, NEW t \in Thread, want[t] \in Request,
           NEW b \in Block, used[b] = Unused, cap'[b] >= want[t].bytes,
           used' = [used EXCEPT ![b] = want[t].bytes],
           \A a \in Block \ {b} : cap'[a] = cap[a] /\ word'[a] = word[a],
           Seen(word'[b], link) \in M(link)!MayHold(want[t].pool),
           want' = [want EXCEPT ![t] = NoRequest]
    PROVE  M(link)!Grant(t, b, cap'[b])
<1>1. want[t].bytes \in Nat
  BY RequestNat
<1>2. \A a \in Block : used'[a] = IF a = b THEN want[t].bytes ELSE used[a]
  BY DEF AllocInv, AllocTypeOK
<1>3. want[t].bytes # Unused
  BY <1>1 DEF Unused
<1>4. RoomSeen' = [RoomSeen EXCEPT ![b] = cap'[b]]
  <2>1. RoomSeen' = [a \in Block |-> IF used'[a] = Unused THEN 0 ELSE cap'[a]]
    BY DEF RoomSeen
  <2>2. RoomSeen' = [a \in Block |-> IF a = b THEN cap'[b]
                                     ELSE IF used[a] = Unused THEN 0 ELSE cap[a]]
    BY <1>2, <1>3, <2>1
  <2> QED BY <2>2 DEF RoomSeen
<1>5. ContentSeen(link)' = [ContentSeen(link) EXCEPT ![b] = Seen(word'[b], link)]
  <2>1. ContentSeen(link)' = [a \in Block |-> IF used'[a] = Unused THEN "none"
                                              ELSE Seen(word'[a], link)]
    BY DEF ContentSeen, Seen
  <2>2. ContentSeen(link)' = [a \in Block |-> IF a = b THEN Seen(word'[b], link)
                                              ELSE IF used[a] = Unused THEN "none"
                                              ELSE Seen(word[a], link)]
    BY <1>2, <1>3, <2>1
  <2> QED BY <2>2 DEF ContentSeen
<1>6. /\ AskedSeen[t] # M(link)!Nothing /\ AskedSeen[t].bytes = want[t].bytes
      /\ AskedSeen[t].pool = want[t].pool
  BY SeenRequest
<1>7. AskedSeen' = [AskedSeen EXCEPT ![t] = M(link)!Nothing]
  BY SeenEnd
<1>8. used[b] = M(link)!Nobody
  BY DEF Unused, M!Nobody
<1> QED BY <1>4, <1>5, <1>6, <1>7, <1>8 DEF M!Grant

\* Whether the pointer in the first word of a block matters: past it never, and not
\* for whole blocks if no popped block has one.
Overlooked(link) == link = "zero" \/ (link = "data" /\ SingleLists)

LEMMA PopStep ==
    ASSUME NEW link, Overlooked(link),
           ExactSizes, AllocInv, FitInv, SeenInv, NEW t \in Thread, PopCache(t)
    PROVE  \E b \in Block, size \in {Demand(r) : r \in Request} : M(link)!Grant(t, b, size)
<1> DEFINE k == ListOf(t, want[t])
           b == Head(cache[k])
<1>1. /\ want[t] \in Request /\ k \in Key /\ b \in Block
      /\ 1 \in DOMAIN cache[k] /\ b = cache[k][1]
      /\ used' = [used EXCEPT ![b] = want[t].bytes]
  BY PopLists
<1>2. k[3] = Token(want[t].bytes) /\ k[2] = want[t].pool
  BY DEF ListOf
<1> HIDE DEF k, b
<1>3. cap' = cap /\ word' = word /\ want' = [want EXCEPT ![t] = NoRequest]
  BY DEF PopCache
<1>4. cap[b] # Freed /\ used[b] = Unused /\ cap[b] \in Nat
  <2>1. cap[b] # Freed /\ used[b] = Unused
    BY <1>1, Holder DEF AllocInv, Idle
  <2> QED BY <1>1, <2>1 DEF AllocInv, AllocTypeOK
<1>5. cap[b] >= want[t].bytes
  <2>1. cap[b] >= SizeOf(Token(want[t].bytes))
    BY <1>1, <1>2 DEF FitInv, ListsFit
  <2>2. want[t].bytes \in Nat /\ Token(want[t].bytes) # NoToken
    BY <1>1, RequestNat DEF PopCache, ByToken
  <2>3. /\ SizeOf(Token(want[t].bytes)) \in Nat
        /\ SizeOf(Token(want[t].bytes)) >= want[t].bytes
    BY <2>2, TokenFits
  <2> QED BY <1>4, <2>1, <2>2, <2>3
<1>6. Seen(word[b], link) \in M(link)!MayHold(want[t].pool)
  <2>1. want[t].pool = "zeroed" => word[b] = IF 1 = Len(cache[k]) THEN "zero" ELSE "link"
    BY <1>1, <1>2 DEF SeenInv, ListsLinked, Linked
  <2>2. SingleLists /\ want[t].pool = "zeroed" => 1 = Len(cache[k])
    <3> SUFFICES ASSUME SingleLists, want[t].pool = "zeroed" PROVE 1 = Len(cache[k])
      OBVIOUS
    <3> DEFINE n == Len(cache[k])
    <3>1. n <= 1
      BY <1>1, <1>2 DEF SingleLists
    <3>2. cache[k] \in Seq(Block)
      BY <1>1 DEF AllocInv, AllocTypeOK
    <3>3. n \in Nat /\ 1 \in 1 .. n
      BY <1>1, <3>2
    <3> HIDE DEF n
    <3>4. n = 1
      BY <3>1, <3>3
    <3> QED BY <3>4 DEF n
  <2>3. word[b] \in {"zero", "link", "data"}
    BY <1>1 DEF AllocInv, AllocTypeOK
  <2>4. want[t].pool = "zeroed" => Seen(word[b], link) = "zero"
    BY <2>1, <2>2 DEF Overlooked, Seen
  <2>5. Seen(word[b], link) \in {"zero", "data"}
    BY <2>3 DEF Overlooked, Seen
  <2> QED BY <2>4, <2>5 DEF M!MayHold
<1>7. M(link)!Grant(t, b, cap'[b])
  BY <1>1, <1>3, <1>4, <1>5, <1>6, SeenGrant
<1>8. cap'[b] \in {Demand(r) : r \in Request}
  BY <1>1, <1>3, <1>4 DEF SeenInv, RoomKnown
<1> QED BY <1>1, <1>7, <1>8

LEMMA SlowAllocStep ==
    ASSUME NEW link, AllocInv, NEW t \in Thread, SlowAlloc(t)
    PROVE  \E b \in Block, size \in {Demand(r) : r \in Request} : M(link)!Grant(t, b, size)
<1>1. want[t] \in Request
  BY DEF AllocInv, AllocTypeOK, SlowAlloc, MustAsk
<1>2. PICK b \in Available :
         /\ cap' = [cap EXCEPT ![b] = Demand(want[t])]
         /\ used' = [used EXCEPT ![b] = want[t].bytes]
         /\ word' = [word EXCEPT ![b] = IF want[t].pool = "raw" THEN "data" ELSE "zero"]
  BY DEF SlowAlloc
<1>3. b \in Block /\ cap[b] = Freed
  BY DEF Available
<1>4. want' = [want EXCEPT ![t] = NoRequest]
  BY DEF SlowAlloc
<1>5. used[b] = Unused
  BY <1>3, Holder DEF AllocInv, Backed
<1>6. /\ cap'[b] = Demand(want[t])
      /\ word'[b] = IF want[t].pool = "raw" THEN "data" ELSE "zero"
      /\ \A a \in Block \ {b} : cap'[a] = cap[a] /\ word'[a] = word[a]
  BY <1>2, <1>3 DEF AllocInv, AllocTypeOK
<1>7. Demand(want[t]) >= want[t].bytes
  BY <1>1, DemandFits
<1>8. Seen(word'[b], link) \in M(link)!MayHold(want[t].pool)
  BY <1>1, <1>6 DEF Request, Pool, Seen, M!MayHold
<1>9. M(link)!Grant(t, b, cap'[b])
  BY <1>1, <1>2, <1>3, <1>4, <1>5, <1>6, <1>7, <1>8, SeenGrant
<1> QED BY <1>1, <1>3, <1>6, <1>9

LEMMA GiveUpStep ==
    ASSUME NEW link, AllocInv, NEW t \in Thread, GiveUp(t)
    PROVE  M(link)!Fail(t)
<1>1. want[t] \in Request /\ want[t].try
  BY DEF GiveUp, MustAsk, AllocInv, AllocTypeOK
<1>2. AskedSeen[t].try
  BY <1>1, SeenRequest
<1>3. AskedSeen' = [AskedSeen EXCEPT ![t] = M(link)!Nothing]
  BY SeenEnd DEF GiveUp
<1>4. UNCHANGED <<used, RoomSeen, ContentSeen(link)>>
  BY DEF GiveUp, RoomSeen, ContentSeen
<1> QED BY <1>2, <1>3, <1>4 DEF M!Fail

LEMMA WriteStep ==
    ASSUME NEW link, AllocInv, NEW b \in Block, Write(b)
    PROVE  M(link)!Fill(b)
<1>1. used[b] # Unused /\ word' = [word EXCEPT ![b] = "data"]
  BY DEF Write
<1>2. UNCHANGED <<used, RoomSeen, AskedSeen>>
  BY DEF Write, RoomSeen, AskedSeen
<1>3. ContentSeen(link)' = [ContentSeen(link) EXCEPT ![b] = "data"]
  <2>1. \A a \in Block : word'[a] = IF a = b THEN "data" ELSE word[a]
    BY <1>1 DEF AllocInv, AllocTypeOK
  <2>2. ContentSeen(link)' = [a \in Block |-> IF used[a] = Unused THEN "none"
                                              ELSE Seen(word'[a], link)]
    BY DEF ContentSeen, Seen, Write
  <2>3. Seen("data", link) = "data"
    BY DEF Seen
  <2>4. ContentSeen(link)' = [a \in Block |-> IF a = b THEN "data"
                                              ELSE IF used[a] = Unused THEN "none"
                                              ELSE Seen(word[a], link)]
    BY <1>1, <2>1, <2>2, <2>3
  <2> QED BY <2>4 DEF ContentSeen
<1>4. used[b] # M(link)!Nobody
  BY <1>1 DEF Unused, M!Nobody
<1> QED BY <1>2, <1>3, <1>4 DEF M!Fill

LEMMA ReleaseStep ==
    ASSUME NEW link, AllocInv, NEW t \in Thread, NEW b \in Block, NEW pool \in Pool,
           NEW known \in BOOLEAN, NEW bytes, Release(t, b, pool, known, bytes)
    PROVE  M(link)!GiveBack(b)
<1>1. used[b] # Unused /\ used' = [used EXCEPT ![b] = Unused] /\ want' = want
  BY DEF Release
<1>2. \A a \in Block \ {b} : cap'[a] = cap[a] /\ word'[a] = word[a]
  <2>1. CASE Free(b)
    BY <2>1 DEF Free, AllocInv, AllocTypeOK
  <2>2. ASSUME NEW idx, Push(t, b, pool, idx)
        PROVE  \A a \in Block \ {b} : cap'[a] = cap[a] /\ word'[a] = word[a]
    BY <2>2 DEF Push, AllocInv, AllocTypeOK
  <2> QED BY <2>1, <2>2, ReleaseCases
<1>3. \A a \in Block : used'[a] = IF a = b THEN Unused ELSE used[a]
  BY <1>1 DEF AllocInv, AllocTypeOK
<1>4. RoomSeen' = [RoomSeen EXCEPT ![b] = 0]
  <2>1. RoomSeen' = [a \in Block |-> IF used'[a] = Unused THEN 0 ELSE cap'[a]]
    BY DEF RoomSeen
  <2>2. RoomSeen' = [a \in Block |-> IF a = b THEN 0
                                     ELSE IF used[a] = Unused THEN 0 ELSE cap[a]]
    BY <1>2, <1>3, <2>1
  <2> QED BY <2>2 DEF RoomSeen
<1>5. ContentSeen(link)' = [ContentSeen(link) EXCEPT ![b] = "none"]
  <2>1. ContentSeen(link)' = [a \in Block |-> IF used'[a] = Unused THEN "none"
                                              ELSE Seen(word'[a], link)]
    BY DEF ContentSeen, Seen
  <2>2. ContentSeen(link)' = [a \in Block |-> IF a = b THEN "none"
                                              ELSE IF used[a] = Unused THEN "none"
                                              ELSE Seen(word[a], link)]
    BY <1>2, <1>3, <2>1
  <2> QED BY <2>2 DEF ContentSeen
<1>6. AskedSeen' = AskedSeen
  BY <1>1 DEF AskedSeen
<1>7. used[b] # M(link)!Nobody /\ used' = [used EXCEPT ![b] = M(link)!Nobody]
  BY <1>1 DEF Unused, M!Nobody
<1> QED BY <1>4, <1>5, <1>6, <1>7 DEF M!GiveBack

LEMMA StepKeeps ==
    ASSUME NEW link, Overlooked(link),
           ExactSizes, AllocInv, FitInv, SeenInv, [AllocNext]_vars
    PROVE  [M(link)!MemoryNext]_(M(link)!memory)
<1>1. ASSUME NEW t \in Thread, NEW r \in Request, Ask(t, r) PROVE M(link)!MemoryNext
  BY <1>1, AskSeen DEF M!MemoryNext
<1>2. ASSUME NEW t \in Thread, PopCache(t) PROVE M(link)!MemoryNext
  BY <1>2, PopStep DEF M!MemoryNext
<1>3. ASSUME NEW t \in Thread, SlowAlloc(t) PROVE M(link)!MemoryNext
  BY <1>3, SlowAllocStep DEF M!MemoryNext
<1>4. ASSUME NEW t \in Thread, GiveUp(t) PROVE M(link)!MemoryNext
  BY <1>4, GiveUpStep DEF M!MemoryNext
<1>5. ASSUME NEW t \in Thread, NEW b \in Block, NEW pool \in Pool,
             NEW known \in BOOLEAN, NEW bytes, Release(t, b, pool, known, bytes)
      PROVE  M(link)!MemoryNext
  BY <1>5, ReleaseStep DEF M!MemoryNext
<1>6. ASSUME NEW b \in Block, Write(b) PROVE M(link)!MemoryNext
  BY <1>6, WriteStep DEF M!MemoryNext
<1>7. CASE UNCHANGED vars
  BY <1>7 DEF vars, M!memory, RoomSeen, ContentSeen, AskedSeen
<1> QED BY <1>1, <1>2, <1>3, <1>4, <1>5, <1>6, <1>7 DEF AllocNext

\* Past the first word of a block the runtime's lists and entry points keep the
\* promise of plain memory, for any threads, blocks and known sizes, if the sizes
\* only known at run time are exact: every step of theirs, seen from outside, is one
\* that Memory allows.
THEOREM AllocKeepsMemoryPastLink ==
    ASSUME ExactSizes PROVE AllocSpec => KeepsMemoryPastLink
<1>1. AllocInv /\ FitInv /\ SeenInv /\ [AllocNext]_vars => AllocInv' /\ FitInv' /\ SeenInv'
  BY StepInv, StepFit, StepSeen
<1>2. AllocInv /\ FitInv /\ SeenInv /\ [AllocNext]_vars
          => [M("zero")!MemoryNext]_(M("zero")!memory)
  BY StepKeeps DEF Overlooked
<1>3. AllocInit => M("zero")!MemoryInit
  BY SeenInit
<1> QED BY <1>1, <1>2, <1>3, InitInv, InitFit, InitSeen, PTL
        DEF AllocSpec, KeepsMemoryPastLink

\* For whole blocks they keep it, zero filled as runtime/Alloc.h says, under the
\* same condition and if no list of the zeroed pool ever holds two blocks.
THEOREM AllocKeepsMemory ==
    ASSUME ExactSizes PROVE AllocSpec /\ []SingleLists => KeepsMemory
<1>1. AllocInv /\ FitInv /\ SeenInv /\ [AllocNext]_vars => AllocInv' /\ FitInv' /\ SeenInv'
  BY StepInv, StepFit, StepSeen
<1>2. SingleLists /\ AllocInv /\ FitInv /\ SeenInv /\ [AllocNext]_vars
          => [M("data")!MemoryNext]_(M("data")!memory)
  BY StepKeeps DEF Overlooked
<1>3. AllocInit => M("data")!MemoryInit
  BY SeenInit
<1> QED BY <1>1, <1>2, <1>3, InitInv, InitFit, InitSeen, PTL
        DEF AllocSpec, KeepsMemory

=============================================================================
