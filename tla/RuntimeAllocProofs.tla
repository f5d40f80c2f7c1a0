-------------------------- MODULE RuntimeAllocProofs --------------------------
(***************************************************************************)
(* Memory has one holder, is large enough, and is zero filled, for any     *)
(* number of threads and blocks and any sizes, the last two on conditions. *)
(* It is large enough if every size only known at run time is the size of  *)
(* a class or above a page (ExactSizes): the slow entry points ask the C   *)
(* library for the size they are given.  It is zero filled if no list of   *)
(* the zeroed pool ever holds two blocks (SingleLists): the first of them  *)
(* is handed out with the pointer to the second.                           *)
(***************************************************************************)
EXTENDS RuntimeAlloc, TLAPS

-----------------------------------------------------------------------------
(* Size classes: the block of the class of a request is at least as large  *)
(* as the request, and classes and sizes correspond, for every size up to  *)
(* a page and on both kinds of target.                                     *)

\* The units written out, so that each group is a matter of linear arithmetic.
LEMMA Units ==
    /\ PointerSize = 8 => /\ Group = 1 .. 6 /\ Len(Unit) = 6
               /\ Unit[1] = 8 /\ Unit[2] = 16 /\ Unit[3] = 32
               /\ Unit[4] = 64 /\ Unit[5] = 128 /\ Unit[6] = 256
    /\ PointerSize = 4 => /\ Group = 1 .. 7 /\ Len(Unit) = 7
                /\ Unit[1] = 4 /\ Unit[2] = 8 /\ Unit[3] = 16
                /\ Unit[4] = 32 /\ Unit[5] = 64 /\ Unit[6] = 128 /\ Unit[7] = 256
BY DEF Group, Unit

\* A group below another one has half its unit.
LEMMA UnitDoubles ==
    ASSUME NEW g \in Group
    PROVE  /\ g \in Nat /\ g >= 1 /\ g <= Len(Unit)
           /\ Unit[g] \in {4, 8, 16, 32, 64, 128, 256}
           /\ g > 1 => g - 1 \in Group /\ Unit[g] = 2 * Unit[g - 1]
<1>1. CASE PointerSize = 8
  <2>1. g \in 1 .. 6
    BY <1>1, Units
  <2>2. g = 1 \/ g = 2 \/ g = 3 \/ g = 4 \/ g = 5 \/ g = 6
    BY <2>1
  <2>3. CASE g = 1
    BY <1>1, <2>3, Units, SMTT(30)
  <2>4. CASE g = 2
    <3>1. g - 1 = 1 /\ Unit[2] = 16 /\ Unit[1] = 8
      BY <1>1, <2>4, Units
    <3>2. Unit[g] = 16 /\ Unit[g - 1] = 8
      BY <2>4, <3>1
    <3>3. Group = 1 .. 6 /\ Len(Unit) = 6
      BY <1>1, Units
    <3> QED BY <2>4, <3>2, <3>3
  <2>5. CASE g = 3
    <3>1. g - 1 = 2 /\ Unit[3] = 32 /\ Unit[2] = 16
      BY <1>1, <2>5, Units
    <3>2. Unit[g] = 32 /\ Unit[g - 1] = 16
      BY <2>5, <3>1
    <3>3. Group = 1 .. 6 /\ Len(Unit) = 6
      BY <1>1, Units
    <3> QED BY <2>5, <3>2, <3>3
  <2>6. CASE g = 4
    <3>1. g - 1 = 3 /\ Unit[4] = 64 /\ Unit[3] = 32
      BY <1>1, <2>6, Units
    <3>2. Unit[g] = 64 /\ Unit[g - 1] = 32
      BY <2>6, <3>1
    <3>3. Group = 1 .. 6 /\ Len(Unit) = 6
      BY <1>1, Units
    <3> QED BY <2>6, <3>2, <3>3
  <2>7. CASE g = 5
    <3>1. g - 1 = 4 /\ Unit[5] = 128 /\ Unit[4] = 64
      BY <1>1, <2>7, Units
    <3>2. Unit[g] = 128 /\ Unit[g - 1] = 64
      BY <2>7, <3>1
    <3>3. Group = 1 .. 6 /\ Len(Unit) = 6
      BY <1>1, Units
    <3> QED BY <2>7, <3>2, <3>3
  <2>8. CASE g = 6
    <3>1. g - 1 = 5 /\ Unit[6] = 256 /\ Unit[5] = 128
      BY <1>1, <2>8, Units
    <3>2. Unit[g] = 256 /\ Unit[g - 1] = 128
      BY <2>8, <3>1
    <3>3. Group = 1 .. 6 /\ Len(Unit) = 6
      BY <1>1, Units
    <3> QED BY <2>8, <3>2, <3>3
  <2> QED BY <2>2, <2>3, <2>4, <2>5, <2>6, <2>7, <2>8
<1>2. CASE PointerSize = 4
  <2>1. g \in 1 .. 7
    BY <1>2, Units
  <2>2. g = 1 \/ g = 2 \/ g = 3 \/ g = 4 \/ g = 5 \/ g = 6 \/ g = 7
    BY <2>1
  <2>3. CASE g = 1
    <3>1. Unit[1] = 4 /\ Len(Unit) = 7
      BY <1>2, Units
    <3>2. Unit[g] = 4
      BY <2>3, <3>1
    <3> QED BY <2>3, <3>1, <3>2
  <2>4. CASE g = 2
    <3>1. g - 1 = 1 /\ Unit[2] = 8 /\ Unit[1] = 4
      BY <1>2, <2>4, Units
    <3>2. Unit[g] = 8 /\ Unit[g - 1] = 4
      BY <2>4, <3>1
    <3>3. Group = 1 .. 7 /\ Len(Unit) = 7
      BY <1>2, Units
    <3> QED BY <2>4, <3>2, <3>3
  <2>5. CASE g = 3
    <3>1. g - 1 = 2 /\ Unit[3] = 16 /\ Unit[2] = 8
      BY <1>2, <2>5, Units
    <3>2. Unit[g] = 16 /\ Unit[g - 1] = 8
      BY <2>5, <3>1
    <3>3. Group = 1 .. 7 /\ Len(Unit) = 7
      BY <1>2, Units
    <3> QED BY <2>5, <3>2, <3>3
  <2>6. CASE g = 4
    <3>1. g - 1 = 3 /\ Unit[4] = 32 /\ Unit[3] = 16
      BY <1>2, <2>6, Units
    <3>2. Unit[g] = 32 /\ Unit[g - 1] = 16
      BY <2>6, <3>1
    <3>3. Group = 1 .. 7 /\ Len(Unit) = 7
      BY <1>2, Units
    <3> QED BY <2>6, <3>2, <3>3
  <2>7. CASE g = 5
    <3>1. g - 1 = 4 /\ Unit[5] = 64 /\ Unit[4] = 32
      BY <1>2, <2>7, Units
    <3>2. Unit[g] = 64 /\ Unit[g - 1] = 32
      BY <2>7, <3>1
    <3>3. Group = 1 .. 7 /\ Len(Unit) = 7
      BY <1>2, Units
    <3> QED BY <2>7, <3>2, <3>3
  <2>8. CASE g = 6
    <3>1. g - 1 = 5 /\ Unit[6] = 128 /\ Unit[5] = 64
      BY <1>2, <2>8, Units
    <3>2. Unit[g] = 128 /\ Unit[g - 1] = 64
      BY <2>8, <3>1
    <3>3. Group = 1 .. 7 /\ Len(Unit) = 7
      BY <1>2, Units
    <3> QED BY <2>8, <3>2, <3>3
  <2>9. CASE g = 7
    <3>1. g - 1 = 6 /\ Unit[7] = 256 /\ Unit[6] = 128
      BY <1>2, <2>9, Units
    <3>2. Unit[g] = 256 /\ Unit[g - 1] = 128
      BY <2>9, <3>1
    <3>3. Group = 1 .. 7 /\ Len(Unit) = 7
      BY <1>2, Units
    <3> QED BY <2>9, <3>2, <3>3
  <2> QED BY <2>2, <2>3, <2>4, <2>5, <2>6, <2>7, <2>8, <2>9
<1> QED BY <1>1, <1>2, PointerSizeAssumption

\* Every request of up to a page has a group.
LEMMA GroupExists ==
    ASSUME NEW n \in 0 .. Page - 1
    PROVE  GroupOf(n) \in Group /\ InGroup(GroupOf(n), n)
<1>1. \E g \in Group : InGroup(g, n)
  <2>1. CASE PointerSize = 8
    <3>1. CASE n < 128
      <4>1. InGroup(1, n) /\ 1 \in Group
        BY <2>1, <3>1, Units DEF InGroup
      <4> QED BY <4>1
    <3>2. CASE n >= 128 /\ n < 256
      <4>1. InGroup(2, n) /\ 2 \in Group
        BY <2>1, <3>2, Units DEF InGroup
      <4> QED BY <4>1
    <3>3. CASE n >= 256 /\ n < 512
      <4>1. InGroup(3, n) /\ 3 \in Group
        BY <2>1, <3>3, Units DEF InGroup
      <4> QED BY <4>1
    <3>4. CASE n >= 512 /\ n < 1024
      <4>1. InGroup(4, n) /\ 4 \in Group
        BY <2>1, <3>4, Units DEF InGroup
      <4> QED BY <4>1
    <3>5. CASE n >= 1024 /\ n < 2048
      <4>1. InGroup(5, n) /\ 5 \in Group
        BY <2>1, <3>5, Units DEF InGroup
      <4> QED BY <4>1
    <3>6. CASE n >= 2048 /\ n < 4096
      <4>1. InGroup(6, n) /\ 6 \in Group
        BY <2>1, <3>6, Units DEF InGroup
      <4> QED BY <4>1
    <3>7. \/ n < 128 \/ (n >= 128 /\ n < 256) \/ (n >= 256 /\ n < 512)
          \/ (n >= 512 /\ n < 1024) \/ (n >= 1024 /\ n < 2048)
          \/ (n >= 2048 /\ n < 4096)
      BY DEF Page
    <3> QED BY <3>1, <3>2, <3>3, <3>4, <3>5, <3>6, <3>7
  <2>2. CASE PointerSize = 4
    <3>1. CASE n < 64
      <4>1. InGroup(1, n) /\ 1 \in Group
        BY <2>2, <3>1, Units DEF InGroup
      <4> QED BY <4>1
    <3>2. CASE n >= 64 /\ n < 128
      <4>1. InGroup(2, n) /\ 2 \in Group
        BY <2>2, <3>2, Units DEF InGroup
      <4> QED BY <4>1
    <3>3. CASE n >= 128 /\ n < 256
      <4>1. InGroup(3, n) /\ 3 \in Group
        BY <2>2, <3>3, Units DEF InGroup
      <4> QED BY <4>1
    <3>4. CASE n >= 256 /\ n < 512
      <4>1. InGroup(4, n) /\ 4 \in Group
        BY <2>2, <3>4, Units DEF InGroup
      <4> QED BY <4>1
    <3>5. CASE n >= 512 /\ n < 1024
      <4>1. InGroup(5, n) /\ 5 \in Group
        BY <2>2, <3>5, Units DEF InGroup
      <4> QED BY <4>1
    <3>6. CASE n >= 1024 /\ n < 2048
      <4>1. InGroup(6, n) /\ 6 \in Group
        BY <2>2, <3>6, Units DEF InGroup
      <4> QED BY <4>1
    <3>7. CASE n >= 2048 /\ n < 4096
      <4>1. InGroup(7, n) /\ 7 \in Group
        BY <2>2, <3>7, Units DEF InGroup
      <4> QED BY <4>1
    <3>8. \/ n < 64 \/ (n >= 64 /\ n < 128) \/ (n >= 128 /\ n < 256)
          \/ (n >= 256 /\ n < 512) \/ (n >= 512 /\ n < 1024)
          \/ (n >= 1024 /\ n < 2048) \/ (n >= 2048 /\ n < 4096)
      BY DEF Page
    <3> QED BY <3>1, <3>2, <3>3, <3>4, <3>5, <3>6, <3>7, <3>8
  <2> QED BY <2>1, <2>2, PointerSizeAssumption
<1> QED BY <1>1 DEF GroupOf

\* Quotients by a unit u, which is not a literal.
LEMMA Quotient ==
    ASSUME NEW n \in Nat, NEW u \in {4, 8, 16, 32, 64, 128, 256}
    PROVE  /\ n \div u \in Nat
           /\ (n \div u) * u <= n /\ n < (n \div u + 1) * u
           /\ n < 16 * u => n \div u < 16
           /\ n >= 8 * u => n \div u >= 8
<1>1. CASE u = 4 BY <1>1
<1>2. CASE u = 8 BY <1>2
<1>3. CASE u = 16 BY <1>3
<1>4. CASE u = 32 BY <1>4
<1>5. CASE u = 64 BY <1>5
<1>6. CASE u = 128 BY <1>6
<1>7. CASE u = 256 BY <1>7
<1> QED BY <1>1, <1>2, <1>3, <1>4, <1>5, <1>6, <1>7

\* The group the size of a class is computed in is unique.
LEMMA ClassGroupUnique ==
    ASSUME NEW m \in Nat, NEW g \in Group, NEW h \in Group,
           InClassGroup(g, m), InClassGroup(h, m)
    PROVE  g = h
BY UnitDoubles, SMTT(30) DEF InClassGroup

LEMMA SizeInGroup ==
    ASSUME NEW idx \in Nat, NEW g \in Group, InClassGroup(g, idx + 1)
    PROVE  SizeOf(idx) = (idx + 1 - 8 * (g - 1)) * Unit[g]
<1>1. ClassGroupOf(idx + 1) \in Group /\ InClassGroup(ClassGroupOf(idx + 1), idx + 1)
  BY DEF ClassGroupOf
<1>2. ClassGroupOf(idx + 1) = g
  BY <1>1, ClassGroupUnique
<1> QED BY <1>2 DEF SizeOf

\* The class of a request lies in the group of the request.
LEMMA ClassGroup ==
    ASSUME NEW bytes \in 1 .. Page
    PROVE  LET g == GroupOf(bytes - 1) IN
           /\ g \in Group
           /\ IndexOf(bytes) \in Index
           /\ InClassGroup(g, IndexOf(bytes) + 1)
           /\ IndexOf(bytes) = (bytes - 1) \div Unit[g] + 8 * (g - 1)
<1> DEFINE n == bytes - 1
           g == GroupOf(n)
           q == n \div Unit[g]
<1>1. n \in 0 .. Page - 1 /\ n \in Nat
  BY DEF Page
<1>2. g \in Group /\ InGroup(g, n)
  BY <1>1, GroupExists
<1>3. IndexOf(bytes) = q + 8 * (g - 1)
  BY DEF IndexOf
<1>4. Unit[g] \in {4, 8, 16, 32, 64, 128, 256} /\ g \in Nat /\ g >= 1 /\ g <= Len(Unit)
  BY <1>2, UnitDoubles
<1>5. q \in Nat /\ q < 16
  BY <1>1, <1>2, <1>4, Quotient, SMTT(60) DEF InGroup
<1>6. g > 1 => q >= 8
  <2> SUFFICES ASSUME g > 1 PROVE q >= 8
    OBVIOUS
  <2>1. n >= 8 * Unit[g]
    <3>1. n >= 16 * Unit[g - 1] /\ Unit[g] = 2 * Unit[g - 1]
      BY <1>2, UnitDoubles DEF InGroup
    <3>2. g - 1 \in Group
      BY <1>2, UnitDoubles
    <3>3. Unit[g - 1] \in Nat
      BY <3>2, UnitDoubles
    <3> QED BY <3>1, <3>3, <1>1
  <2> QED BY <2>1, <1>1, <1>4, Quotient, SMTT(30)
<1>7. Len(Unit) \in Nat
  BY Units
<1> HIDE DEF n, g, q
<1>8. IndexOf(bytes) \in Index
  BY <1>3, <1>4, <1>5, <1>6, <1>7 DEF Index
<1>9. InClassGroup(g, IndexOf(bytes) + 1)
  BY <1>3, <1>4, <1>5, <1>6 DEF InClassGroup
<1> QED BY <1>2, <1>3, <1>8, <1>9 DEF n, g, q

\* A block of the class of a request holds the request, whose size is at most
\* a page (swift_slowDealloc and getAllocToken against _swift_slowAlloc_fixup).
THEOREM ClassFits ==
    \A bytes \in 1 .. Page :
        IndexOf(bytes) \in Index /\ SizeOf(IndexOf(bytes)) \in Nat
        /\ SizeOf(IndexOf(bytes)) >= bytes
<1> SUFFICES ASSUME NEW bytes \in 1 .. Page
             PROVE  /\ IndexOf(bytes) \in Index /\ SizeOf(IndexOf(bytes)) \in Nat
                    /\ SizeOf(IndexOf(bytes)) >= bytes
  OBVIOUS
<1> DEFINE g == GroupOf(bytes - 1)
           q == (bytes - 1) \div Unit[g]
<1>1. /\ g \in Group /\ IndexOf(bytes) \in Index
      /\ InClassGroup(g, IndexOf(bytes) + 1)
      /\ IndexOf(bytes) = q + 8 * (g - 1)
  BY ClassGroup
<1>2. IndexOf(bytes) \in Nat
  BY <1>1 DEF Index
<1>3. SizeOf(IndexOf(bytes)) = (IndexOf(bytes) + 1 - 8 * (g - 1)) * Unit[g]
  BY <1>1, <1>2, SizeInGroup
<1>4. g \in Nat /\ bytes - 1 \in Nat /\ Unit[g] \in {4, 8, 16, 32, 64, 128, 256}
  BY <1>1, UnitDoubles DEF Page
<1>5. q \in Nat /\ bytes - 1 < (q + 1) * Unit[g]
  BY <1>4, Quotient
<1> HIDE DEF g, q
<1>6. IndexOf(bytes) + 1 - 8 * (g - 1) = q + 1
  BY <1>1, <1>4, <1>5
<1>7. SizeOf(IndexOf(bytes)) = (q + 1) * Unit[g]
  BY <1>3, <1>6
<1>8. (q + 1) * Unit[g] \in Nat
  BY <1>4, <1>5
<1>9. bytes <= (q + 1) * Unit[g]
  BY <1>5, <1>8, <1>4
<1> QED BY <1>1, <1>7, <1>8, <1>9

-----------------------------------------------------------------------------
(* The caches *)

ExactSizes ==
    \A bytes \in DynamicBytes :
        bytes > Page \/ (bytes >= 1 /\ SizeOf(IndexOf(bytes)) <= bytes)

\* What makes BigEnough inductive: a block is as large as the class of the
\* list it is in, and as the class it would be released to.
ListsFit ==
    \A key \in Key : \A j \in DOMAIN cache[key] :
        cap[cache[key][j]] >= SizeOf(key[3])

Holds(size, bytes) ==
    /\ size >= bytes
    /\ Token(bytes) # NoToken => size >= SizeOf(Token(bytes))
    /\ bytes \in 1 .. Page => size >= SizeOf(IndexOf(bytes))

ClientsFit == \A b \in Block : used[b] # Unused => Holds(cap[b], used[b])

AllocInv == AllocTypeOK /\ OneHolder

\* A thread knows the size it asks for or the size is one of the dynamic ones.
AsksFit == \A t \in Thread :
              want[t] \in Request => want[t].known \/ want[t].bytes \in DynamicBytes
FitInv == ListsFit /\ ClientsFit /\ AsksFit

-----------------------------------------------------------------------------
LEMMA SmallestClass == SizeOf(0) \in Nat /\ 0 \in Index
<1>1. 1 \in Group /\ InClassGroup(1, 0 + 1) /\ Len(Unit) \in Nat
  BY Units, PointerSizeAssumption DEF InClassGroup
<1>2. SizeOf(0) = (0 + 1 - 8 * (1 - 1)) * Unit[1]
  BY <1>1, SizeInGroup
<1>3. Unit[1] \in Nat
  BY <1>1, UnitDoubles
<1> QED BY <1>1, <1>2, <1>3 DEF Index

\* A token names a class whose blocks hold the request.
LEMMA TokenFits ==
    ASSUME NEW bytes \in Nat, Token(bytes) # NoToken
    PROVE  /\ Token(bytes) \in Index
           /\ SizeOf(Token(bytes)) \in Nat
           /\ SizeOf(Token(bytes)) >= bytes
           /\ bytes \in 1 .. Page => Token(bytes) = IndexOf(bytes)
<1>1. CASE bytes = 0
  <2>1. Token(bytes) = 0
    BY <1>1 DEF Token, Page
  <2> QED BY <1>1, <2>1, SmallestClass
<1>2. CASE bytes # 0
  <2>1. bytes \in 1 .. Page /\ Token(bytes) = IndexOf(bytes)
    BY <1>2 DEF Token, Page
  <2> QED BY <2>1, ClassFits
<1> QED BY <1>1, <1>2

\* Only requests from a page on have none.
LEMMA NoTokenLarge ==
    ASSUME NEW bytes \in Nat, Token(bytes) = NoToken
    PROVE  bytes >= Page /\ (bytes \in 1 .. Page => bytes = Page)
<1>1. CASE bytes = 0
  BY <1>1 DEF Token, NoToken, Page
<1>2. CASE bytes \in 1 .. Page - 1
  <2>1. Token(bytes) = IndexOf(bytes) /\ bytes \in 1 .. Page
    BY <1>2 DEF Token, Page
  <2> QED BY <2>1, ClassFits DEF Index, NoToken
<1>3. CASE bytes >= Page
  <2>1. ASSUME bytes \in 1 .. Page PROVE bytes = Page
    BY <1>3, <2>1 DEF Page
  <2> QED BY <1>3, <2>1
<1> QED BY <1>1, <1>2, <1>3 DEF Page

\* The last class has the size of a page, which has no token.
LEMMA LastClass == SizeOf(IndexOf(Page)) = Page
<1> DEFINE n == Page - 1
           g == GroupOf(Page - 1)
<1>1. g \in Group /\ InGroup(g, n) /\ n = 4095
  <2>1. n \in 0 .. Page - 1 /\ n = 4095
    BY DEF Page
  <2> QED BY <2>1, GroupExists
<1>2. Page \in 1 .. Page
  BY DEF Page
<1>3. /\ InClassGroup(g, IndexOf(Page) + 1)
      /\ IndexOf(Page) \in Index
      /\ IndexOf(Page) = n \div Unit[g] + 8 * (g - 1)
  BY <1>2, ClassGroup
<1>4. Unit[g] = 256
  <2>1. Unit[g] \in {4, 8, 16, 32, 64, 128, 256} /\ 4095 < 16 * Unit[g]
    BY <1>1, UnitDoubles DEF InGroup
  <2> QED BY <2>1
<1>5. g \in Nat
  BY <1>1, UnitDoubles
<1>6. IndexOf(Page) = 15 + 8 * (g - 1)
  BY <1>1, <1>3, <1>4
<1>7. SizeOf(IndexOf(Page)) = (IndexOf(Page) + 1 - 8 * (g - 1)) * Unit[g]
  BY <1>1, <1>3, SizeInGroup DEF Index
<1> HIDE DEF g, n
<1>8. IndexOf(Page) + 1 - 8 * (g - 1) = 16
  BY <1>5, <1>6
<1> QED BY <1>4, <1>7, <1>8 DEF Page

LEMMA RequestNat == ASSUME NEW r \in Request PROVE r.bytes \in Nat
BY BytesAssumption DEF Request

\* What is asked of the C library for a request.
LEMMA DemandFits ==
    ASSUME NEW r \in Request
    PROVE  Demand(r) \in Nat /\ Demand(r) >= r.bytes
BY RequestNat, TokenFits DEF Demand, ByToken

\* Memory of exactly the size asked for holds it, if that is large or a class.
LEMMA ExactHolds ==
    ASSUME NEW bytes \in Nat,
           \/ bytes > Page
           \/ bytes = Page
           \/ bytes >= 1 /\ SizeOf(IndexOf(bytes)) <= bytes
    PROVE  Holds(bytes, bytes)
<1>1. CASE bytes > Page
  <2>1. Token(bytes) = NoToken
    BY <1>1 DEF Token, Page
  <2>2. Page \in Nat
    BY DEF Page
  <2>3. bytes \notin 1 .. Page
    BY <1>1, <2>2
  <2> QED BY <2>1, <2>3 DEF Holds
<1>2. CASE bytes = Page
  <2>1. Token(bytes) = NoToken
    BY <1>2 DEF Token, Page
  <2>2. Page \in Nat
    BY DEF Page
  <2> QED BY <1>2, <2>1, <2>2, LastClass DEF Holds
<1>3. CASE bytes \in 1 .. Page /\ SizeOf(IndexOf(bytes)) <= bytes
  <2>1. Token(bytes) # NoToken => Token(bytes) = IndexOf(bytes)
    BY <1>3, TokenFits
  <2>2. SizeOf(IndexOf(bytes)) \in Nat
    BY <1>3, ClassFits
  <2> QED BY <1>3, <2>1, <2>2 DEF Holds
<1> QED BY <1>1, <1>2, <1>3 DEF Page

LEMMA TokenHolds ==
    ASSUME NEW bytes \in Nat, Token(bytes) # NoToken
    PROVE  Holds(SizeOf(Token(bytes)), bytes)
BY TokenFits DEF Holds

LEMMA DemandHolds ==
    ASSUME ExactSizes, NEW r \in Request,
           r.known \/ r.bytes \in DynamicBytes
    PROVE  Holds(Demand(r), r.bytes)
<1>1. r.bytes \in Nat
  BY RequestNat
<1>2. CASE ByToken(r)
  BY <1>1, <1>2, TokenHolds DEF Demand, ByToken
<1>3. CASE ~ByToken(r)
  <2>1. Demand(r) = r.bytes
    BY <1>3 DEF Demand
  <2>2. Token(r.bytes) = NoToken \/ r.bytes \in DynamicBytes
    BY <1>3 DEF ByToken
  <2>3. CASE Token(r.bytes) = NoToken
    <3>1. r.bytes > Page \/ r.bytes = Page
      BY <1>1, <2>3, NoTokenLarge DEF Page
    <3> QED BY <1>1, <2>1, <3>1, ExactHolds
  <2>4. CASE r.bytes \in DynamicBytes
    BY <1>1, <2>1, <2>4, ExactHolds DEF ExactSizes
  <2> QED BY <2>2, <2>3, <2>4
<1> QED BY <1>2, <1>3

-----------------------------------------------------------------------------
(* The lists *)

ListType == [Key -> Seq(Block)]

\* Every block is in at most one place of the lists c.
Apart(c) ==
    \A key, other \in Key : \A j \in DOMAIN c[key], m \in DOMAIN c[other] :
        c[key][j] = c[other][m] => key = other /\ j = m

\* The lists c do not hold b.
Without(c, b) == \A key \in Key : \A j \in DOMAIN c[key] : c[key][j] # b

\* All that list key of d holds, that of c holds, but for what is in extra.
Among(d, c, key, extra) ==
    \A j \in DOMAIN d[key] :
        d[key][j] \in extra \/ \E k \in DOMAIN c[key] : d[key][j] = c[key][k]

LEMMA TailFacts ==
    ASSUME NEW s \in Seq(Block), s # << >>
    PROVE  /\ Head(s) \in Block /\ Head(s) = s[1] /\ 1 \in DOMAIN s
           /\ Tail(s) \in Seq(Block)
           /\ \A j \in DOMAIN Tail(s) :
                 j \in Nat /\ j + 1 \in DOMAIN s /\ Tail(s)[j] = s[j + 1] /\ j + 1 # 1
OBVIOUS

LEMMA PushFacts ==
    ASSUME NEW s \in Seq(Block), NEW b \in Block
    PROVE  /\ <<b>> \o s \in Seq(Block)
           /\ \A j \in DOMAIN (<<b>> \o s) :
                 \/ j = 1 /\ (<<b>> \o s)[j] = b
                 \/ /\ j # 1 /\ j - 1 \in DOMAIN s /\ j \in Nat
                    /\ (<<b>> \o s)[j] = s[j - 1]
OBVIOUS

\* Popping keeps blocks apart, and takes its block out of every list.
LEMMA PopApart ==
    ASSUME NEW c \in ListType, NEW k \in Key, c[k] # << >>, Apart(c),
           NEW d, d = [c EXCEPT ![k] = Tail(c[k])]
    PROVE  /\ d \in ListType /\ Apart(d) /\ Without(d, Head(c[k]))
           /\ \A key \in Key : Among(d, c, key, {})
<1> DEFINE Old(key, m) == IF key = k THEN m + 1 ELSE m
<1>1. c[k] \in Seq(Block) /\ \A key \in Key : c[key] \in Seq(Block)
  BY DEF ListType
<1>2. d[k] = Tail(c[k]) /\ \A key \in Key \ {k} : d[key] = c[key]
  BY DEF ListType
<1>3. d \in ListType
  BY <1>1, TailFacts DEF ListType
<1>4. ASSUME NEW key \in Key, NEW m \in DOMAIN d[key]
      PROVE  /\ Old(key, m) \in DOMAIN c[key] /\ d[key][m] = c[key][Old(key, m)]
             /\ m \in Nat /\ (key = k => Old(key, m) # 1)
  <2>1. CASE key = k
    <3>1. /\ m \in Nat /\ m + 1 \in DOMAIN c[k]
          /\ d[k][m] = c[k][m + 1] /\ m + 1 # 1
      <4>1. m \in DOMAIN Tail(c[k])
        BY <1>2, <2>1
      <4>2. \A j \in DOMAIN Tail(c[k]) :
               /\ j \in Nat /\ j + 1 \in DOMAIN c[k]
               /\ Tail(c[k])[j] = c[k][j + 1] /\ j + 1 # 1
        BY <1>1, TailFacts, Zenon
      <4>3. d[k][m] = Tail(c[k])[m]
        BY <1>2
      <4> QED BY <4>1, <4>2, <4>3, Zenon
    <3>2. Old(key, m) = m + 1
      BY <2>1
    <3> HIDE DEF Old
    <3> QED BY <2>1, <3>1, <3>2
  <2>2. CASE key # k
    <3>1. d[key] = c[key] /\ c[key] \in Seq(Block)
      BY <1>1, <1>2, <2>2
    <3>2. m \in Nat
      BY <3>1
    <3> QED BY <2>2, <3>1, <3>2
  <2> QED BY <2>1, <2>2
<1> HIDE DEF Old
<1>5. \A key \in Key, m, n \in Nat : Old(key, m) = Old(key, n) => m = n
  BY DEF Old
<1>6. Apart(d)
  <2> SUFFICES ASSUME NEW key \in Key, NEW other \in Key,
                      NEW j \in DOMAIN d[key], NEW m \in DOMAIN d[other],
                      d[key][j] = d[other][m]
               PROVE  key = other /\ j = m
    BY DEF Apart
  <2>1. /\ Old(key, j) \in DOMAIN c[key] /\ d[key][j] = c[key][Old(key, j)]
        /\ j \in Nat
    BY <1>4
  <2>2. /\ Old(other, m) \in DOMAIN c[other] /\ d[other][m] = c[other][Old(other, m)]
        /\ m \in Nat
    BY <1>4
  <2>3. key = other /\ Old(key, j) = Old(other, m)
    BY <2>1, <2>2 DEF Apart
  <2> QED BY <1>5, <2>1, <2>2, <2>3
<1>7. Without(d, Head(c[k]))
  <2> SUFFICES ASSUME NEW key \in Key, NEW m \in DOMAIN d[key], d[key][m] = Head(c[k])
               PROVE  FALSE
    BY DEF Without
  <2>1. Head(c[k]) = c[k][1] /\ 1 \in DOMAIN c[k]
    BY <1>1, TailFacts
  <2>2. /\ Old(key, m) \in DOMAIN c[key] /\ d[key][m] = c[key][Old(key, m)]
        /\ key = k => Old(key, m) # 1
    BY <1>4
  <2>3. key = k /\ Old(key, m) = 1
    BY <2>1, <2>2 DEF Apart
  <2> QED BY <2>2, <2>3
<1>8. ASSUME NEW key \in Key PROVE Among(d, c, key, {})
  BY <1>4 DEF Among
<1> QED BY <1>3, <1>6, <1>7, <1>8

\* Pushing a block that is in no list keeps blocks apart.
LEMMA PushApart ==
    ASSUME NEW c \in ListType, NEW k \in Key, NEW b \in Block, Apart(c), Without(c, b),
           NEW d, d = [c EXCEPT ![k] = <<b>> \o c[k]]
    PROVE  /\ d \in ListType /\ Apart(d)
           /\ \A key \in Key : Among(d, c, key, IF key = k THEN {b} ELSE {})
<1> DEFINE Old(key, m) == IF key = k THEN m - 1 ELSE m
           First(key, m) == key = k /\ m = 1
<1>1. c[k] \in Seq(Block) /\ \A key \in Key : c[key] \in Seq(Block)
  BY DEF ListType
<1>2. d[k] = <<b>> \o c[k] /\ \A key \in Key \ {k} : d[key] = c[key]
  BY DEF ListType
<1>3. d \in ListType
  <2>1. <<b>> \o c[k] \in Seq(Block)
    BY <1>1, PushFacts
  <2> QED BY <2>1 DEF ListType
<1>4. ASSUME NEW key \in Key, NEW m \in DOMAIN d[key]
      PROVE  \/ First(key, m) /\ d[key][m] = b
             \/ /\ ~First(key, m) /\ m \in Nat
                /\ Old(key, m) \in DOMAIN c[key] /\ d[key][m] = c[key][Old(key, m)]
  <2>1. CASE key = k
    BY <1>1, <1>2, <2>1, PushFacts
  <2>2. CASE key # k
    <3>1. d[key] = c[key] /\ c[key] \in Seq(Block)
      BY <1>1, <1>2, <2>2
    <3>2. m \in Nat
      BY <3>1
    <3> QED BY <2>2, <3>1, <3>2
  <2> QED BY <2>1, <2>2
<1>5. \A key \in Key, m, n \in Nat : Old(key, m) = Old(key, n) => m = n
  OBVIOUS
<1>6. \A key, other \in Key : \A m \in DOMAIN d[key], n \in DOMAIN d[other] :
          First(key, m) /\ First(other, n) => key = other /\ m = n
  OBVIOUS
<1> HIDE DEF Old, First
<1>7. Apart(d)
  <2> SUFFICES ASSUME NEW key \in Key, NEW other \in Key,
                      NEW j \in DOMAIN d[key], NEW m \in DOMAIN d[other],
                      d[key][j] = d[other][m]
               PROVE  key = other /\ j = m
    BY DEF Apart
  <2>1. CASE First(key, j) /\ First(other, m)
    BY <1>6, <2>1
  <2>2. CASE First(key, j) /\ ~First(other, m)
    BY <1>4, <2>2 DEF Without
  <2>3. CASE ~First(key, j) /\ First(other, m)
    BY <1>4, <2>3 DEF Without
  <2>4. CASE ~First(key, j) /\ ~First(other, m)
    <3>1. /\ Old(key, j) \in DOMAIN c[key] /\ d[key][j] = c[key][Old(key, j)]
          /\ j \in Nat
      BY <1>4, <2>4
    <3>2. /\ Old(other, m) \in DOMAIN c[other] /\ d[other][m] = c[other][Old(other, m)]
          /\ m \in Nat
      BY <1>4, <2>4
    <3>3. key = other /\ Old(key, j) = Old(other, m)
      BY <3>1, <3>2 DEF Apart
    <3> QED BY <1>5, <3>1, <3>2, <3>3
  <2> QED BY <2>1, <2>2, <2>3, <2>4
<1>8. ASSUME NEW key \in Key PROVE Among(d, c, key, IF key = k THEN {b} ELSE {})
  <2>1. CASE key = k
    BY <1>4, <2>1 DEF Among
  <2>2. CASE key # k
    BY <1>4, <2>2 DEF Among, First
  <2> QED BY <2>1, <2>2
<1> QED BY <1>3, <1>7, <1>8

-----------------------------------------------------------------------------
(* One holder *)

LEMMA ReleaseKey ==
    ASSUME NEW t \in Thread, NEW pool \in Pool,
           NEW bytes \in KnownBytes \cup DynamicBytes
    PROVE  /\ Token(bytes) # NoToken => <<t, pool, Token(bytes)>> \in Key
           /\ bytes \in 1 .. Page => <<t, pool, IndexOf(bytes)>> \in Key
<1>1. bytes \in Nat
  BY BytesAssumption
<1>2. ASSUME Token(bytes) # NoToken PROVE Token(bytes) \in Class
  BY <1>1, <1>2, TokenFits DEF Class
<1>3. ASSUME bytes \in 1 .. Page PROVE IndexOf(bytes) \in Class
  BY <1>1, <1>3, ClassFits DEF Class
<1> QED BY <1>2, <1>3 DEF Key

LEMMA AskedKey ==
    ASSUME NEW t \in Thread, NEW r \in Request, ByToken(r)
    PROVE  ListOf(t, r) \in Key
<1>1. r.pool \in Pool /\ r.bytes \in KnownBytes \cup DynamicBytes
  BY DEF Request
<1>2. Token(r.bytes) # NoToken
  BY DEF ByToken
<1> QED BY <1>1, <1>2, ReleaseKey DEF ListOf

\* A request by token is a request.
LEMMA AskedRequest ==
    ASSUME AllocTypeOK, NEW t \in Thread, ByToken(want[t])
    PROVE  want[t] \in Request
<1>1. want[t] \in Request \cup {NoRequest}
  BY DEF AllocTypeOK
<1>2. ASSUME want[t] = NoRequest PROVE FALSE
  <2>1. ~NoRequest.known
    BY DEF NoRequest
  <2> QED BY <1>2, <2>1 DEF ByToken
<1> QED BY <1>1, <1>2

\* OneHolder, in terms of the lists.
Idle(c, p, u) == \A key \in Key : \A j \in DOMAIN c[key] :
                    p[c[key][j]] # Freed /\ u[c[key][j]] = Unused
Backed(p, u) == \A b \in Block : u[b] # Unused => p[b] # Freed

LEMMA Holder == OneHolder <=> Apart(cache) /\ Idle(cache, cap, used) /\ Backed(cap, used)
BY DEF OneHolder, Apart, Idle, Backed

LEMMA InitInv == AllocInit => AllocInv
<1> SUFFICES ASSUME AllocInit PROVE AllocInv
  OBVIOUS
<1>1. \A key \in Key : cache[key] = << >> /\ DOMAIN cache[key] = {}
  BY DEF AllocInit
<1>2. AllocTypeOK
  BY DEF AllocInit, AllocTypeOK
<1>3. Apart(cache) /\ Idle(cache, cap, used)
  BY <1>1 DEF Apart, Idle
<1>4. Backed(cap, used)
  BY DEF AllocInit, Backed
<1> QED BY <1>2, <1>3, <1>4, Holder DEF AllocInv

LEMMA AskInv ==
    ASSUME AllocInv, NEW t \in Thread, NEW r \in Request, Ask(t, r)
    PROVE  AllocInv'
<1>1. AllocTypeOK'
  BY DEF Ask, AllocInv, AllocTypeOK
<1>2. OneHolder'
  BY DEF Ask, AllocInv, OneHolder
<1> QED BY <1>1, <1>2 DEF AllocInv

\* What a pop does to the lists and to the block.
LEMMA PopLists ==
    ASSUME AllocInv, NEW t \in Thread, PopCache(t)
    PROVE  LET k == ListOf(t, want[t])
               b == Head(cache[k])
           IN  /\ want[t] \in Request /\ k \in Key /\ b \in Block
               /\ cache[k] # << >> /\ 1 \in DOMAIN cache[k] /\ b = cache[k][1]
               /\ cache' \in ListType /\ Apart(cache') /\ Without(cache', b)
               /\ \A key \in Key : Among(cache', cache, key, {})
               /\ used' = [used EXCEPT ![b] = want[t].bytes]
<1> DEFINE k == ListOf(t, want[t])
<1>1. want[t] \in Request
  BY AskedRequest DEF AllocInv, PopCache
<1>2. k \in Key
  BY <1>1, AskedKey DEF PopCache
<1>3. /\ cache \in ListType /\ Apart(cache) /\ cache[k] # << >>
      /\ cache' = [cache EXCEPT ![k] = Tail(cache[k])]
      /\ used' = [used EXCEPT ![Head(cache[k])] = want[t].bytes]
  BY Holder DEF AllocInv, AllocTypeOK, ListType, PopCache, List
<1>4. cache[k] \in Seq(Block)
  BY <1>2, <1>3 DEF ListType
<1> HIDE DEF k
<1>5. /\ cache' \in ListType /\ Apart(cache') /\ Without(cache', Head(cache[k]))
      /\ \A key \in Key : Among(cache', cache, key, {})
  BY <1>2, <1>3, PopApart
<1>6. Head(cache[k]) \in Block /\ Head(cache[k]) = cache[k][1] /\ 1 \in DOMAIN cache[k]
  BY <1>3, <1>4, TailFacts
<1> QED BY <1>1, <1>2, <1>3, <1>5, <1>6 DEF k

LEMMA PopInv ==
    ASSUME AllocInv, NEW t \in Thread, PopCache(t)
    PROVE  AllocInv'
<1> DEFINE k == ListOf(t, want[t])
           b == Head(cache[k])
<1>1. /\ want[t] \in Request /\ k \in Key /\ b \in Block
      /\ 1 \in DOMAIN cache[k] /\ b = cache[k][1]
      /\ cache' \in ListType /\ Apart(cache') /\ Without(cache', b)
      /\ \A key \in Key : Among(cache', cache, key, {})
      /\ used' = [used EXCEPT ![b] = want[t].bytes]
  BY PopLists
<1> HIDE DEF k, b
<1>2. cap' = cap /\ word' = word /\ want' = [want EXCEPT ![t] = NoRequest]
  BY DEF PopCache
<1>3. AllocTypeOK'
  <2>1. want[t].bytes \in KnownBytes \cup DynamicBytes
    BY <1>1 DEF Request
  <2> QED BY <1>1, <1>2, <2>1 DEF AllocInv, AllocTypeOK, ListType
<1>4. Idle(cache', cap', used')
  <2> SUFFICES ASSUME NEW key \in Key, NEW j \in DOMAIN cache'[key]
               PROVE  cap'[cache'[key][j]] # Freed /\ used'[cache'[key][j]] = Unused
    BY DEF Idle
  <2>1. PICK i \in DOMAIN cache[key] : cache'[key][j] = cache[key][i]
    BY <1>1 DEF Among
  <2>2. cap[cache[key][i]] # Freed /\ used[cache[key][i]] = Unused
    BY Holder DEF AllocInv, Idle
  <2>3. cache'[key][j] # b
    BY <1>1 DEF Without
  <2>4. cache'[key][j] \in Block
    BY <1>1 DEF ListType
  <2> QED BY <1>1, <1>2, <2>1, <2>2, <2>3, <2>4 DEF AllocInv, AllocTypeOK
<1>5. Backed(cap', used')
  <2>1. cap[b] # Freed
    BY <1>1, Holder DEF AllocInv, Idle
  <2>2. Backed(cap, used)
    BY Holder DEF AllocInv
  <2> QED BY <1>1, <1>2, <2>1, <2>2 DEF AllocInv, AllocTypeOK, Backed
<1>6. OneHolder'
  BY <1>1, <1>4, <1>5 DEF OneHolder, Apart, Idle, Backed
<1> QED BY <1>3, <1>6 DEF AllocInv

LEMMA SlowAllocInv ==
    ASSUME AllocInv, NEW t \in Thread, SlowAlloc(t)
    PROVE  AllocInv'
<1>1. want[t] \in Request
  BY DEF AllocInv, AllocTypeOK, SlowAlloc, MustAsk
<1>2. Demand(want[t]) \in Nat /\ want[t].bytes \in KnownBytes \cup DynamicBytes
  BY <1>1, DemandFits DEF Request
<1>3. PICK b \in Available :
         /\ cap' = [cap EXCEPT ![b] = Demand(want[t])]
         /\ used' = [used EXCEPT ![b] = want[t].bytes]
         /\ word' = [word EXCEPT ![b] = IF want[t].pool = "raw" THEN "data" ELSE "zero"]
  BY DEF SlowAlloc
<1>4. b \in Block /\ cap[b] = Freed
  BY DEF Available
<1>5. cache' = cache /\ want' = [want EXCEPT ![t] = NoRequest]
  BY DEF SlowAlloc
<1>6. AllocTypeOK'
  <2>1. cap' \in [Block -> Nat \cup {Freed}]
    BY <1>2, <1>3 DEF AllocInv, AllocTypeOK
  <2>2. used' \in [Block -> KnownBytes \cup DynamicBytes \cup {Unused}]
    BY <1>2, <1>3 DEF AllocInv, AllocTypeOK
  <2>3. word' \in [Block -> {"zero", "link", "data"}]
    BY <1>3 DEF AllocInv, AllocTypeOK
  <2> QED BY <1>5, <2>1, <2>2, <2>3 DEF AllocInv, AllocTypeOK
<1>7. Without(cache, b)
  BY <1>4, Holder DEF AllocInv, Idle, Without
<1>8. Idle(cache', cap', used')
  <2> SUFFICES ASSUME NEW key \in Key, NEW j \in DOMAIN cache[key]
               PROVE  cap'[cache[key][j]] # Freed /\ used'[cache[key][j]] = Unused
    BY <1>5 DEF Idle
  <2>1. cache[key][j] \in Block /\ cache[key][j] # b
    BY <1>7 DEF Without, AllocInv, AllocTypeOK
  <2>2. cap[cache[key][j]] # Freed /\ used[cache[key][j]] = Unused
    BY Holder DEF AllocInv, Idle
  <2> QED BY <1>3, <2>1, <2>2 DEF AllocInv, AllocTypeOK
<1>9. Backed(cap', used')
  <2>1. Demand(want[t]) # Freed
    BY <1>2 DEF Freed
  <2>2. Backed(cap, used)
    BY Holder DEF AllocInv
  <2> QED BY <1>3, <1>4, <2>1, <2>2 DEF AllocInv, AllocTypeOK, Backed
<1>10. OneHolder'
  <2>1. Apart(cache')
    BY <1>5, Holder DEF AllocInv
  <2> QED BY <1>8, <1>9, <2>1 DEF OneHolder, Apart, Idle, Backed
<1> QED BY <1>6, <1>10 DEF AllocInv

LEMMA GiveUpInv ==
    ASSUME AllocInv, NEW t \in Thread, GiveUp(t)
    PROVE  AllocInv'
<1>1. AllocTypeOK'
  BY DEF GiveUp, AllocInv, AllocTypeOK
<1>2. OneHolder'
  BY DEF GiveUp, AllocInv, OneHolder
<1> QED BY <1>1, <1>2 DEF AllocInv

LEMMA WriteInv ==
    ASSUME AllocInv, NEW b \in Block, Write(b)
    PROVE  AllocInv'
<1>1. AllocTypeOK'
  BY DEF Write, AllocInv, AllocTypeOK
<1>2. OneHolder'
  BY DEF Write, AllocInv, OneHolder
<1> QED BY <1>1, <1>2 DEF AllocInv

\* What a release does: it frees the block, or pushes it on the list of a class
\* it holds.
LEMMA ReleaseCases ==
    ASSUME AllocInv, NEW t \in Thread, NEW b \in Block, NEW pool \in Pool,
           NEW known \in BOOLEAN, NEW bytes, Release(t, b, pool, known, bytes)
    PROVE  /\ used[b] \in Nat /\ used[b] \in KnownBytes \cup DynamicBytes
           /\ \/ Free(b)
              \/ \E idx : /\ Push(t, b, pool, idx) /\ <<t, pool, idx>> \in Key
                          /\ \/ Token(used[b]) # NoToken /\ idx = Token(used[b])
                             \/ used[b] \in 1 .. Page /\ idx = IndexOf(used[b])
<1>1. used[b] \in KnownBytes \cup DynamicBytes /\ used[b] \in Nat
  BY BytesAssumption DEF Release, AllocInv, AllocTypeOK, Unused
<1>2. CASE Token(used[b]) # NoToken /\ Push(t, b, pool, Token(used[b]))
  BY <1>1, <1>2, ReleaseKey
<1>3. CASE Free(b)
  BY <1>1, <1>3
<1>4. CASE bytes \in 1 .. Page /\ Push(t, b, pool, IndexOf(bytes))
  <2>1. bytes = used[b]
    <3>1. bytes # 0
      BY <1>4 DEF Page
    <3> QED BY <3>1 DEF Release
  <2> QED BY <1>1, <1>4, <2>1, ReleaseKey
<1> QED BY <1>2, <1>3, <1>4 DEF Release, SlowDealloc

LEMMA FreeInv ==
    ASSUME AllocInv, NEW b \in Block, used[b] # Unused, Free(b),
           used' = [used EXCEPT ![b] = Unused], UNCHANGED want
    PROVE  AllocInv'
<1>1. cap' = [cap EXCEPT ![b] = Freed] /\ cache' = cache /\ word' = word
  BY DEF Free
<1>2. AllocTypeOK'
  BY <1>1 DEF AllocInv, AllocTypeOK
<1>3. Without(cache, b)
  BY Holder DEF AllocInv, Idle, Without
<1>4. Idle(cache', cap', used')
  <2> SUFFICES ASSUME NEW key \in Key, NEW j \in DOMAIN cache[key]
               PROVE  cap'[cache[key][j]] # Freed /\ used'[cache[key][j]] = Unused
    BY <1>1 DEF Idle
  <2>1. cache[key][j] \in Block /\ cache[key][j] # b
    BY <1>3 DEF Without, AllocInv, AllocTypeOK
  <2>2. cap[cache[key][j]] # Freed /\ used[cache[key][j]] = Unused
    BY Holder DEF AllocInv, Idle
  <2> QED BY <1>1, <2>1, <2>2 DEF AllocInv, AllocTypeOK
<1>5. Backed(cap', used')
  BY <1>1, Holder DEF AllocInv, AllocTypeOK, Backed
<1>6. Apart(cache')
  BY <1>1, Holder DEF AllocInv
<1>7. OneHolder'
  BY <1>4, <1>5, <1>6 DEF OneHolder, Apart, Idle, Backed
<1> QED BY <1>2, <1>7 DEF AllocInv

\* What a push does to the lists.
LEMMA PushLists ==
    ASSUME AllocInv, NEW t \in Thread, NEW b \in Block, NEW pool, NEW idx,
           used[b] # Unused, Push(t, b, pool, idx), <<t, pool, idx>> \in Key
    PROVE  /\ Without(cache, b) /\ cache' \in ListType /\ Apart(cache')
           /\ \A key \in Key :
                 Among(cache', cache, key, IF key = <<t, pool, idx>> THEN {b} ELSE {})
<1> DEFINE k == <<t, pool, idx>>
<1>1. Without(cache, b)
  BY Holder DEF AllocInv, Idle, Without
<1>2. /\ cache \in ListType /\ Apart(cache)
      /\ cache' = [cache EXCEPT ![k] = <<b>> \o cache[k]]
  BY Holder DEF AllocInv, AllocTypeOK, ListType, Push
<1> HIDE DEF k
<1>3. k \in Key
  BY DEF k
<1>4. /\ cache' \in ListType /\ Apart(cache')
      /\ \A key \in Key : Among(cache', cache, key, IF key = k THEN {b} ELSE {})
  BY <1>1, <1>2, <1>3, PushApart
<1> QED BY <1>1, <1>4 DEF k

LEMMA PushInv ==
    ASSUME AllocInv, NEW t \in Thread, NEW b \in Block, NEW pool, NEW idx,
           used[b] # Unused, Push(t, b, pool, idx), <<t, pool, idx>> \in Key,
           used' = [used EXCEPT ![b] = Unused], UNCHANGED want
    PROVE  AllocInv'
<1>1. /\ Without(cache, b) /\ cache' \in ListType /\ Apart(cache')
      /\ \A key \in Key :
            Among(cache', cache, key, IF key = <<t, pool, idx>> THEN {b} ELSE {})
  BY PushLists
<1>2. cap' = cap
  BY DEF Push
<1>3. AllocTypeOK'
  <2>1. word' \in [Block -> {"zero", "link", "data"}]
    BY DEF Push, AllocInv, AllocTypeOK
  <2> QED BY <1>1, <1>2, <2>1 DEF AllocInv, AllocTypeOK, ListType
<1>4. Idle(cache', cap', used')
  <2> SUFFICES ASSUME NEW key \in Key, NEW j \in DOMAIN cache'[key]
               PROVE  cap'[cache'[key][j]] # Freed /\ used'[cache'[key][j]] = Unused
    BY DEF Idle
  <2>1. cache'[key][j] = b \/ \E i \in DOMAIN cache[key] : cache'[key][j] = cache[key][i]
    BY <1>1 DEF Among
  <2>2. CASE cache'[key][j] = b
    BY <1>2, <2>2, Holder DEF AllocInv, AllocTypeOK, Backed
  <2>3. ASSUME NEW i \in DOMAIN cache[key], cache'[key][j] = cache[key][i]
        PROVE  cap'[cache'[key][j]] # Freed /\ used'[cache'[key][j]] = Unused
    <3>1. cap[cache[key][i]] # Freed /\ used[cache[key][i]] = Unused
      BY Holder DEF AllocInv, Idle
    <3>2. cache[key][i] \in Block /\ cache[key][i] # b
      BY <1>1 DEF Without, AllocInv, AllocTypeOK
    <3> QED BY <1>2, <2>3, <3>1, <3>2 DEF AllocInv, AllocTypeOK
  <2> QED BY <2>1, <2>2, <2>3
<1>5. Backed(cap', used')
  BY <1>2, Holder DEF AllocInv, AllocTypeOK, Backed
<1>6. OneHolder'
  BY <1>1, <1>4, <1>5 DEF OneHolder, Apart, Idle, Backed
<1> QED BY <1>3, <1>6 DEF AllocInv

LEMMA ReleaseInv ==
    ASSUME AllocInv, NEW t \in Thread, NEW b \in Block, NEW pool \in Pool,
           NEW known \in BOOLEAN, NEW bytes, Release(t, b, pool, known, bytes)
    PROVE  AllocInv'
<1>1. used[b] # Unused /\ used' = [used EXCEPT ![b] = Unused] /\ UNCHANGED want
  BY DEF Release
<1>2. \/ Free(b)
      \/ \E idx : Push(t, b, pool, idx) /\ <<t, pool, idx>> \in Key
  BY ReleaseCases
<1>3. CASE Free(b)
  BY <1>1, <1>3, FreeInv
<1>4. ASSUME NEW idx, Push(t, b, pool, idx), <<t, pool, idx>> \in Key
      PROVE  AllocInv'
  BY <1>1, <1>4, PushInv
<1> QED BY <1>2, <1>3, <1>4

LEMMA StepInv == AllocInv /\ [AllocNext]_vars => AllocInv'
<1> SUFFICES ASSUME AllocInv, [AllocNext]_vars PROVE AllocInv'
  OBVIOUS
<1>1. ASSUME NEW t \in Thread, NEW r \in Request, Ask(t, r) PROVE AllocInv'
  BY <1>1, AskInv
<1>2. ASSUME NEW t \in Thread, PopCache(t) PROVE AllocInv'
  BY <1>2, PopInv
<1>3. ASSUME NEW t \in Thread, SlowAlloc(t) PROVE AllocInv'
  BY <1>3, SlowAllocInv
<1>4. ASSUME NEW t \in Thread, GiveUp(t) PROVE AllocInv'
  BY <1>4, GiveUpInv
<1>5. ASSUME NEW t \in Thread, NEW b \in Block, NEW pool \in Pool,
             NEW known \in BOOLEAN, NEW bytes, Release(t, b, pool, known, bytes)
      PROVE  AllocInv'
  BY <1>5, ReleaseInv
<1>6. ASSUME NEW b \in Block, Write(b) PROVE AllocInv'
  BY <1>6, WriteInv
<1>7. CASE UNCHANGED vars
  BY <1>7 DEF vars, AllocInv, AllocTypeOK, OneHolder
<1> QED BY <1>1, <1>2, <1>3, <1>4, <1>5, <1>6, <1>7 DEF AllocNext

\* The state has its types.
THEOREM AllocTypes == AllocSpec => []AllocTypeOK
<1>1. AllocInv => AllocTypeOK
  BY DEF AllocInv
<1> QED BY <1>1, InitInv, StepInv, PTL DEF AllocSpec

\* Memory has one holder: a client, one place in one list, or the C library, for
\* any threads, blocks and sizes.
THEOREM AllocOneHolder == AllocSpec => []OneHolder
<1>1. AllocInv => OneHolder
  BY DEF AllocInv
<1> QED BY <1>1, InitInv, StepInv, PTL DEF AllocSpec

-----------------------------------------------------------------------------
(* Large enough *)

LEMMA LargerHolds ==
    ASSUME NEW bytes \in Nat, NEW size \in Nat, Token(bytes) # NoToken,
           size >= SizeOf(Token(bytes))
    PROVE  Holds(size, bytes)
<1>1. /\ SizeOf(Token(bytes)) \in Nat /\ SizeOf(Token(bytes)) >= bytes
      /\ bytes \in 1 .. Page => Token(bytes) = IndexOf(bytes)
  BY TokenFits
<1> QED BY <1>1 DEF Holds

LEMMA NoRequestApart == NoRequest \notin Request
<1>1. NoRequest.pool \notin Pool
  BY DEF NoRequest, Pool
<1>2. \A r \in Request : r.pool \in Pool
  BY DEF Request
<1> QED BY <1>1, <1>2

LEMMA InitFit == AllocInit => FitInv
<1> SUFFICES ASSUME AllocInit PROVE FitInv
  OBVIOUS
<1>1. \A key \in Key : cache[key] = << >> /\ DOMAIN cache[key] = {}
  BY DEF AllocInit
<1>2. ListsFit
  BY <1>1 DEF ListsFit
<1>3. ClientsFit
  BY DEF AllocInit, ClientsFit
<1>4. AsksFit
  <2>1. \A t \in Thread : want[t] = NoRequest
    BY DEF AllocInit
  <2> QED BY <2>1, NoRequestApart DEF AsksFit
<1> QED BY <1>2, <1>3, <1>4 DEF FitInv

LEMMA AskFit ==
    ASSUME AllocInv, FitInv, NEW t \in Thread, NEW r \in Request, Ask(t, r)
    PROVE  FitInv'
<1>1. want' = [want EXCEPT ![t] = r] /\ UNCHANGED <<cap, cache, used>>
  BY DEF Ask
<1>2. r.known \/ r.bytes \in DynamicBytes
  <2>1. CASE r.known
    BY <2>1
  <2>2. CASE ~r.known
    BY <2>2 DEF Ask
  <2> QED BY <2>1, <2>2
<1>3. AsksFit'
  <2> SUFFICES ASSUME NEW u \in Thread, want'[u] \in Request
               PROVE  want'[u].known \/ want'[u].bytes \in DynamicBytes
    BY DEF AsksFit
  <2>1. CASE u = t
    <3>1. want'[u] = r
      BY <1>1, <2>1 DEF AllocInv, AllocTypeOK
    <3> QED BY <1>2, <3>1, Zenon
  <2>2. CASE u # t
    <3>1. want'[u] = want[u]
      BY <1>1, <2>2 DEF AllocInv, AllocTypeOK
    <3> QED BY <3>1, Zenon DEF FitInv, AsksFit
  <2> QED BY <2>1, <2>2
<1>4. ListsFit' /\ ClientsFit'
  BY <1>1 DEF FitInv, ListsFit, ClientsFit
<1> QED BY <1>3, <1>4 DEF FitInv

\* A request that ends leaves the others as they are.
LEMMA EndFit ==
    ASSUME AllocInv, FitInv, NEW t \in Thread, want' = [want EXCEPT ![t] = NoRequest]
    PROVE  AsksFit'
<1> SUFFICES ASSUME NEW u \in Thread, want'[u] \in Request
             PROVE  want'[u].known \/ want'[u].bytes \in DynamicBytes
  BY DEF AsksFit
<1>1. CASE u = t
  <2>1. want'[u] = NoRequest
    BY <1>1 DEF AllocInv, AllocTypeOK
  <2> QED BY <2>1, NoRequestApart
<1>2. CASE u # t
  <2>1. want'[u] = want[u]
    BY <1>2 DEF AllocInv, AllocTypeOK
  <2> QED BY <2>1, Zenon DEF FitInv, AsksFit
<1> QED BY <1>1, <1>2

LEMMA PopFit ==
    ASSUME AllocInv, FitInv, NEW t \in Thread, PopCache(t)
    PROVE  FitInv'
<1> DEFINE k == ListOf(t, want[t])
           b == Head(cache[k])
<1>1. /\ want[t] \in Request /\ k \in Key /\ b \in Block
      /\ 1 \in DOMAIN cache[k] /\ b = cache[k][1]
      /\ \A key \in Key : Among(cache', cache, key, {})
      /\ used' = [used EXCEPT ![b] = want[t].bytes]
  BY PopLists
<1>2. k[3] = Token(want[t].bytes)
  BY DEF ListOf
<1> HIDE DEF k, b
<1>3. cap' = cap /\ want' = [want EXCEPT ![t] = NoRequest]
  BY DEF PopCache
<1>4. ListsFit'
  <2> SUFFICES ASSUME NEW key \in Key, NEW j \in DOMAIN cache'[key]
               PROVE  cap[cache'[key][j]] >= SizeOf(key[3])
    BY <1>3 DEF ListsFit
  <2>1. PICK i \in DOMAIN cache[key] : cache'[key][j] = cache[key][i]
    BY <1>1 DEF Among
  <2> QED BY <2>1 DEF FitInv, ListsFit
<1>5. Holds(cap[b], want[t].bytes)
  <2>1. cap[b] >= SizeOf(Token(want[t].bytes))
    BY <1>1, <1>2 DEF FitInv, ListsFit
  <2>2. want[t].bytes \in Nat /\ Token(want[t].bytes) # NoToken
    BY <1>1, RequestNat DEF PopCache, ByToken
  <2>3. cap[b] \in Nat
    <3>1. cap[b] # Freed
      BY <1>1, Holder DEF AllocInv, Idle
    <3> QED BY <1>1, <3>1 DEF AllocInv, AllocTypeOK
  <2> QED BY <2>1, <2>2, <2>3, LargerHolds
<1>6. ClientsFit'
  <2> SUFFICES ASSUME NEW a \in Block, used'[a] # Unused
               PROVE  Holds(cap[a], used'[a])
    BY <1>3 DEF ClientsFit, Holds
  <2>1. CASE a = b
    <3>1. used'[a] = want[t].bytes
      BY <1>1, <2>1 DEF AllocInv, AllocTypeOK
    <3> QED BY <1>5, <2>1, <3>1
  <2>2. CASE a # b
    <3>1. used'[a] = used[a]
      BY <1>1, <2>2 DEF AllocInv, AllocTypeOK
    <3> QED BY <3>1 DEF FitInv, ClientsFit
  <2> QED BY <2>1, <2>2
<1>7. AsksFit'
  BY <1>3, EndFit
<1> QED BY <1>4, <1>6, <1>7 DEF FitInv

LEMMA SlowAllocFit ==
    ASSUME ExactSizes, AllocInv, FitInv, NEW t \in Thread, SlowAlloc(t)
    PROVE  FitInv'
<1>1. want[t] \in Request
  BY DEF AllocInv, AllocTypeOK, SlowAlloc, MustAsk
<1>2. PICK b \in Available :
         /\ cap' = [cap EXCEPT ![b] = Demand(want[t])]
         /\ used' = [used EXCEPT ![b] = want[t].bytes]
  BY DEF SlowAlloc
<1>3. b \in Block /\ cap[b] = Freed
  BY DEF Available
<1>4. cache' = cache /\ want' = [want EXCEPT ![t] = NoRequest]
  BY DEF SlowAlloc
<1>5. Holds(Demand(want[t]), want[t].bytes)
  <2>1. want[t].known \/ want[t].bytes \in DynamicBytes
    BY <1>1, Zenon DEF FitInv, AsksFit
  <2> QED BY <1>1, <2>1, DemandHolds, Zenon
<1>6. ListsFit'
  <2> SUFFICES ASSUME NEW key \in Key, NEW j \in DOMAIN cache[key]
               PROVE  cap'[cache[key][j]] >= SizeOf(key[3])
    BY <1>4 DEF ListsFit
  <2>1. cache[key][j] \in Block /\ cache[key][j] # b
    BY <1>3, Holder DEF AllocInv, AllocTypeOK, Idle
  <2>2. cap'[cache[key][j]] = cap[cache[key][j]]
    BY <1>2, <2>1 DEF AllocInv, AllocTypeOK
  <2> QED BY <2>2 DEF FitInv, ListsFit
<1>7. ClientsFit'
  <2> SUFFICES ASSUME NEW a \in Block, used'[a] # Unused
               PROVE  Holds(cap'[a], used'[a])
    BY DEF ClientsFit, Holds
  <2>1. CASE a = b
    <3>1. used'[a] = want[t].bytes /\ cap'[a] = Demand(want[t])
      BY <1>2, <2>1 DEF AllocInv, AllocTypeOK
    <3> QED BY <1>5, <3>1
  <2>2. CASE a # b
    <3>1. used'[a] = used[a] /\ cap'[a] = cap[a]
      BY <1>2, <2>2 DEF AllocInv, AllocTypeOK
    <3> QED BY <3>1 DEF FitInv, ClientsFit
  <2> QED BY <2>1, <2>2
<1>8. AsksFit'
  BY <1>4, EndFit
<1> QED BY <1>6, <1>7, <1>8 DEF FitInv

LEMMA ReleaseFit ==
    ASSUME AllocInv, FitInv, NEW t \in Thread, NEW b \in Block, NEW pool \in Pool,
           NEW known \in BOOLEAN, NEW bytes, Release(t, b, pool, known, bytes)
    PROVE  FitInv'
<1>1. used[b] # Unused /\ used' = [used EXCEPT ![b] = Unused] /\ want' = want
  BY DEF Release
<1>2. AsksFit'
  BY <1>1 DEF FitInv, AsksFit
<1>3. CASE Free(b)
  <2>1. cap' = [cap EXCEPT ![b] = Freed] /\ cache' = cache
    BY <1>3 DEF Free
  <2>2. ListsFit'
    <3> SUFFICES ASSUME NEW key \in Key, NEW j \in DOMAIN cache[key]
                 PROVE  cap'[cache[key][j]] >= SizeOf(key[3])
      BY <2>1 DEF ListsFit
    <3>1. cache[key][j] \in Block /\ cache[key][j] # b
      BY <1>1, Holder DEF AllocInv, AllocTypeOK, Idle
    <3>2. cap'[cache[key][j]] = cap[cache[key][j]]
      BY <2>1, <3>1 DEF AllocInv, AllocTypeOK
    <3> QED BY <3>2 DEF FitInv, ListsFit
  <2>3. ClientsFit'
    <3> SUFFICES ASSUME NEW a \in Block, used'[a] # Unused
                 PROVE  Holds(cap'[a], used'[a])
      BY DEF ClientsFit, Holds
    <3>1. a # b
      BY <1>1 DEF AllocInv, AllocTypeOK
    <3>2. used'[a] = used[a] /\ cap'[a] = cap[a]
      BY <1>1, <2>1, <3>1 DEF AllocInv, AllocTypeOK
    <3> QED BY <3>2 DEF FitInv, ClientsFit
  <2> QED BY <1>2, <2>2, <2>3 DEF FitInv
<1>4. ASSUME NEW idx, Push(t, b, pool, idx), <<t, pool, idx>> \in Key,
             \/ Token(used[b]) # NoToken /\ idx = Token(used[b])
             \/ used[b] \in 1 .. Page /\ idx = IndexOf(used[b])
      PROVE  FitInv'
  <2>1. \A key \in Key :
           Among(cache', cache, key, IF key = <<t, pool, idx>> THEN {b} ELSE {})
    BY <1>1, <1>4, PushLists, SMTT(30)
  <2>2. cap' = cap
    BY <1>4 DEF Push
  <2>3. cap[b] >= SizeOf(idx)
    BY <1>1, <1>4 DEF FitInv, ClientsFit, Holds
  <2>4. ListsFit'
    <3> SUFFICES ASSUME NEW key \in Key, NEW j \in DOMAIN cache'[key]
                 PROVE  cap[cache'[key][j]] >= SizeOf(key[3])
      BY <2>2 DEF ListsFit
    <3>1. \/ key = <<t, pool, idx>> /\ cache'[key][j] = b
          \/ \E i \in DOMAIN cache[key] : cache'[key][j] = cache[key][i]
      BY <2>1 DEF Among
    <3>2. CASE key = <<t, pool, idx>> /\ cache'[key][j] = b
      <4>1. key[3] = idx
        BY <3>2
      <4> QED BY <2>3, <3>2, <4>1
    <3>3. ASSUME NEW i \in DOMAIN cache[key], cache'[key][j] = cache[key][i]
          PROVE  cap[cache'[key][j]] >= SizeOf(key[3])
      BY <3>3 DEF FitInv, ListsFit
    <3> QED BY <3>1, <3>2, <3>3
  <2>5. ClientsFit'
    <3> SUFFICES ASSUME NEW a \in Block, used'[a] # Unused
                 PROVE  Holds(cap[a], used'[a])
      BY <2>2 DEF ClientsFit, Holds
    <3>1. used'[a] = used[a]
      BY <1>1 DEF AllocInv, AllocTypeOK
    <3> QED BY <3>1 DEF FitInv, ClientsFit
  <2> QED BY <1>2, <2>4, <2>5 DEF FitInv
<1> QED BY <1>3, <1>4, ReleaseCases

LEMMA StepFit == ExactSizes /\ AllocInv /\ FitInv /\ [AllocNext]_vars => FitInv'
<1> SUFFICES ASSUME ExactSizes, AllocInv, FitInv, [AllocNext]_vars PROVE FitInv'
  OBVIOUS
<1>1. ASSUME NEW t \in Thread, NEW r \in Request, Ask(t, r) PROVE FitInv'
  BY <1>1, AskFit
<1>2. ASSUME NEW t \in Thread, PopCache(t) PROVE FitInv'
  BY <1>2, PopFit
<1>3. ASSUME NEW t \in Thread, SlowAlloc(t) PROVE FitInv'
  BY <1>3, SlowAllocFit
<1>4. ASSUME NEW t \in Thread, GiveUp(t) PROVE FitInv'
  <2>1. want' = [want EXCEPT ![t] = NoRequest] /\ UNCHANGED <<cap, cache, used>>
    BY <1>4 DEF GiveUp
  <2>2. ListsFit' /\ ClientsFit'
    BY <2>1 DEF FitInv, ListsFit, ClientsFit
  <2> QED BY <2>1, <2>2, EndFit DEF FitInv
<1>5. ASSUME NEW t \in Thread, NEW b \in Block, NEW pool \in Pool,
             NEW known \in BOOLEAN, NEW bytes, Release(t, b, pool, known, bytes)
      PROVE  FitInv'
  BY <1>5, ReleaseFit
<1>6. ASSUME NEW b \in Block, Write(b) PROVE FitInv'
  BY <1>6 DEF Write, FitInv, ListsFit, ClientsFit, AsksFit
<1>7. CASE UNCHANGED vars
  BY <1>7 DEF vars, FitInv, ListsFit, ClientsFit, AsksFit
<1> QED BY <1>1, <1>2, <1>3, <1>4, <1>5, <1>6, <1>7 DEF AllocNext

\* A client's block is as large as what it asked for, for any threads, blocks
\* and known sizes, if the sizes only known at run time are exact.
THEOREM AllocBigEnough == ASSUME ExactSizes PROVE AllocSpec => []BigEnough
<1>1. AllocInv /\ FitInv => BigEnough
  BY DEF FitInv, ClientsFit, Holds, BigEnough
<1>2. AllocInv /\ FitInv /\ [AllocNext]_vars => AllocInv' /\ FitInv'
  BY StepInv, StepFit
<1> QED BY <1>1, <1>2, InitInv, InitFit, PTL DEF AllocSpec

-----------------------------------------------------------------------------
(* What is left in a block *)

\* In a list of the zeroed pool the last block is zero, and every other one but for
\* the pointer to the next.
Linked(c, w) ==
    \A key \in Key : key[2] = "zeroed" =>
        \A j \in DOMAIN c[key] : w[c[key][j]] = IF j = Len(c[key]) THEN "zero" ELSE "link"
ListsLinked == Linked(cache, word)

\* Taking the first block of a list leaves the others in their places before the end.
LEMMA TailLinked ==
    ASSUME NEW s \in Seq(Block), s # << >>, NEW w,
           \A j \in DOMAIN s : w[s[j]] = IF j = Len(s) THEN "zero" ELSE "link"
    PROVE  \A j \in DOMAIN Tail(s) :
              w[Tail(s)[j]] = IF j = Len(Tail(s)) THEN "zero" ELSE "link"
<1> SUFFICES ASSUME NEW j \in DOMAIN Tail(s)
             PROVE  w[Tail(s)[j]] = IF j = Len(Tail(s)) THEN "zero" ELSE "link"
  OBVIOUS
<1>1. j \in Nat /\ j + 1 \in DOMAIN s /\ Tail(s)[j] = s[j + 1]
  BY TailFacts
<1>2. j = Len(Tail(s)) <=> j + 1 = Len(s)
  <2>1. Len(s) \in Nat /\ Len(Tail(s)) = Len(s) - 1
    OBVIOUS
  <2> QED BY <1>1, <2>1
<1> QED BY <1>1, <1>2

\* A block put before the others gets the link if there are any.
LEMMA FrontLinked ==
    ASSUME NEW s \in Seq(Block), NEW b \in Block, NEW w,
           \A j \in DOMAIN s : w[s[j]] = IF j = Len(s) THEN "zero" ELSE "link",
           w[b] = IF s = << >> THEN "zero" ELSE "link"
    PROVE  \A j \in DOMAIN (<<b>> \o s) :
              w[(<<b>> \o s)[j]] = IF j = Len(<<b>> \o s) THEN "zero" ELSE "link"
<1> DEFINE r == <<b>> \o s
<1>1. Len(s) \in Nat /\ Len(r) = Len(s) + 1 /\ (s = << >> <=> Len(s) = 0)
  OBVIOUS
<1>2. \A j \in DOMAIN r : \/ j = 1 /\ r[j] = b
                          \/ /\ j # 1 /\ j - 1 \in DOMAIN s /\ j \in Nat /\ r[j] = s[j - 1]
  BY PushFacts
<1> HIDE DEF r
<1> SUFFICES ASSUME NEW j \in DOMAIN r
             PROVE  w[r[j]] = IF j = Len(r) THEN "zero" ELSE "link"
  BY DEF r
<1>3. CASE j = 1 /\ r[j] = b
  BY <1>1, <1>3
<1>4. CASE j # 1 /\ j - 1 \in DOMAIN s /\ j \in Nat /\ r[j] = s[j - 1]
  <2>1. j = Len(r) <=> j - 1 = Len(s)
    BY <1>1, <1>4
  <2> QED BY <1>4, <2>1
<1> QED BY <1>2, <1>3, <1>4

\* Blocks in no list may change.
LEMMA LinkedElsewhere ==
    ASSUME ListsLinked, cache' = cache, NEW b,
           \A key \in Key : \A j \in DOMAIN cache[key] : cache[key][j] # b,
           \A a \in Block \ {b} : word'[a] = word[a], AllocTypeOK
    PROVE  ListsLinked'
<1>1. \A key \in Key : \A j \in DOMAIN cache[key] : cache[key][j] \in Block \ {b}
  BY DEF AllocTypeOK
<1> QED BY <1>1 DEF ListsLinked, Linked

LEMMA InitLinked == AllocInit => ListsLinked
<1> SUFFICES ASSUME AllocInit PROVE ListsLinked
  OBVIOUS
<1>1. \A key \in Key : DOMAIN cache[key] = {}
  BY DEF AllocInit
<1> QED BY <1>1 DEF ListsLinked, Linked

LEMMA PopLinked ==
    ASSUME AllocInv, ListsLinked, NEW t \in Thread, PopCache(t)
    PROVE  ListsLinked'
<1> DEFINE k == ListOf(t, want[t])
<1>1. /\ k \in Key /\ cache[k] # << >> /\ word' = word
      /\ cache' = [cache EXCEPT ![k] = Tail(cache[k])]
  BY PopLists DEF PopCache, List
<1> HIDE DEF k
<1>2. /\ cache'[k] = Tail(cache[k]) /\ cache[k] \in Seq(Block)
      /\ \A key \in Key \ {k} : cache'[key] = cache[key]
  BY <1>1 DEF AllocInv, AllocTypeOK
<1> SUFFICES ASSUME NEW key \in Key, key[2] = "zeroed"
             PROVE  \A j \in DOMAIN cache'[key] :
                       word[cache'[key][j]] = IF j = Len(cache'[key]) THEN "zero" ELSE "link"
  BY <1>1 DEF ListsLinked, Linked
<1>3. \A j \in DOMAIN cache[key] :
         word[cache[key][j]] = IF j = Len(cache[key]) THEN "zero" ELSE "link"
  BY DEF ListsLinked, Linked
<1>4. CASE key = k
  BY <1>1, <1>2, <1>3, <1>4, TailLinked, SMTT(60)
<1>5. CASE key # k
  BY <1>2, <1>3, <1>5
<1> QED BY <1>4, <1>5

LEMMA PushLinked ==
    ASSUME AllocInv, ListsLinked, NEW t \in Thread, NEW b \in Block, NEW pool \in Pool, NEW idx,
           used[b] # Unused, Push(t, b, pool, idx), <<t, pool, idx>> \in Key
    PROVE  ListsLinked'
<1> DEFINE k == <<t, pool, idx>>
           new == IF pool = "raw" THEN "data" ELSE IF cache[k] = << >> THEN "zero" ELSE "link"
<1>1. /\ cache' = [cache EXCEPT ![k] = <<b>> \o cache[k]] /\ word' = [word EXCEPT ![b] = new]
      /\ k \in Key /\ k[2] = pool
  BY DEF Push
<1>2. /\ cache'[k] = <<b>> \o cache[k] /\ cache[k] \in Seq(Block)
      /\ \A key \in Key \ {k} : cache'[key] = cache[key]
      /\ word'[b] = new /\ \A a \in Block \ {b} : word'[a] = word[a]
  BY <1>1 DEF AllocInv, AllocTypeOK
<1>3. \A key \in Key : \A j \in DOMAIN cache[key] : cache[key][j] \in Block \ {b}
  <2>1. Without(cache, b)
    BY PushLists
  <2> QED BY <2>1 DEF Without, AllocInv, AllocTypeOK
<1> HIDE DEF k
<1> SUFFICES ASSUME NEW key \in Key, key[2] = "zeroed"
             PROVE  \A j \in DOMAIN cache'[key] :
                       word'[cache'[key][j]] = IF j = Len(cache'[key]) THEN "zero" ELSE "link"
  BY DEF ListsLinked, Linked
<1>4. \A j \in DOMAIN cache[key] :
         word'[cache[key][j]] = IF j = Len(cache[key]) THEN "zero" ELSE "link"
  BY <1>2, <1>3 DEF ListsLinked, Linked
<1>5. CASE key = k
  <2>1. word'[b] = IF cache[k] = << >> THEN "zero" ELSE "link"
    BY <1>1, <1>2, <1>5
  <2> HIDE DEF new
  <2> DEFINE w == word'
             s == cache[k]
  <2>2. s \in Seq(Block) /\ w[b] = (IF s = << >> THEN "zero" ELSE "link")
        /\ \A j \in DOMAIN s : w[s[j]] = IF j = Len(s) THEN "zero" ELSE "link"
    BY <1>2, <1>4, <1>5, <2>1
  <2>3. cache'[key] = <<b>> \o s
    BY <1>2, <1>5
  <2> HIDE DEF w, s
  <2>4. \A j \in DOMAIN (<<b>> \o s) :
           w[(<<b>> \o s)[j]] = IF j = Len(<<b>> \o s) THEN "zero" ELSE "link"
    BY <2>2, FrontLinked
  <2> QED BY <2>3, <2>4 DEF w
<1>6. CASE key # k
  BY <1>2, <1>4, <1>6
<1> QED BY <1>5, <1>6

LEMMA StepLinked == AllocInv /\ ListsLinked /\ [AllocNext]_vars => ListsLinked'
<1> SUFFICES ASSUME AllocInv, ListsLinked, [AllocNext]_vars PROVE ListsLinked'
  OBVIOUS
<1>1. ASSUME UNCHANGED <<cache, word>> PROVE ListsLinked'
  BY <1>1 DEF ListsLinked
<1>2. ASSUME NEW t \in Thread, NEW r \in Request, Ask(t, r) PROVE ListsLinked'
  BY <1>1, <1>2 DEF Ask
<1>3. ASSUME NEW t \in Thread, PopCache(t) PROVE ListsLinked'
  BY <1>3, PopLinked
<1>4. ASSUME NEW t \in Thread, SlowAlloc(t) PROVE ListsLinked'
  <2>1. PICK b \in Available :
           word' = [word EXCEPT ![b] = IF want[t].pool = "raw" THEN "data" ELSE "zero"]
    BY <1>4 DEF SlowAlloc
  <2>2. cache' = cache /\ b \in Block /\ cap[b] = Freed
    BY <1>4 DEF SlowAlloc, Available
  <2>3. \A key \in Key : \A j \in DOMAIN cache[key] : cache[key][j] # b
    BY <2>2, Holder DEF AllocInv, Idle
  <2>4. \A a \in Block \ {b} : word'[a] = word[a]
    BY <2>1 DEF AllocInv, AllocTypeOK
  <2> QED BY <2>2, <2>3, <2>4, LinkedElsewhere DEF AllocInv
<1>5. ASSUME NEW t \in Thread, GiveUp(t) PROVE ListsLinked'
  BY <1>1, <1>5 DEF GiveUp
<1>6. ASSUME NEW t \in Thread, NEW b \in Block, NEW pool \in Pool,
             NEW known \in BOOLEAN, NEW bytes, Release(t, b, pool, known, bytes)
      PROVE  ListsLinked'
  <2>1. used[b] # Unused
    BY <1>6 DEF Release
  <2>2. \/ Free(b)
        \/ \E idx : Push(t, b, pool, idx) /\ <<t, pool, idx>> \in Key
    BY <1>6, ReleaseCases
  <2>3. CASE Free(b)
    BY <1>1, <2>3 DEF Free
  <2>4. ASSUME NEW idx, Push(t, b, pool, idx), <<t, pool, idx>> \in Key PROVE ListsLinked'
    BY <2>1, <2>4, PushLinked
  <2> QED BY <2>2, <2>3, <2>4
<1>7. ASSUME NEW b \in Block, Write(b) PROVE ListsLinked'
  <2>1. cache' = cache /\ used[b] # Unused /\ word' = [word EXCEPT ![b] = "data"]
    BY <1>7 DEF Write
  <2>2. \A key \in Key : \A j \in DOMAIN cache[key] : cache[key][j] # b
    BY <2>1, Holder DEF AllocInv, Idle
  <2>3. \A a \in Block \ {b} : word'[a] = word[a]
    BY <2>1 DEF AllocInv, AllocTypeOK
  <2> QED BY <2>1, <2>2, <2>3, LinkedElsewhere DEF AllocInv
<1>8. CASE UNCHANGED vars
  BY <1>1, <1>8 DEF vars
<1> QED BY <1>2, <1>3, <1>4, <1>5, <1>6, <1>7, <1>8 DEF AllocNext

\* What a thread finds in the block it gets for a request of the zeroed pool.
Finds(t, b) == word'[b] = IF ByToken(want[t]) /\ Len(List(t, want[t])) > 1
                          THEN "link" ELSE "zero"

LEMMA PopFinds ==
    ASSUME AllocInv, ListsLinked, NEW t \in Thread, PopCache(t), want[t].pool = "zeroed",
           NEW b \in Block, used[b] = Unused, used'[b] # Unused
    PROVE  Finds(t, b)
<1> DEFINE k == ListOf(t, want[t])
<1>1. /\ k \in Key /\ Head(cache[k]) \in Block
      /\ 1 \in DOMAIN cache[k] /\ Head(cache[k]) = cache[k][1]
      /\ used' = [used EXCEPT ![Head(cache[k])] = want[t].bytes]
  BY PopLists
<1>2. k[2] = "zeroed" /\ word' = word /\ ByToken(want[t]) /\ List(t, want[t]) = cache[k]
  BY DEF ListOf, PopCache, List
<1> HIDE DEF k
<1>3. b = cache[k][1]
  BY <1>1 DEF AllocInv, AllocTypeOK
<1>4. word[cache[k][1]] = IF 1 = Len(cache[k]) THEN "zero" ELSE "link"
  BY <1>1, <1>2 DEF ListsLinked, Linked
<1>5. Len(cache[k]) \in Nat /\ Len(cache[k]) >= 1
  <2>1. cache[k] \in Seq(Block)
    BY <1>1 DEF AllocInv, AllocTypeOK
  <2>2. Len(cache[k]) \in Nat /\ DOMAIN cache[k] = 1 .. Len(cache[k])
    BY <2>1
  <2> QED BY <1>1, <2>2
<1>6. Len(cache[k]) > 1 <=> 1 # Len(cache[k])
  <2> DEFINE n == Len(cache[k])
  <2>1. n \in Nat /\ n >= 1
    BY <1>5
  <2> HIDE DEF n
  <2>2. n > 1 <=> 1 # n
    BY <2>1
  <2> QED BY <2>2 DEF n
<1>7. word'[b] = IF Len(cache[k]) > 1 THEN "link" ELSE "zero"
  BY <1>2, <1>3, <1>4, <1>6
<1>8. ByToken(want[t]) /\ (Len(List(t, want[t])) > 1 <=> Len(cache[k]) > 1)
  BY <1>2
<1> QED BY <1>7, <1>8 DEF Finds

LEMMA SlowAllocFinds ==
    ASSUME AllocInv, NEW t \in Thread, SlowAlloc(t), want[t].pool = "zeroed",
           NEW b \in Block, used[b] = Unused, used'[b] # Unused
    PROVE  Finds(t, b)
<1>1. PICK a \in Available :
         /\ used' = [used EXCEPT ![a] = want[t].bytes]
         /\ word' = [word EXCEPT ![a] = IF want[t].pool = "raw" THEN "data" ELSE "zero"]
  BY DEF SlowAlloc
<1>2. b = a
  BY <1>1 DEF AllocInv, AllocTypeOK
<1>3. word'[b] = "zero"
  BY <1>1, <1>2 DEF AllocInv, AllocTypeOK
<1>4. ByToken(want[t]) => Len(List(t, want[t])) = 0
  BY DEF SlowAlloc, MustAsk
<1> QED BY <1>3, <1>4 DEF Finds

\* Only the thread whose request ends gets a block.
LEMMA OwnRequest ==
    ASSUME AllocInv, NEW t \in Thread, NEW u \in Thread, want[t].pool = "zeroed",
           want'[t] = NoRequest, want' = [want EXCEPT ![u] = NoRequest]
    PROVE  t = u
<1>1. NoRequest.pool = "none"
  BY DEF NoRequest
<1>2. t # u => want'[t] = want[t]
  BY DEF AllocInv, AllocTypeOK
<1> QED BY <1>1, <1>2

LEMMA StepFinds ==
    ASSUME AllocInv, ListsLinked, [AllocNext]_vars, NEW t \in Thread, NEW b \in Block,
           want[t].pool = "zeroed", want'[t] = NoRequest, used[b] = Unused, used'[b] # Unused
    PROVE  Finds(t, b)
<1>1. ASSUME used' = used PROVE FALSE
  BY <1>1
<1>2. ASSUME NEW u \in Thread, NEW r \in Request, Ask(u, r) PROVE FALSE
  BY <1>1, <1>2 DEF Ask
<1>3. ASSUME NEW u \in Thread, PopCache(u) PROVE Finds(t, b)
  <2>1. t = u
    BY <1>3, OwnRequest DEF PopCache
  <2> QED BY <1>3, <2>1, PopFinds
<1>4. ASSUME NEW u \in Thread, SlowAlloc(u) PROVE Finds(t, b)
  <2>1. t = u
    BY <1>4, OwnRequest DEF SlowAlloc
  <2> QED BY <1>4, <2>1, SlowAllocFinds
<1>5. ASSUME NEW u \in Thread, GiveUp(u) PROVE FALSE
  BY <1>1, <1>5 DEF GiveUp
<1>6. ASSUME NEW u \in Thread, NEW a \in Block, NEW pool \in Pool,
             NEW known \in BOOLEAN, NEW bytes, Release(u, a, pool, known, bytes)
      PROVE  FALSE
  <2>1. used' = [used EXCEPT ![a] = Unused]
    BY <1>6 DEF Release
  <2> QED BY <2>1 DEF AllocInv, AllocTypeOK
<1>7. ASSUME NEW a \in Block, Write(a) PROVE FALSE
  BY <1>1, <1>7 DEF Write
<1>8. CASE UNCHANGED vars
  BY <1>1, <1>8 DEF vars
<1> QED BY <1>2, <1>3, <1>4, <1>5, <1>6, <1>7, <1>8 DEF AllocNext

\* No list of the zeroed pool holds two blocks: no thread has two released blocks
\* of one class at a time.
SingleLists == \A key \in Key : key[2] = "zeroed" => Len(cache[key]) <= 1

\* A request that ends with a block has the key of a list, if it goes by token.
LEMMA KeyOfRequest ==
    ASSUME AllocInv, NEW t \in Thread, want[t].pool = "zeroed", ByToken(want[t])
    PROVE  ListOf(t, want[t]) \in Key /\ ListOf(t, want[t])[2] = "zeroed"
<1>1. want[t] \in Request
  BY DEF AllocInv, AllocTypeOK, NoRequest
<1>2. ListOf(t, want[t]) \in Key
  BY <1>1, AskedKey
<1> QED BY <1>2 DEF ListOf

\* Memory is zero filled when it is handed out from the zeroed pool, as
\* runtime/Alloc.h says, for any threads, blocks and sizes, if no list of that
\* pool ever holds two blocks.
THEOREM AllocReturnsZeroed == AllocSpec /\ []SingleLists => ReturnsZeroed
<1> DEFINE Returns ==
        \A t \in Thread, b \in Block :
          /\ want[t].pool = "zeroed" /\ want'[t] = NoRequest
          /\ used[b] = Unused /\ used'[b] # Unused
          => word'[b] = "zero"
<1>1. AllocInv /\ ListsLinked /\ SingleLists /\ [AllocNext]_vars => Returns
  <2> SUFFICES ASSUME AllocInv, ListsLinked, SingleLists, [AllocNext]_vars,
                      NEW t \in Thread, NEW b \in Block,
                      want[t].pool = "zeroed", want'[t] = NoRequest,
                      used[b] = Unused, used'[b] # Unused
               PROVE  word'[b] = "zero"
    OBVIOUS
  <2>1. Finds(t, b)
    BY StepFinds
  <2>2. ByToken(want[t]) => ~(Len(List(t, want[t])) > 1)
    <3> SUFFICES ASSUME ByToken(want[t]) PROVE ~(Len(List(t, want[t])) > 1)
      OBVIOUS
    <3> DEFINE s == List(t, want[t])
    <3>1. s \in Seq(Block) /\ Len(s) <= 1
      BY KeyOfRequest DEF SingleLists, List, AllocInv, AllocTypeOK
    <3>2. Len(s) \in Nat
      BY <3>1
    <3> HIDE DEF s
    <3>3. ~(Len(s) > 1)
      BY <3>1, <3>2
    <3> QED BY <3>3 DEF s
  <2> QED BY <2>1, <2>2 DEF Finds
<1>2. AllocInv /\ ListsLinked /\ [AllocNext]_vars => AllocInv' /\ ListsLinked'
  BY StepInv, StepLinked
<1>3. AllocInit => AllocInv /\ ListsLinked
  BY InitInv, InitLinked
<1>4. ReturnsZeroed <=> [][Returns]_vars
  BY DEF ReturnsZeroed
<1> HIDE DEF Returns
<1> QED BY <1>1, <1>2, <1>3, <1>4, PTL DEF AllocSpec

=============================================================================
