--------------------------- MODULE OptimizeARCProofs ---------------------------
(***************************************************************************)
(* For every set of blocks, the walks of the reference counting passes     *)
(* keep their place, and no pass behind canonicalization meets a retain    *)
(* that returns its argument.  An edit of a pass either thins the block,   *)
(* or permutes it without its terminator, or changes instructions in their *)
(* places; each lemma on an operator says which, and the invariant holds   *)
(* because none of these loses the instruction the iterator goes to.       *)
(***************************************************************************)
EXTENDS OptimizeARC, SequenceTheorems, FiniteSetTheorems, WellFoundedInduction, TLAPS

(* Positions *)

\* A set of natural numbers has a least one.
LEMMA Least ==
    ASSUME NEW T, T \subseteq Nat, T # {}
    PROVE  \E x \in T : \A y \in T : x <= y
<1> DEFINE R == OpToRel(<, Nat)
<1>1. IsWellFoundedOn(R, Nat)
  BY NatLessThanWellFounded
<1>2. \A x, y \in Nat : x < y => <<x, y>> \in R
  BY DEF OpToRel
<1> HIDE DEF R
<1>3. PICK x \in T : \A y \in T : ~ (<<y, x>> \in R)
  BY <1>1, WFMin
<1>4. \A y \in T : x <= y
  <2> TAKE y \in T
  <2>1. x \in Nat /\ y \in Nat
    OBVIOUS
  <2>2. ~(y < x)
    BY <1>2, <1>3, <2>1
  <2> QED BY <2>1, <2>2
<1> QED BY <1>4

LEMMA FirstIs ==
    ASSUME NEW T, T \subseteq Nat, T # {}
    PROVE  FirstOf(T) \in T /\ \A q \in T : FirstOf(T) <= q
BY Least DEF FirstOf

LEMMA LastIs ==
    ASSUME NEW n \in Nat, NEW T, T \subseteq 0 .. n, T # {}
    PROVE  LastOf(T) \in T /\ \A q \in T : LastOf(T) >= q
<1> DEFINE U == {n - x : x \in T}
<1>1. U \subseteq Nat /\ U # {}
  <2>1. \A x \in T : x \in Int /\ x <= n
    OBVIOUS
  <2>2. \A x \in T : n - x \in Nat
    BY <2>1
  <2> QED BY <2>2
<1> HIDE DEF U
<1>2. PICK u \in U : \A v \in U : u <= v
  BY <1>1, Least
<1>3. PICK p \in T : u = n - p
  BY DEF U
<1>4. \A q \in T : p >= q
  <2> TAKE q \in T
  <2>1. n - q \in U
    BY DEF U
  <2>2. n - p <= n - q
    BY <1>2, <1>3, <2>1
  <2>3. p \in Int /\ q \in Int
    OBVIOUS
  <2> QED BY <2>2, <2>3
<1> QED BY <1>4 DEF LastOf

\* The positions of a set count up to their number, in order.
LEMMA NthIs ==
    ASSUME NEW n \in Nat, NEW T, T \subseteq 1 .. n
    PROVE  /\ IsFiniteSet(T) /\ Cardinality(T) \in Nat
           /\ \A k \in 1 .. Cardinality(T) : Nth(T, k) \in T
           /\ \A p \in T : \E k \in 1 .. Cardinality(T) : Nth(T, k) = p
           /\ \A j, k \in 1 .. Cardinality(T) : j < k => Nth(T, j) < Nth(T, k)
<1> DEFINE upTo(p) == {q \in T : q <= p}
           rank == [p \in T |-> Cardinality(upTo(p))]
           c == Cardinality(T)
<1>1. IsFiniteSet(T) /\ c \in Nat
  <2>1. IsFiniteSet(1 .. n)
    BY FS_Interval
  <2> QED BY <2>1, FS_Subset, FS_CardinalityType
<1>0. T \subseteq Nat
  OBVIOUS
<1>2. \A p \in T : IsFiniteSet(upTo(p)) /\ Cardinality(upTo(p)) \in 1 .. c
  <2> TAKE p \in T
  <2>1. upTo(p) \subseteq T /\ upTo(p) # {}
    OBVIOUS
  <2> HIDE DEF upTo
  <2>2. IsFiniteSet(upTo(p)) /\ Cardinality(upTo(p)) <= c
    BY <1>1, <2>1, FS_Subset
  <2>3. Cardinality(upTo(p)) \in Nat /\ Cardinality(upTo(p)) # 0
    BY <2>1, <2>2, FS_CardinalityType, FS_EmptySet
  <2> QED BY <1>1, <2>2, <2>3
<1>3. \A p, q \in T : p < q => rank[p] < rank[q]
  <2> TAKE p \in T, q \in T
  <2> HAVE p < q
  <2>0. p \in Nat /\ q \in Nat
    BY <1>0
  <2>1. upTo(p) \subseteq upTo(q) /\ q \in upTo(q) /\ q \notin upTo(p)
    <3>1. \A x \in T : x \in Nat
      BY <1>0
    <3>2. \A x \in T : x <= p => x <= q
      BY <2>0, <3>1
    <3>3. q <= q /\ ~(q <= p)
      BY <2>0
    <3> QED BY <3>2, <3>3
  <2>2. IsFiniteSet(upTo(q)) /\ Cardinality(upTo(p)) \in Nat /\ Cardinality(upTo(q)) \in Nat
    BY <1>1, <1>2
  <2> HIDE DEF upTo
  <2>3. Cardinality(upTo(p)) <= Cardinality(upTo(q)) /\ Cardinality(upTo(p)) # Cardinality(upTo(q))
    BY <2>1, <2>2, FS_Subset
  <2> QED BY <2>2, <2>3
<1>4. \A p, q \in T : rank[p] = rank[q] => p = q
  <2> TAKE p \in T, q \in T
  <2> HAVE rank[p] = rank[q]
  <2>1. rank[p] \in Nat
    BY <1>1, <1>2
  <2>2. ~(p < q) /\ ~(q < p)
    BY <1>3, <2>1
  <2> QED BY <2>2
<1>5. \A k \in 1 .. c : \E p \in T : rank[p] = k
  <2>1. rank \in Injection(T, 1 .. c)
    BY <1>2, <1>4 DEF Injection, IsInjective
  <2>2. IsFiniteSet(1 .. c) /\ Cardinality(1 .. c) = c
    BY <1>1, FS_Interval
  <2> HIDE DEF rank
  <2>3. rank \in Surjection(T, 1 .. c)
    BY <1>1, <2>1, <2>2, FS_Injection
  <2> QED BY <2>3 DEF Surjection
<1>6. \A k \in 1 .. c : Nth(T, k) \in T /\ rank[Nth(T, k)] = k
  BY <1>5 DEF Nth
<1>7. \A p \in T : rank[p] \in 1 .. c /\ Nth(T, rank[p]) = p
  <2> TAKE p \in T
  <2>1. rank[p] \in 1 .. c
    BY <1>2
  <2> QED BY <1>4, <1>6, <2>1
<1>8. \A p, q \in T : rank[p] < rank[q] => p < q
  <2> TAKE p \in T, q \in T
  <2>1. rank[p] \in Int /\ rank[q] \in Int /\ p \in Nat /\ q \in Nat
    BY <1>0, <1>1, <1>2
  <2> HIDE DEF rank
  <2>2. q < p => rank[q] < rank[p]
    BY <1>3
  <2> QED BY <2>1, <2>2
<1>9. \A j, k \in 1 .. c : j < k => Nth(T, j) < Nth(T, k)
  <2> TAKE j \in 1 .. c, k \in 1 .. c
  <2> HAVE j < k
  <2> HIDE DEF rank
  <2>1. rank[Nth(T, j)] < rank[Nth(T, k)]
    BY <1>6
  <2> QED BY <1>6, <1>8, <2>1
<1> QED
  <2> HIDE DEF rank
  <2> QED BY <1>1, <1>6, <1>7, <1>9

-----------------------------------------------------------------------------
(* Blocks *)

IsSeq(c) == c \in Seq(Range(c))

Distinct(c) == \A p, q \in 1 .. Len(c) : c[p].id = c[q].id => p = q

\* What a block is at every moment: instructions, each with an identity of its
\* own, the terminator last.
Sound(c) ==
    /\ IsSeq(c) /\ Distinct(c)
    /\ \A p \in 1 .. Len(c) : IsInstruction(c[p]) /\ c[p].id \in Nat \ {End}
    /\ c # << >> /\ c[Len(c)].op = "ret"

\* The same instruction, but for its operands.
Same(i, j) == IsInstruction(i) /\ i.id = j.id /\ i.op = j.op

\* e holds every instruction of c but those in gone; instruction k of e was at h[k].
Embeds(h, e, c, gone) ==
    /\ h \in [1 .. Len(e) -> 1 .. Len(c)]
    /\ \A k \in 1 .. Len(e) : Same(e[k], c[h[k]])
    /\ \A p \in 1 .. Len(c) : c[p].id \notin gone => \E k \in 1 .. Len(e) : h[k] = p

\* In their order, or in another one that leaves the last in its place.
Thins(e, c, gone) ==
    /\ IsSeq(e)
    /\ \E h : /\ Embeds(h, e, c, gone)
              /\ \A j, k \in 1 .. Len(e) : j < k => h[j] < h[k]

Permutes(e, c, gone) ==
    /\ IsSeq(e)
    /\ \E h : /\ Embeds(h, e, c, gone)
              /\ \A j, k \in 1 .. Len(e) : h[j] = h[k] => j = k
              /\ Len(c) > 0 /\ c[Len(c)].id \notin gone
                   => Len(e) > 0 /\ h[Len(e)] = Len(c)

LEMMA SeqFacts ==
    ASSUME NEW c, IsSeq(c)
    PROVE  /\ Len(c) \in Nat /\ DOMAIN c = 1 .. Len(c)
           /\ c \in [1 .. Len(c) -> Range(c)]
           /\ \A p \in 1 .. Len(c) : c[p] \in Range(c)
           /\ Range(c) = {c[p] : p \in 1 .. Len(c)}
           /\ Ids(c) = {c[p].id : p \in 1 .. Len(c)}
           /\ c # << >> <=> Len(c) > 0
<1>1. /\ Len(c) \in Nat /\ DOMAIN c = 1 .. Len(c)
      /\ c \in [1 .. Len(c) -> Range(c)]
  BY LenProperties DEF IsSeq
<1>2. Range(c) = {c[p] : p \in 1 .. Len(c)}
  BY RangeEquality DEF IsSeq
<1>3. c # << >> <=> Len(c) > 0
  BY <1>1, EmptySeq DEF IsSeq
<1> QED BY <1>1, <1>2, <1>3 DEF Ids

LEMMA AtIs ==
    ASSUME NEW c, IsSeq(c), Distinct(c)
    PROVE  /\ \A id \in Ids(c) : At(c, id) \in 1 .. Len(c) /\ c[At(c, id)].id = id
           /\ \A p \in 1 .. Len(c) : c[p].id \in Ids(c) /\ At(c, c[p].id) = p
BY SeqFacts DEF At, Distinct

LEMMA IdAtIs ==
    ASSUME NEW c, IsSeq(c), NEW p
    PROVE  IdAt(c, p) \in Ids(c) \cup {End}
BY SeqFacts DEF IdAt

LEMMA ThinsPermutes ==
    ASSUME NEW e, NEW c, NEW gone, IsSeq(c), Thins(e, c, gone)
    PROVE  Permutes(e, c, gone)
<1>1. IsSeq(e) /\ Len(e) \in Nat /\ Len(c) \in Nat
  BY SeqFacts DEF Thins
<1>2. PICK h : /\ Embeds(h, e, c, gone)
               /\ \A j, k \in 1 .. Len(e) : j < k => h[j] < h[k]
  BY DEF Thins
<1>3. \A k \in 1 .. Len(e) : h[k] \in Nat /\ h[k] <= Len(c)
  BY <1>1, <1>2 DEF Embeds
<1>4. \A j, k \in 1 .. Len(e) : h[j] = h[k] => j = k
  <2> TAKE j \in 1 .. Len(e), k \in 1 .. Len(e)
  <2> HAVE h[j] = h[k]
  <2>1. j \in Nat /\ k \in Nat /\ h[j] \in Nat
    BY <1>1, <1>3
  <2>2. ~(j < k) /\ ~(k < j)
    BY <1>2, <2>1
  <2> QED BY <2>1, <2>2
<1>5. ASSUME Len(c) > 0, c[Len(c)].id \notin gone
      PROVE  Len(e) > 0 /\ h[Len(e)] = Len(c)
  <2>1. Len(c) \in 1 .. Len(c)
    BY <1>1, <1>5
  <2>2. PICK k \in 1 .. Len(e) : h[k] = Len(c)
    BY <1>2, <1>5, <2>1 DEF Embeds
  <2>3. k \in Nat /\ Len(e) \in 1 .. Len(e) /\ k <= Len(e)
    BY <1>1
  <2>4. ~(k < Len(e))
    BY <1>1, <1>2, <1>3, <2>2, <2>3
  <2> QED BY <1>1, <2>2, <2>3, <2>4
<1> QED BY <1>1, <1>2, <1>4, <1>5 DEF Permutes

LEMMA ThinsTwice ==
    ASSUME NEW c, NEW d, NEW e, NEW gone, NEW more,
           Thins(d, c, gone), Thins(e, d, more)
    PROVE  Thins(e, c, gone \cup more)
<1>1. PICK g : /\ Embeds(g, d, c, gone)
               /\ \A j, k \in 1 .. Len(d) : j < k => g[j] < g[k]
  BY DEF Thins
<1>2. PICK h : /\ Embeds(h, e, d, more)
               /\ \A j, k \in 1 .. Len(e) : j < k => h[j] < h[k]
  BY DEF Thins
<1> DEFINE f == [k \in 1 .. Len(e) |-> g[h[k]]]
<1>3. \A k \in 1 .. Len(e) : h[k] \in 1 .. Len(d) /\ f[k] = g[h[k]]
  BY <1>2 DEF Embeds
<1>4. f \in [1 .. Len(e) -> 1 .. Len(c)]
  BY <1>1, <1>3 DEF Embeds
<1>5. \A k \in 1 .. Len(e) : Same(e[k], c[f[k]])
  BY <1>1, <1>2, <1>3 DEF Embeds, Same
<1>6. ASSUME NEW p \in 1 .. Len(c), c[p].id \notin gone \cup more
      PROVE  \E k \in 1 .. Len(e) : f[k] = p
  <2>1. PICK q \in 1 .. Len(d) : g[q] = p
    BY <1>1, <1>6 DEF Embeds
  <2>2. d[q].id \notin more
    BY <1>1, <1>6, <2>1 DEF Embeds, Same
  <2>3. PICK k \in 1 .. Len(e) : h[k] = q
    BY <1>2, <2>2 DEF Embeds
  <2> QED BY <1>3, <2>1, <2>3
<1>7. \A j, k \in 1 .. Len(e) : j < k => f[j] < f[k]
  BY <1>1, <1>2, <1>3
<1> HIDE DEF f
<1>8. Embeds(f, e, c, gone \cup more)
  BY <1>4, <1>5, <1>6 DEF Embeds
<1> QED BY <1>7, <1>8 DEF Thins

-----------------------------------------------------------------------------
(* Edits *)

LEMMA UsesSame ==
    ASSUME NEW i, IsInstruction(i), NEW old, NEW new
    PROVE  Same(Uses(i, old, new), i)
BY DEF Uses, Same, IsInstruction

LEMMA ReplaceIs ==
    ASSUME NEW c, Sound(c), NEW old, NEW new
    PROVE  LET r == ReplaceUses(c, old, new)
           IN  IsSeq(r) /\ Len(r) = Len(c) /\ \A p \in 1 .. Len(c) : Same(r[p], c[p])
<1> DEFINE r == ReplaceUses(c, old, new)
           S == {Uses(c[p], old, new) : p \in 1 .. Len(c)}
<1>1. Len(c) \in Nat /\ DOMAIN c = 1 .. Len(c) /\ \A p \in 1 .. Len(c) : IsInstruction(c[p])
  BY SeqFacts DEF Sound
<1>2. CASE old = ""
  BY <1>1, <1>2 DEF ReplaceUses, Same, Sound
<1>3. CASE old # ""
  <2>1. r = [p \in 1 .. Len(c) |-> Uses(c[p], old, new)]
    BY <1>1, <1>3 DEF ReplaceUses
  <2>2. \A p \in 1 .. Len(c) : Same(r[p], c[p])
    BY <1>1, <2>1, UsesSame
  <2>3. r \in [1 .. Len(c) -> S]
    BY <2>1
  <2>4. r \in Seq(S)
    BY <1>1, <2>3, SeqDef
  <2>5. Len(r) = Len(c)
    BY <1>1, <2>3, <2>4, LenProperties
  <2> QED BY <2>2, <2>4, <2>5, SeqOfRange DEF IsSeq
<1> QED BY <1>2, <1>3

\* Operands change in their places.
LEMMA SameThins ==
    ASSUME NEW c, NEW e, IsSeq(c), IsSeq(e), Len(e) = Len(c),
           \A p \in 1 .. Len(c) : Same(e[p], c[p])
    PROVE  Thins(e, c, {})
<1> DEFINE h == [p \in 1 .. Len(c) |-> p]
<1>1. Embeds(h, e, c, {})
  BY DEF Embeds
<1>2. \A j, k \in 1 .. Len(e) : j < k => h[j] < h[k]
  OBVIOUS
<1> HIDE DEF h
<1> QED BY <1>1, <1>2 DEF Thins

LEMMA WithoutThins ==
    ASSUME NEW c, Sound(c), NEW id \in Ids(c)
    PROVE  Thins(Without(c, id), c, {id})
<1> DEFINE a == At(c, id)
           n == Len(c)
           s == SubSeq(c, 1, a - 1)
           t == SubSeq(c, a + 1, n)
           e == s \o t
           h == [k \in 1 .. n - 1 |-> IF k < a THEN k ELSE k + 1]
<1>1. /\ n \in Nat /\ a \in 1 .. n /\ c[a].id = id /\ IsSeq(c)
      /\ \A p \in 1 .. n : c[p] \in Range(c) /\ IsInstruction(c[p])
  BY SeqFacts, AtIs DEF Sound
<1> HIDE DEF a, n
<1>2. /\ s \in Seq(Range(c)) /\ Len(s) = a - 1
      /\ \A k \in 1 .. a - 1 : s[k] = c[k]
  <2>1. \A k \in 1 .. a - 1 : k \in 1 .. n /\ 1 + k - 1 = k
    BY <1>1
  <2>2. /\ s \in Seq(Range(c)) /\ Len(s) = IF 1 <= a - 1 THEN (a - 1) - 1 + 1 ELSE 0
        /\ \A k \in 1 .. (a - 1) - 1 + 1 : s[k] = c[1 + k - 1]
    BY <1>1, <2>1, SubSeqProperties
  <2> QED BY <1>1, <2>1, <2>2
<1>3. /\ t \in Seq(Range(c)) /\ Len(t) = n - a
      /\ \A k \in 1 .. n - a : t[k] = c[a + k]
  <2>1. \A k \in a + 1 .. n : k \in 1 .. n
    BY <1>1
  <2>2. /\ t \in Seq(Range(c)) /\ Len(t) = IF a + 1 <= n THEN n - (a + 1) + 1 ELSE 0
        /\ \A k \in 1 .. n - (a + 1) + 1 : t[k] = c[(a + 1) + k - 1]
    BY <1>1, <2>1, SubSeqProperties
  <2> QED BY <1>1, <2>2
<1>4. /\ e \in Seq(Range(c)) /\ Len(e) = n - 1
      /\ \A k \in 1 .. n - 1 : e[k] = IF k <= a - 1 THEN s[k] ELSE t[k - (a - 1)]
  <2> HIDE DEF s, t
  <2>1. /\ e \in Seq(Range(c)) /\ Len(e) = Len(s) + Len(t)
        /\ \A k \in 1 .. Len(s) + Len(t) : e[k] = IF k <= Len(s) THEN s[k] ELSE t[k - Len(s)]
    BY <1>2, <1>3, ConcatProperties
  <2>2. Len(s) = a - 1 /\ Len(s) + Len(t) = n - 1
    BY <1>1, <1>2, <1>3
  <2> HIDE DEF e
  <2> QED BY <2>1, <2>2
<1> HIDE DEF s, t
<1>5. \A k \in 1 .. n - 1 : h[k] \in 1 .. n /\ e[k] = c[h[k]]
  <2> TAKE k \in 1 .. n - 1
  <2>1. CASE k < a
    BY <1>1, <1>2, <1>4, <2>1
  <2>2. CASE ~(k < a)
    <3>1. k - (a - 1) \in 1 .. n - a /\ a + (k - (a - 1)) = k + 1 /\ ~(k <= a - 1)
      BY <1>1, <2>2
    <3> QED BY <1>1, <1>3, <1>4, <2>2, <3>1
  <2> QED BY <2>1, <2>2
<1>6. \A p \in 1 .. n : c[p].id \notin {id} => \E k \in 1 .. n - 1 : h[k] = p
  <2> TAKE p \in 1 .. n
  <2> HAVE c[p].id \notin {id}
  <2>1. p # a
    BY <1>1
  <2>2. CASE p < a
    <3>1. p \in 1 .. n - 1 /\ h[p] = p
      BY <1>1, <2>2
    <3> QED BY <3>1
  <2>3. CASE p > a
    <3>1. p - 1 \in 1 .. n - 1 /\ h[p - 1] = p
      BY <1>1, <2>3
    <3> QED BY <3>1
  <2> QED BY <1>1, <2>1, <2>2, <2>3
<1>7. \A j, k \in 1 .. n - 1 : j < k => h[j] < h[k]
  BY <1>1
<1>8. IsSeq(e)
  BY <1>4, SeqOfRange DEF IsSeq
<1>9. Embeds(h, e, c, {id})
  <2>1. h \in [1 .. n - 1 -> 1 .. n]
    BY <1>5
  <2> HIDE DEF h, e
  <2>2. \A k \in 1 .. n - 1 : Same(e[k], c[h[k]])
    BY <1>1, <1>5 DEF Same
  <2> QED BY <1>4, <1>6, <2>1, <2>2 DEF Embeds, n
<1>10. Without(c, id) = e
  BY DEF Without, RemoveAt, a, n, s, t
<1> HIDE DEF e, h
<1> QED BY <1>4, <1>7, <1>8, <1>9, <1>10 DEF Thins

LEMMA EraseThins ==
    ASSUME NEW c, Sound(c), NEW ids
    PROVE  Thins(Erase(c, ids), c, ids)
<1> DEFINE kept == {p \in DOMAIN c : c[p].id \notin ids}
           m == Cardinality(kept)
           e == Erase(c, ids)
           h == [k \in 1 .. m |-> Nth(kept, k)]
<1>1. /\ Len(c) \in Nat /\ DOMAIN c = 1 .. Len(c) /\ IsSeq(c)
      /\ \A p \in 1 .. Len(c) : c[p] \in Range(c) /\ IsInstruction(c[p])
  BY SeqFacts DEF Sound
<1>2. kept \subseteq 1 .. Len(c)
  BY <1>1
<1>3. e = [k \in 1 .. m |-> c[Nth(kept, k)]]
  BY DEF Erase
<1>4. \A p \in 1 .. Len(c) : c[p].id \notin ids => p \in kept
  BY <1>1
<1> HIDE DEF kept, e
<1>5. /\ m \in Nat
      /\ \A k \in 1 .. m : Nth(kept, k) \in kept
      /\ \A p \in kept : \E k \in 1 .. m : Nth(kept, k) = p
      /\ \A j, k \in 1 .. m : j < k => Nth(kept, j) < Nth(kept, k)
  BY <1>1, <1>2, NthIs
<1> HIDE DEF m
<1>6. e \in Seq(Range(c)) /\ Len(e) = m
  <2>1. e \in [1 .. m -> Range(c)]
    BY <1>1, <1>2, <1>3, <1>5
  <2>2. e \in Seq(Range(c))
    BY <1>5, <2>1, SeqDef
  <2> QED BY <1>5, <2>1, <2>2, LenProperties
<1>7. Embeds(h, e, c, ids)
  <2>1. h \in [1 .. m -> 1 .. Len(c)]
    BY <1>2, <1>5
  <2>2. \A k \in 1 .. m : Same(e[k], c[h[k]])
    BY <1>1, <1>2, <1>3, <1>5 DEF Same
  <2>3. \A p \in 1 .. Len(c) : c[p].id \notin ids => \E k \in 1 .. m : h[k] = p
    BY <1>4, <1>5
  <2> HIDE DEF h
  <2> QED BY <1>6, <2>1, <2>2, <2>3 DEF Embeds
<1>8. \A j, k \in 1 .. m : j < k => h[j] < h[k]
  BY <1>5
<1> HIDE DEF h
<1> QED BY <1>6, <1>7, <1>8, SeqOfRange DEF Thins, IsSeq, e

LEMMA SliceIs ==
    ASSUME NEW c, IsSeq(c), NEW m \in 1 .. Len(c) + 1, NEW n \in 0 .. Len(c), m <= n + 1
    PROVE  /\ SubSeq(c, m, n) \in Seq(Range(c)) /\ Len(SubSeq(c, m, n)) = n - m + 1
           /\ \A k \in 1 .. n - m + 1 : SubSeq(c, m, n)[k] = c[m + k - 1]
<1>1. Len(c) \in Nat /\ m \in Int /\ n \in Int
  BY SeqFacts
<1>2. \A k \in m .. n : c[k] \in Range(c)
  BY <1>1, SeqFacts
<1>3. /\ SubSeq(c, m, n) \in Seq(Range(c))
      /\ Len(SubSeq(c, m, n)) = IF m <= n THEN n - m + 1 ELSE 0
      /\ \A k \in 1 .. n - m + 1 : SubSeq(c, m, n)[k] = c[m + k - 1]
  BY <1>1, <1>2, SubSeqProperties
<1>4. (IF m <= n THEN n - m + 1 ELSE 0) = n - m + 1
  BY <1>1
<1> QED BY <1>3, <1>4

LEMMA JoinIs ==
    ASSUME NEW S, NEW s \in Seq(S), NEW t \in Seq(S)
    PROVE  /\ s \o t \in Seq(S) /\ Len(s \o t) = Len(s) + Len(t)
           /\ Len(s) \in Nat /\ Len(t) \in Nat
           /\ \A k \in 1 .. Len(s) : (s \o t)[k] = s[k]
           /\ \A k \in 1 .. Len(t) : (s \o t)[Len(s) + k] = t[k]
<1>1. Len(s) \in Nat /\ Len(t) \in Nat
  BY LenProperties
<1>2. /\ s \o t \in Seq(S) /\ Len(s \o t) = Len(s) + Len(t)
      /\ \A i \in 1 .. Len(s) + Len(t) : (s \o t)[i] = IF i <= Len(s) THEN s[i] ELSE t[i - Len(s)]
  BY ConcatProperties
<1>3. \A k \in 1 .. Len(s) : (s \o t)[k] = s[k]
  <2> TAKE k \in 1 .. Len(s)
  <2>1. k \in 1 .. Len(s) + Len(t) /\ k <= Len(s)
    BY <1>1
  <2> QED BY <1>2, <2>1
<1>4. \A k \in 1 .. Len(t) : (s \o t)[Len(s) + k] = t[k]
  <2> TAKE k \in 1 .. Len(t)
  <2>1. Len(s) + k \in 1 .. Len(s) + Len(t) /\ ~(Len(s) + k <= Len(s)) /\ Len(s) + k - Len(s) = k
    BY <1>1
  <2> QED BY <1>2, <2>1
<1> QED BY <1>1, <1>2, <1>3, <1>4

\* Four pieces of a block, the second or the third being one instruction.
LEMMA PiecesAre ==
    ASSUME NEW S, NEW s \in Seq(S), NEW t \in Seq(S), NEW u \in Seq(S), NEW v \in Seq(S),
           NEW e, e = s \o t \o u \o v
    PROVE  /\ e \in Seq(S) /\ Len(e) = Len(s) + Len(t) + Len(u) + Len(v)
           /\ \A k \in 1 .. Len(s) : e[k] = s[k]
           /\ \A k \in 1 .. Len(t) : e[Len(s) + k] = t[k]
           /\ \A k \in 1 .. Len(u) : e[Len(s) + Len(t) + k] = u[k]
           /\ \A k \in 1 .. Len(v) : e[Len(s) + Len(t) + Len(u) + k] = v[k]
<1> DEFINE a == s \o t
           b == a \o u
<1>0. e = b \o v
  OBVIOUS
<1>1. /\ a \in Seq(S) /\ Len(a) = Len(s) + Len(t) /\ Len(s) \in Nat /\ Len(t) \in Nat
      /\ \A k \in 1 .. Len(s) : a[k] = s[k]
      /\ \A k \in 1 .. Len(t) : a[Len(s) + k] = t[k]
  BY JoinIs
<1> HIDE DEF a
<1>2. /\ b \in Seq(S) /\ Len(b) = Len(a) + Len(u) /\ Len(u) \in Nat
      /\ \A k \in 1 .. Len(a) : b[k] = a[k]
      /\ \A k \in 1 .. Len(u) : b[Len(a) + k] = u[k]
  <2>1. a \in Seq(S)
    BY <1>1
  <2> QED BY <2>1, JoinIs
<1> HIDE DEF b
<1>3. /\ e \in Seq(S) /\ Len(e) = Len(b) + Len(v) /\ Len(v) \in Nat
      /\ \A k \in 1 .. Len(b) : e[k] = b[k]
      /\ \A k \in 1 .. Len(v) : e[Len(b) + k] = v[k]
  <2>1. b \in Seq(S)
    BY <1>2
  <2> HIDE DEF b
  <2> QED BY <1>0, <2>1, JoinIs
<1>4. \A k \in 1 .. Len(s) : k \in 1 .. Len(a) /\ k \in 1 .. Len(b)
  BY <1>1, <1>2
<1>5. \A k \in 1 .. Len(t) : Len(s) + k \in 1 .. Len(a) /\ Len(s) + k \in 1 .. Len(b)
  BY <1>1, <1>2
<1>6. \A k \in 1 .. Len(u) : Len(s) + Len(t) + k \in 1 .. Len(b)
  BY <1>1, <1>2
<1>7. Len(b) = Len(s) + Len(t) + Len(u)
  BY <1>1, <1>2
<1>8. \A k \in 1 .. Len(s) : e[k] = s[k]
  BY <1>1, <1>2, <1>3, <1>4
<1>9. \A k \in 1 .. Len(t) : e[Len(s) + k] = t[k]
  BY <1>1, <1>2, <1>3, <1>5
<1>10. \A k \in 1 .. Len(u) : e[Len(s) + Len(t) + k] = u[k]
  BY <1>1, <1>2, <1>3, <1>6, SMTT(30)
<1>11. \A k \in 1 .. Len(v) : e[Len(s) + Len(t) + Len(u) + k] = v[k]
  BY <1>3, <1>7
<1> QED BY <1>1, <1>2, <1>3, <1>7, <1>8, <1>9, <1>10, <1>11

LEMMA MoveUpPermutes ==
    ASSUME NEW c, Sound(c), NEW p \in 1 .. Len(c), p < Len(c), NEW to \in 1 .. p
    PROVE  Permutes(MoveUp(c, p, to), c, {})
<1> DEFINE n == Len(c)
           s == SubSeq(c, 1, to - 1)
           t == <<c[p]>>
           u == SubSeq(c, to, p - 1)
           v == SubSeq(c, p + 1, n)
           e == s \o t \o u \o v
           h == [k \in 1 .. n |-> IF k < to \/ p < k THEN k ELSE IF k = to THEN p ELSE k - 1]
<1>1. /\ n \in Nat /\ p \in 1 .. n /\ to \in 1 .. p /\ p < n /\ IsSeq(c)
      /\ \A k \in 1 .. n : c[k] \in Range(c) /\ IsInstruction(c[k])
  BY SeqFacts DEF Sound
<1>2. /\ s \in Seq(Range(c)) /\ Len(s) = to - 1
      /\ \A k \in 1 .. to - 1 : s[k] = c[k]
  <2>1. 1 \in 1 .. n + 1 /\ to - 1 \in 0 .. n /\ 1 <= (to - 1) + 1 /\ (to - 1) - 1 + 1 = to - 1
    BY <1>1
  <2>2. \A k \in 1 .. to - 1 : 1 + k - 1 = k
    BY <1>1
  <2> QED BY <1>1, <2>1, <2>2, SliceIs
<1>3. /\ u \in Seq(Range(c)) /\ Len(u) = p - to
      /\ \A k \in 1 .. p - to : u[k] = c[to + k - 1]
  <2>1. to \in 1 .. n + 1 /\ p - 1 \in 0 .. n /\ to <= (p - 1) + 1 /\ (p - 1) - to + 1 = p - to
    BY <1>1
  <2> QED BY <1>1, <2>1, SliceIs
<1>4. /\ v \in Seq(Range(c)) /\ Len(v) = n - p
      /\ \A k \in 1 .. n - p : v[k] = c[p + k]
  <2>1. p + 1 \in 1 .. n + 1 /\ n \in 0 .. n /\ p + 1 <= n + 1 /\ n - (p + 1) + 1 = n - p
    BY <1>1
  <2>2. \A k \in 1 .. n - p : (p + 1) + k - 1 = p + k
    BY <1>1, SMTT(60)
  <2>3. /\ v \in Seq(Range(c)) /\ Len(v) = n - (p + 1) + 1
        /\ \A k \in 1 .. n - (p + 1) + 1 : v[k] = c[(p + 1) + k - 1]
    BY <1>1, <2>1, SliceIs
  <2> HIDE DEF v
  <2> QED BY <2>1, <2>2, <2>3
<1>5. t \in Seq(Range(c)) /\ Len(t) = 1 /\ t[1] = c[p]
  BY <1>1
<1> HIDE DEF s, t, u, v
<1>6. /\ e \in Seq(Range(c)) /\ Len(e) = n
      /\ \A k \in 1 .. to - 1 : e[k] = s[k]
      /\ \A k \in 1 .. 1 : e[to - 1 + k] = t[k]
      /\ \A k \in 1 .. p - to : e[to - 1 + 1 + k] = u[k]
      /\ \A k \in 1 .. n - p : e[to - 1 + 1 + (p - to) + k] = v[k]
  <2>1. /\ e \in Seq(Range(c)) /\ Len(e) = Len(s) + Len(t) + Len(u) + Len(v)
        /\ \A k \in 1 .. Len(s) : e[k] = s[k]
        /\ \A k \in 1 .. Len(t) : e[Len(s) + k] = t[k]
        /\ \A k \in 1 .. Len(u) : e[Len(s) + Len(t) + k] = u[k]
        /\ \A k \in 1 .. Len(v) : e[Len(s) + Len(t) + Len(u) + k] = v[k]
    <3>1. s \in Seq(Range(c)) /\ t \in Seq(Range(c)) /\ u \in Seq(Range(c)) /\ v \in Seq(Range(c))
      BY <1>2, <1>3, <1>4, <1>5
    <3>2. e = s \o t \o u \o v
      OBVIOUS
    <3> HIDE DEF n, h, e
    <3> QED BY <3>1, <3>2, PiecesAre, SMTT(60)
  <2>2. Len(s) = to - 1 /\ Len(t) = 1 /\ Len(u) = p - to /\ Len(v) = n - p
    BY <1>2, <1>3, <1>4, <1>5
  <2>3. (to - 1) + 1 + (p - to) + (n - p) = n
    BY <1>1
  <2> HIDE DEF e
  <2> QED BY <2>1, <2>2, <2>3
<1> HIDE DEF e, n
<1>7. \A k \in 1 .. n : h[k] \in 1 .. n /\ e[k] = c[h[k]]
  <2> TAKE k \in 1 .. n
  <2>1. CASE k < to
    <3>1. k \in 1 .. to - 1 /\ h[k] = k
      BY <1>1, <2>1
    <3>2. e[k] = s[k] /\ s[k] = c[k]
      BY <1>2, <1>6, <3>1
    <3> QED BY <3>1, <3>2
  <2>2. CASE k = to
    <3>1. e[to - 1 + 1] = t[1] /\ to - 1 + 1 = to
      BY <1>1, <1>6
    <3> QED BY <1>1, <1>5, <2>2, <3>1
  <2>3. CASE to < k /\ k <= p
    <3>1. k - to \in 1 .. p - to /\ to - 1 + 1 + (k - to) = k /\ to + (k - to) - 1 = k - 1
      BY <1>1, <2>3
    <3>2. e[k] = u[k - to] /\ u[k - to] = c[k - 1]
      BY <1>3, <1>6, <3>1
    <3>3. h[k] = k - 1 /\ k - 1 \in 1 .. n
      BY <1>1, <2>3
    <3> QED BY <3>2, <3>3
  <2>4. CASE p < k
    <3>1. k - p \in 1 .. n - p /\ to - 1 + 1 + (p - to) + (k - p) = k /\ p + (k - p) = k
      BY <1>1, <2>4
    <3>2. e[k] = v[k - p] /\ v[k - p] = c[k]
      BY <1>4, <1>6, <3>1
    <3>3. h[k] = k
      BY <1>1, <2>4
    <3> QED BY <3>2, <3>3
  <2> QED BY <1>1, <2>1, <2>2, <2>3, <2>4
<1>8. \A q \in 1 .. n : \E k \in 1 .. n : h[k] = q
  <2> TAKE q \in 1 .. n
  <2>1. CASE q < to \/ p < q
    BY <1>1, <2>1
  <2>2. CASE q = p
    BY <1>1, <2>2
  <2>3. CASE to <= q /\ q < p
    <3>1. q + 1 \in 1 .. n /\ h[q + 1] = q
      BY <1>1, <2>3
    <3> QED BY <3>1
  <2> QED BY <1>1, <2>1, <2>2, <2>3
<1>9. \A j, k \in 1 .. n : h[j] = h[k] => j = k
  BY <1>1
<1>10. n > 0 /\ h[n] = n
  BY <1>1
<1>11. Embeds(h, e, c, {})
  <2>1. h \in [1 .. n -> 1 .. n]
    BY <1>7
  <2> HIDE DEF h
  <2>2. \A k \in 1 .. n : Same(e[k], c[h[k]])
    BY <1>1, <1>7 DEF Same
  <2> QED BY <1>6, <1>8, <2>1, <2>2 DEF Embeds, n
<1>12. IsSeq(e)
  BY <1>6, SeqOfRange DEF IsSeq
<1>13. MoveUp(c, p, to) = e
  BY DEF MoveUp, e, s, t, u, v, n
<1> HIDE DEF h
<1> QED BY <1>6, <1>9, <1>10, <1>11, <1>12, <1>13 DEF Permutes, n

LEMMA MoveDownPermutes ==
    ASSUME NEW c, Sound(c), NEW p \in 1 .. Len(c), NEW to \in p + 1 .. Len(c)
    PROVE  Permutes(MoveDown(c, p, to), c, {})
<1> DEFINE n == Len(c)
           s == SubSeq(c, 1, p - 1)
           t == SubSeq(c, p + 1, to - 1)
           u == <<c[p]>>
           v == SubSeq(c, to, n)
           e == s \o t \o u \o v
           h == [k \in 1 .. n |-> IF k < p \/ to <= k THEN k ELSE IF k = to - 1 THEN p ELSE k + 1]
<1>1. /\ n \in Nat /\ p \in 1 .. n /\ to \in p + 1 .. n /\ IsSeq(c)
      /\ \A k \in 1 .. n : c[k] \in Range(c) /\ IsInstruction(c[k])
  BY SeqFacts DEF Sound
<1>2. /\ s \in Seq(Range(c)) /\ Len(s) = p - 1
      /\ \A k \in 1 .. p - 1 : s[k] = c[k]
  <2>1. 1 \in 1 .. n + 1 /\ p - 1 \in 0 .. n /\ 1 <= (p - 1) + 1 /\ (p - 1) - 1 + 1 = p - 1
    BY <1>1
  <2>2. \A k \in 1 .. p - 1 : 1 + k - 1 = k
    BY <1>1
  <2> QED BY <1>1, <2>1, <2>2, SliceIs
<1>3. /\ t \in Seq(Range(c)) /\ Len(t) = to - p - 1
      /\ \A k \in 1 .. to - p - 1 : t[k] = c[p + k]
  <2>1. /\ p + 1 \in 1 .. n + 1 /\ to - 1 \in 0 .. n /\ p + 1 <= (to - 1) + 1
        /\ (to - 1) - (p + 1) + 1 = to - p - 1
    BY <1>1
  <2>2. \A k \in 1 .. to - p - 1 : (p + 1) + k - 1 = p + k
    BY <1>1
  <2> QED BY <1>1, <2>1, <2>2, SliceIs
<1>4. /\ v \in Seq(Range(c)) /\ Len(v) = n - to + 1
      /\ \A k \in 1 .. n - to + 1 : v[k] = c[to + k - 1]
  <2>1. to \in 1 .. n + 1 /\ n \in 0 .. n /\ to <= n + 1
    BY <1>1
  <2> QED BY <1>1, <2>1, SliceIs
<1>5. u \in Seq(Range(c)) /\ Len(u) = 1 /\ u[1] = c[p]
  BY <1>1
<1> HIDE DEF s, t, u, v
<1>6. /\ e \in Seq(Range(c)) /\ Len(e) = n
      /\ \A k \in 1 .. p - 1 : e[k] = s[k]
      /\ \A k \in 1 .. to - p - 1 : e[p - 1 + k] = t[k]
      /\ \A k \in 1 .. 1 : e[p - 1 + (to - p - 1) + k] = u[k]
      /\ \A k \in 1 .. n - to + 1 : e[p - 1 + (to - p - 1) + 1 + k] = v[k]
  <2>1. /\ e \in Seq(Range(c)) /\ Len(e) = Len(s) + Len(t) + Len(u) + Len(v)
        /\ \A k \in 1 .. Len(s) : e[k] = s[k]
        /\ \A k \in 1 .. Len(t) : e[Len(s) + k] = t[k]
        /\ \A k \in 1 .. Len(u) : e[Len(s) + Len(t) + k] = u[k]
        /\ \A k \in 1 .. Len(v) : e[Len(s) + Len(t) + Len(u) + k] = v[k]
    <3>1. s \in Seq(Range(c)) /\ t \in Seq(Range(c)) /\ u \in Seq(Range(c)) /\ v \in Seq(Range(c))
      BY <1>2, <1>3, <1>4, <1>5
    <3>2. e = s \o t \o u \o v
      OBVIOUS
    <3> HIDE DEF n, h, e
    <3> QED BY <3>1, <3>2, PiecesAre, SMTT(60)
  <2>2. Len(s) = p - 1 /\ Len(t) = to - p - 1 /\ Len(u) = 1 /\ Len(v) = n - to + 1
    BY <1>2, <1>3, <1>4, <1>5
  <2>3. (p - 1) + (to - p - 1) + 1 + (n - to + 1) = n
    BY <1>1
  <2> HIDE DEF e
  <2> QED BY <2>1, <2>2, <2>3
<1> HIDE DEF e, n
<1>7. \A k \in 1 .. n : h[k] \in 1 .. n /\ e[k] = c[h[k]]
  <2> TAKE k \in 1 .. n
  <2>1. CASE k < p
    <3>1. k \in 1 .. p - 1 /\ h[k] = k
      BY <1>1, <2>1
    <3>2. e[k] = s[k] /\ s[k] = c[k]
      BY <1>2, <1>6, <3>1
    <3> QED BY <3>1, <3>2
  <2>2. CASE p <= k /\ k < to - 1
    <3>1. k - p + 1 \in 1 .. to - p - 1 /\ p - 1 + (k - p + 1) = k /\ p + (k - p + 1) = k + 1
      BY <1>1, <2>2
    <3>2. e[k] = t[k - p + 1] /\ t[k - p + 1] = c[k + 1]
      BY <1>3, <1>6, <3>1
    <3>3. h[k] = k + 1 /\ k + 1 \in 1 .. n
      BY <1>1, <2>2
    <3> QED BY <3>2, <3>3
  <2>3. CASE k = to - 1
    <3>1. e[p - 1 + (to - p - 1) + 1] = u[1] /\ p - 1 + (to - p - 1) + 1 = k
      BY <1>1, <1>6, <2>3
    <3>2. h[k] = p
      BY <1>1, <2>3
    <3> QED BY <1>1, <1>5, <3>1, <3>2
  <2>4. CASE to <= k
    <3>1. /\ k - to + 1 \in 1 .. n - to + 1 /\ p - 1 + (to - p - 1) + 1 + (k - to + 1) = k
          /\ to + (k - to + 1) - 1 = k
      BY <1>1, <2>4
    <3>2. e[k] = v[k - to + 1] /\ v[k - to + 1] = c[k]
      BY <1>4, <1>6, <3>1
    <3>3. h[k] = k
      BY <1>1, <2>4
    <3> QED BY <3>2, <3>3
  <2> QED BY <1>1, <2>1, <2>2, <2>3, <2>4
<1>8. \A q \in 1 .. n : \E k \in 1 .. n : h[k] = q
  <2> TAKE q \in 1 .. n
  <2>1. CASE q < p \/ to <= q
    BY <1>1, <2>1
  <2>2. CASE q = p
    <3>1. to - 1 \in 1 .. n /\ h[to - 1] = p
      BY <1>1
    <3> QED BY <2>2, <3>1
  <2>3. CASE p < q /\ q < to
    <3>1. q - 1 \in 1 .. n /\ h[q - 1] = q
      BY <1>1, <2>3
    <3> QED BY <3>1
  <2> QED BY <1>1, <2>1, <2>2, <2>3
<1>9. \A j, k \in 1 .. n : h[j] = h[k] => j = k
  BY <1>1
<1>10. n > 0 /\ h[n] = n
  BY <1>1
<1>11. Embeds(h, e, c, {})
  <2>1. h \in [1 .. n -> 1 .. n]
    BY <1>7
  <2> HIDE DEF h
  <2>2. \A k \in 1 .. n : Same(e[k], c[h[k]])
    BY <1>1, <1>7 DEF Same
  <2> QED BY <1>6, <1>8, <2>1, <2>2 DEF Embeds, n
<1>12. IsSeq(e)
  BY <1>6, SeqOfRange DEF IsSeq
<1>13. MoveDown(c, p, to) = e
  BY DEF MoveDown, e, s, t, u, v, n
<1> HIDE DEF h
<1> QED BY <1>6, <1>9, <1>10, <1>11, <1>12, <1>13 DEF Permutes, n

\* A sound block stays sound as long as its terminator stays.
LEMMA PermutesSound ==
    ASSUME NEW c, NEW e, NEW gone, Sound(c), Permutes(e, c, gone), c[Len(c)].id \notin gone
    PROVE  /\ Sound(e) /\ Ids(e) \subseteq Ids(c) /\ Ids(c) \ gone \subseteq Ids(e)
           /\ \A k \in 1 .. Len(e) : \E p \in 1 .. Len(c) : Same(e[k], c[p])
<1>1. PICK h : /\ Embeds(h, e, c, gone)
               /\ \A j, k \in 1 .. Len(e) : h[j] = h[k] => j = k
               /\ Len(c) > 0 /\ c[Len(c)].id \notin gone => Len(e) > 0 /\ h[Len(e)] = Len(c)
  BY DEF Permutes
<1>2. IsSeq(c) /\ IsSeq(e) /\ Len(c) \in Nat /\ Len(e) \in Nat /\ Len(c) > 0 /\ Len(e) > 0
  BY <1>1, SeqFacts DEF Sound, Permutes
<1>3. \A k \in 1 .. Len(e) : h[k] \in 1 .. Len(c) /\ Same(e[k], c[h[k]])
  BY <1>1 DEF Embeds
<1>4. Distinct(e)
  <2> SUFFICES ASSUME NEW j \in 1 .. Len(e), NEW k \in 1 .. Len(e), e[j].id = e[k].id
               PROVE  j = k
    BY DEF Distinct
  <2>1. c[h[j]].id = c[h[k]].id /\ h[j] \in 1 .. Len(c) /\ h[k] \in 1 .. Len(c)
    BY <1>3 DEF Same
  <2>2. h[j] = h[k]
    BY <2>1 DEF Sound, Distinct
  <2> QED BY <1>1, <2>2
<1>5. \A k \in 1 .. Len(e) : IsInstruction(e[k]) /\ e[k].id \in Nat \ {End}
  BY <1>3 DEF Sound, Same
<1>6. e[Len(e)].op = "ret"
  <2>1. Len(e) \in 1 .. Len(e) /\ h[Len(e)] = Len(c)
    BY <1>1, <1>2
  <2> QED BY <1>3, <2>1 DEF Same, Sound
<1>7. Ids(e) \subseteq Ids(c)
  BY <1>2, <1>3, SeqFacts, SMTT(60) DEF Same
<1>8. Ids(c) \ gone \subseteq Ids(e)
  <2> SUFFICES ASSUME NEW p \in 1 .. Len(c), c[p].id \notin gone
               PROVE  c[p].id \in Ids(e)
    BY <1>2, SeqFacts
  <2>1. PICK k \in 1 .. Len(e) : h[k] = p
    BY <1>1 DEF Embeds
  <2>2. e[k].id = c[p].id
    BY <1>3, <2>1 DEF Same
  <2> QED BY <1>2, <2>2, SeqFacts, SMTT(30)
<1>9. e # << >>
  BY <1>2, SeqFacts
<1> QED BY <1>2, <1>3, <1>4, <1>5, <1>6, <1>7, <1>8, <1>9 DEF Sound

-----------------------------------------------------------------------------
(* The invariant *)

\* No retain that returns its argument.
Clean(i) == Classify(i) \notin NotCanonical

\* The instructions before, and from, the one an iterator points at.
CleanBefore(c, id) == \A k \in 1 .. Len(c) : id = End \/ k < At(c, id) => Clean(c[k])
CleanFrom(c, id)   == \A k \in 1 .. Len(c) : ~(id = End \/ k < At(c, id)) => Clean(c[k])
AllClean(c)        == \A k \in 1 .. Len(c) : Clean(c[k])

\* The triple that canonicalization may build for a call gets an identity of its own.
Fresh(c, n) == \A k \in 1 .. Len(c) : c[k].op = "retain3" => c[k].id <= n /\ n + c[k].id \notin Ids(c)

ArcInv ==
    /\ IteratorValid /\ StaysCanonical
    /\ pass \in {"canonicalize", "optimize", "expand"} => Sound(code)
    /\ pass \in {"return", "done"} => next = End
    /\ pass = "canonicalize" => Fresh(code, Len(given)) /\ Len(given) \in Nat /\ CleanBefore(code, next)
    /\ pass = "optimize" => AllClean(code)
    /\ pass = "expand" => CleanFrom(code, next)

LEMMA CleanIs ==
    ASSUME NEW i
    PROVE  Clean(i) <=> i.op \notin {"retain", "retain3"}
BY DEF Clean, Classify, NotCanonical, Pure

LEMMA SameClean ==
    ASSUME NEW i, NEW j, Same(i, j)
    PROVE  Clean(i) <=> Clean(j)
BY CleanIs DEF Same

\* An edit of canonicalization behind which everything is clean.
LEMMA CanonicalEdit ==
    ASSUME NEW c, NEW e, NEW gone, NEW n, Sound(c), Thins(e, c, gone), Fresh(c, n),
           c[Len(c)].id \notin gone, NEW b \in 1 .. Len(c) + 1,
           b <= Len(c) => c[b].id \notin gone,
           \A k \in 1 .. b - 1 : Clean(c[k])
    PROVE  /\ Sound(e) /\ Fresh(e, n)
           /\ IdAt(c, b) \in Ids(e) \cup {End} /\ CleanBefore(e, IdAt(c, b))
<1>1. /\ IsSeq(c) /\ IsSeq(e) /\ Len(c) \in Nat /\ Len(e) \in Nat /\ DOMAIN c = 1 .. Len(c)
  BY SeqFacts DEF Sound, Thins
<1>2. PICK h : /\ Embeds(h, e, c, gone)
               /\ \A j, k \in 1 .. Len(e) : j < k => h[j] < h[k]
  BY DEF Thins
<1>3. \A k \in 1 .. Len(e) : h[k] \in 1 .. Len(c) /\ Same(e[k], c[h[k]])
  BY <1>2 DEF Embeds
<1>4. Sound(e) /\ Ids(e) \subseteq Ids(c) /\ Distinct(e)
  BY <1>1, ThinsPermutes, PermutesSound DEF Sound
<1>5. Fresh(e, n)
  <2> SUFFICES ASSUME NEW k \in 1 .. Len(e), e[k].op = "retain3"
               PROVE  e[k].id <= n /\ n + e[k].id \notin Ids(e)
    BY DEF Fresh
  <2>1. c[h[k]].op = "retain3" /\ c[h[k]].id = e[k].id /\ h[k] \in 1 .. Len(c)
    BY <1>3 DEF Same
  <2> QED BY <1>4, <2>1 DEF Fresh
<1>6. CASE b <= Len(c)
  <2>1. b \in 1 .. Len(c) /\ IdAt(c, b) = c[b].id
    BY <1>1, <1>6 DEF IdAt
  <2>2. PICK m \in 1 .. Len(e) : h[m] = b
    BY <1>2, <1>6, <2>1 DEF Embeds
  <2>3. e[m].id = IdAt(c, b)
    BY <1>3, <2>1, <2>2 DEF Same
  <2>4. IdAt(c, b) \in Ids(e) /\ At(e, IdAt(c, b)) = m
    BY <1>1, <1>4, <2>3, AtIs
  <2>5. IdAt(c, b) # End
    BY <2>1 DEF Sound
  <2>6. ASSUME NEW k \in 1 .. Len(e), k < m PROVE Clean(e[k])
    <3>1. h[k] \in 1 .. b - 1
      BY <1>1, <1>2, <1>3, <2>1, <2>2, <2>6
    <3> QED BY <1>3, <3>1, SameClean
  <2> QED BY <1>4, <1>5, <2>4, <2>5, <2>6 DEF CleanBefore
<1>7. CASE b > Len(c)
  <2>1. IdAt(c, b) = End
    BY <1>1, <1>7 DEF IdAt
  <2>2. \A k \in 1 .. Len(e) : h[k] \in 1 .. b - 1
    BY <1>1, <1>3, <1>7
  <2>3. \A k \in 1 .. Len(e) : Clean(e[k])
    BY <1>3, <2>2, SameClean
  <2> QED BY <1>4, <1>5, <2>1, <2>3 DEF CleanBefore
<1> QED BY <1>1, <1>6, <1>7

\* The instruction in one place changes, but for its identity.
LEMMA RetagIs ==
    ASSUME NEW c, NEW e, Sound(c), IsSeq(e), Len(e) = Len(c),
           \A k \in 1 .. Len(c) : IsInstruction(e[k]) /\ e[k].id = c[k].id,
           e[Len(c)].op = "ret"
    PROVE  /\ Sound(e) /\ Ids(e) = Ids(c)
           /\ \A id \in Ids(c) : At(e, id) = At(c, id)
<1>1. IsSeq(c) /\ Len(c) \in Nat /\ Len(c) > 0
  BY SeqFacts DEF Sound
<1>2. Distinct(e) /\ Distinct(c)
  BY DEF Sound, Distinct
<1>3. e # << >> /\ e[Len(e)].op = "ret"
  <2>1. Len(e) > 0
    BY <1>1
  <2> QED BY <1>1, <2>1, SeqFacts DEF Sound
<1>4. Sound(e)
  BY <1>2, <1>3 DEF Sound
<1>5. Ids(e) = Ids(c)
  <2>1. Ids(c) = {c[k].id : k \in 1 .. Len(c)}
    BY <1>1, SeqFacts
  <2>2. Ids(e) = {e[k].id : k \in 1 .. Len(c)}
    BY SeqFacts
  <2> QED BY <2>1, <2>2
<1>6. ASSUME NEW id \in Ids(c) PROVE At(e, id) = At(c, id)
  <2>1. At(c, id) \in 1 .. Len(c) /\ c[At(c, id)].id = id
    BY <1>1, <1>2, AtIs
  <2>2. e[At(c, id)].id = id
    BY <2>1
  <2> QED BY <1>2, <2>1, <2>2, AtIs
<1> QED BY <1>4, <1>5, <1>6

LEMMA PutIs ==
    ASSUME NEW c, IsSeq(c), NEW p \in 1 .. Len(c), NEW i
    PROVE  LET e == [c EXCEPT ![p] = i]
           IN  /\ IsSeq(e) /\ Len(e) = Len(c)
               /\ e[p] = i /\ \A k \in 1 .. Len(c) : k # p => e[k] = c[k]
<1> DEFINE e == [c EXCEPT ![p] = i]
           S == Range(c) \cup {i}
<1>1. c \in Seq(S) /\ i \in S
  BY SeqMonotonic DEF IsSeq
<1>2. /\ e \in Seq(S) /\ Len(e) = Len(c)
      /\ \A j \in 1 .. Len(c) : e[j] = IF j = p THEN i ELSE c[j]
  <2> HIDE DEF S
  <2> QED BY <1>1, ExceptSeq
<1>3. IsSeq(e)
  BY <1>2, SeqOfRange DEF IsSeq
<1> QED BY <1>2, <1>3

\* Where a pass is.
LEMMA VisitFacts ==
    ASSUME ArcInv, NEW p \in {"canonicalize", "optimize", "expand"}, Visit(p)
    PROVE  /\ pass = p /\ Sound(code) /\ IsSeq(code) /\ Distinct(code)
           /\ Len(code) \in Nat /\ Here \in 1 .. Len(code) /\ I = code[Here] /\ I.id = next
           /\ IsInstruction(I) /\ next \in Ids(code) /\ next # End
           /\ (I.op # "ret" => Here \in 1 .. Len(code) - 1)
           /\ Then = IdAt(code, Here + 1) /\ IdAt(code, Here) = next
<1>1. pass = p /\ Sound(code) /\ IsSeq(code) /\ Distinct(code) /\ Len(code) \in Nat
      /\ DOMAIN code = 1 .. Len(code)
  BY SeqFacts DEF Visit, ArcInv, Sound
<1>2. next \in Ids(code) /\ next # End
  BY DEF ArcInv, IteratorValid, Visit
<1>3. Here \in 1 .. Len(code) /\ I = code[Here] /\ I.id = next
  BY <1>1, <1>2, AtIs DEF Here, I
<1>4. I.op # "ret" => Here # Len(code)
  BY <1>3 DEF Sound, ArcInv, Visit
<1>5. IsInstruction(I)
  BY <1>1, <1>3 DEF Sound
<1>6. Then = IdAt(code, Here + 1) /\ IdAt(code, Here) = next
  <2>1. Then = IdAt(code, Here + 1)
    BY DEF Then, After, Here
  <2>2. Here \in DOMAIN code
    BY <1>1, <1>3
  <2>3. IdAt(code, Here) = code[Here].id
    BY <2>2 DEF IdAt
  <2> QED BY <1>3, <2>1, <2>3
<1>7. ASSUME I.op # "ret" PROVE Here \in 1 .. Len(code) - 1
  <2>1. Here # Len(code)
    BY <1>4, <1>7
  <2>2. Len(code) \in Nat /\ Here \in 1 .. Len(code)
    BY <1>1, <1>3
  <2> QED BY <2>1, <2>2
<1> QED BY <1>1, <1>2, <1>3, <1>5, <1>6, <1>7

-----------------------------------------------------------------------------
(* Canonicalization *)

LEMMA ClassIs ==
    ASSUME NEW i
    PROVE  /\ Classify(i) = "Retain" <=> i.op = "retain"
           /\ Classify(i) = "RetainNoResult" <=> i.op = "retain_noresult"
           /\ Classify(i) = "RetainAndReturnThree" <=> i.op = "retain3"
           /\ Classify(i) = "Release" <=> i.op = "release"
           /\ Classify(i) = "AllocObject" <=> i.op = "alloc"
           /\ Classify(i) = "ObjCRelease" <=> i.op = "objc_release"
           /\ Classify(i) = "ObjCRetain" <=> i.op = "objc_retain"
           /\ i.op = "ret" => Classify(i) = "NoMemoryAccessed"
BY DEF Classify, Pure

\* One field changes.
LEMMA FieldIs ==
    ASSUME NEW i, IsInstruction(i), NEW x
    PROVE  /\ [i EXCEPT !.op = x]
                 = [id |-> i.id, op |-> x, def |-> i.def, args |-> i.args, tag |-> i.tag]
           /\ [i EXCEPT !.def = x]
                 = [id |-> i.id, op |-> i.op, def |-> x, args |-> i.args, tag |-> i.tag]
           /\ [i EXCEPT !.args = x]
                 = [id |-> i.id, op |-> i.op, def |-> i.def, args |-> x, tag |-> i.tag]
           /\ [i EXCEPT !.id = x]
                 = [id |-> x, op |-> i.op, def |-> i.def, args |-> i.args, tag |-> i.tag]
<1>1. [i EXCEPT !.op = x] = [id |-> i.id, op |-> x, def |-> i.def, args |-> i.args, tag |-> i.tag]
  BY DEF IsInstruction
<1>2. [i EXCEPT !.def = x] = [id |-> i.id, op |-> i.op, def |-> x, args |-> i.args, tag |-> i.tag]
  BY DEF IsInstruction
<1>3. [i EXCEPT !.args = x] = [id |-> i.id, op |-> i.op, def |-> i.def, args |-> x, tag |-> i.tag]
  BY DEF IsInstruction
<1>4. [i EXCEPT !.id = x] = [id |-> x, op |-> i.op, def |-> i.def, args |-> i.args, tag |-> i.tag]
  BY DEF IsInstruction
<1> QED BY <1>1, <1>2, <1>3, <1>4

\* Every field as it was but one.
LEMMA OpIs ==
    ASSUME NEW i, IsInstruction(i), NEW x
    PROVE  LET e == [i EXCEPT !.op = x]
           IN  IsInstruction(e) /\ e.op = x /\ e.id = i.id
BY FieldIs, Zenon DEF IsInstruction
LEMMA DefIs ==
    ASSUME NEW i, IsInstruction(i), NEW x
    PROVE  LET e == [i EXCEPT !.def = x]
           IN  IsInstruction(e) /\ e.op = i.op /\ e.id = i.id
BY FieldIs DEF IsInstruction
LEMMA ArgsAre ==
    ASSUME NEW i, IsInstruction(i), NEW x
    PROVE  LET e == [i EXCEPT !.args = x]
           IN  IsInstruction(e) /\ e.op = i.op /\ e.id = i.id
BY FieldIs DEF IsInstruction
LEMMA NewIdIs ==
    ASSUME NEW i, IsInstruction(i), NEW x
    PROVE  LET e == [i EXCEPT !.id = x]
           IN  IsInstruction(e) /\ e.op = i.op /\ e.id = x
BY FieldIs DEF IsInstruction

LEMMA CanonicalStep ==
    ASSUME ArcInv, pass = "canonicalize", pass' = pass, crash' = crash, given' = given,
           Sound(code'), Fresh(code', Len(given)),
           next' \in Ids(code') \cup {End}, CleanBefore(code', next')
    PROVE  ArcInv'
BY DEF ArcInv, IteratorValid, StaysCanonical

LEMMA CanonicalVisit ==
    ASSUME ArcInv, Visit("canonicalize")
    PROVE  /\ Fresh(code, Len(given)) /\ Len(given) \in Nat
           /\ \A k \in 1 .. Here - 1 : Clean(code[k])
           /\ Clean(I) => \A k \in 1 .. Here : Clean(code[k])
           /\ Here + 1 \in 1 .. Len(code) + 1 /\ (Here + 1) - 1 = Here
           /\ Here + 1 <= Len(code) => code[Here + 1].id # next
           /\ I.op # "ret" => code[Len(code)].id # next
<1>1. /\ Sound(code) /\ Distinct(code) /\ Len(code) \in Nat /\ Here \in 1 .. Len(code)
      /\ I = code[Here] /\ I.id = next /\ next # End /\ pass = "canonicalize"
  BY VisitFacts
<1>2. CleanBefore(code, next) /\ Fresh(code, Len(given)) /\ Len(given) \in Nat
  BY <1>1 DEF ArcInv
<1>3. \A k \in 1 .. Here - 1 : Clean(code[k])
  <2> TAKE k \in 1 .. Here - 1
  <2>1. k \in 1 .. Len(code) /\ k < At(code, next)
    BY <1>1 DEF Here
  <2> QED BY <1>2, <2>1 DEF CleanBefore
<1>4. ASSUME Clean(I), NEW k \in 1 .. Here PROVE Clean(code[k])
  <2>1. k = Here \/ k \in 1 .. Here - 1
    BY <1>1
  <2> QED BY <1>1, <1>3, <1>4, <2>1
<1>5. Here + 1 \in 1 .. Len(code) + 1 /\ (Here + 1) - 1 = Here
  BY <1>1
<1>6. ASSUME Here + 1 <= Len(code) PROVE code[Here + 1].id # next
  <2>1. Here + 1 \in 1 .. Len(code) /\ Here + 1 # Here
    BY <1>1, <1>6
  <2> QED BY <1>1, <2>1 DEF Distinct
<1>7. ASSUME I.op # "ret" PROVE code[Len(code)].id # next
  <2>1. Len(code) \in 1 .. Len(code) /\ Len(code) # Here
    BY <1>1, <1>7 DEF Sound
  <2> QED BY <1>1, <2>1 DEF Distinct
<1> QED BY <1>2, <1>3, <1>4, <1>5, <1>6, <1>7

LEMMA DeleteNullInv == ArcInv /\ DeleteNull => ArcInv'
<1> SUFFICES ASSUME ArcInv, DeleteNull PROVE ArcInv'
  OBVIOUS
<1>1. Visit("canonicalize") /\ Clean(I) /\ I.op # "ret"
  BY ClassIs DEF DeleteNull, NullsOut, Clean, NotCanonical
<1>2. Sound(code) /\ next \in Ids(code) /\ Then = IdAt(code, Here + 1) /\ pass = "canonicalize"
  BY <1>1, VisitFacts
<1>3. Thins(Without(code, next), code, {next})
  BY <1>2, WithoutThins
<1>4. /\ code' = Without(code, next) /\ next' = IdAt(code, Here + 1)
      /\ pass' = pass /\ crash' = crash /\ given' = given
  BY <1>2 DEF DeleteNull, Keep
<1>5. /\ Fresh(code, Len(given)) /\ \A k \in 1 .. (Here + 1) - 1 : Clean(code[k])
      /\ Here + 1 \in 1 .. Len(code) + 1
      /\ Here + 1 <= Len(code) => code[Here + 1].id \notin {next}
      /\ code[Len(code)].id \notin {next}
  BY <1>1, CanonicalVisit
<1>6. /\ Sound(code') /\ Fresh(code', Len(given))
      /\ next' \in Ids(code') \cup {End} /\ CleanBefore(code', next')
  BY <1>2, <1>3, <1>4, <1>5, CanonicalEdit
<1> QED BY <1>2, <1>4, <1>6, CanonicalStep

LEMMA CanonicalizeRetainInv == ArcInv /\ CanonicalizeRetain => ArcInv'
<1> SUFFICES ASSUME ArcInv, CanonicalizeRetain PROVE ArcInv'
  OBVIOUS
<1> DEFINE r == ReplaceUses(code, I.def, Subject(I))
           i == [r[Here] EXCEPT !.op = "retain_noresult", !.def = ""]
           e == [r EXCEPT ![Here] = i]
<1>1. Visit("canonicalize") /\ I.op = "retain"
  BY ClassIs DEF CanonicalizeRetain
<1>2. /\ Sound(code) /\ next \in Ids(code) /\ next # End /\ pass = "canonicalize"
      /\ Len(code) \in Nat /\ Here \in 1 .. Len(code) - 1 /\ I = code[Here]
  BY <1>1, VisitFacts
<1>3. IsSeq(r) /\ Len(r) = Len(code) /\ \A k \in 1 .. Len(code) : Same(r[k], code[k])
  BY <1>2, ReplaceIs
<1>0. code' = [r EXCEPT ![Here].op = "retain_noresult", ![Here].def = ""]
  BY DEF CanonicalizeRetain
<1> HIDE DEF r
<1>4. IsInstruction(i) /\ i.id = code[Here].id /\ i.op = "retain_noresult"
  <2>1. IsInstruction(r[Here]) /\ r[Here].id = code[Here].id
    BY <1>2, <1>3 DEF Same
  <2> DEFINE j == [r[Here] EXCEPT !.op = "retain_noresult"]
  <2>2. IsInstruction(j) /\ j.op = "retain_noresult" /\ j.id = r[Here].id
    BY <2>1, OpIs
  <2>3. i = [j EXCEPT !.def = ""]
    OBVIOUS
  <2> HIDE DEF j, i
  <2> QED BY <2>1, <2>2, <2>3, DefIs
<1>5. code' = e
  <2>1. r = [k \in 1 .. Len(r) |-> r[k]] /\ Here \in 1 .. Len(r)
    BY <1>2, <1>3, SeqFacts
  <2> QED BY <1>0, <2>1
<1> HIDE DEF i
<1>6. /\ IsSeq(e) /\ Len(e) = Len(code)
      /\ e[Here] = i /\ \A k \in 1 .. Len(code) : k # Here => e[k] = r[k]
  <2>1. Here \in 1 .. Len(r)
    BY <1>2, <1>3
  <2> QED BY <1>3, <2>1, PutIs
<1> HIDE DEF e
<1>7. \A k \in 1 .. Len(code) : IsInstruction(e[k]) /\ e[k].id = code[k].id
  BY <1>3, <1>4, <1>6 DEF Same
<1>8. \A k \in 1 .. Len(code) : k # Here => e[k].op = code[k].op
  BY <1>3, <1>6 DEF Same
<1>9. Len(code) \in 1 .. Len(code) /\ Len(code) # Here
  BY <1>2
<1>10. e[Len(code)].op = "ret"
  BY <1>2, <1>8, <1>9 DEF Sound
<1>11. Sound(e) /\ Ids(e) = Ids(code) /\ At(e, next) = Here
  BY <1>2, <1>6, <1>7, <1>10, RetagIs DEF Here
<1>12. Fresh(e, Len(given))
  <2>1. Fresh(code, Len(given))
    BY <1>1, CanonicalVisit
  <2> SUFFICES ASSUME NEW k \in 1 .. Len(e), e[k].op = "retain3"
               PROVE  e[k].id <= Len(given) /\ Len(given) + e[k].id \notin Ids(e)
    BY DEF Fresh
  <2>2. k \in 1 .. Len(code) /\ k # Here
    BY <1>4, <1>6
  <2>3. code[k].op = "retain3" /\ code[k].id = e[k].id
    BY <1>7, <1>8, <2>2
  <2> QED BY <1>11, <2>1, <2>2, <2>3 DEF Fresh
<1>13. CleanBefore(e, next)
  <2> SUFFICES ASSUME NEW k \in 1 .. Len(e), k < Here PROVE Clean(e[k])
    BY <1>2, <1>11 DEF CleanBefore
  <2>1. k \in 1 .. Here - 1 /\ k \in 1 .. Len(code) /\ k # Here
    BY <1>2, <1>6
  <2>2. Clean(code[k])
    BY <1>1, <2>1, CanonicalVisit
  <2> QED BY <1>8, <2>1, <2>2, CleanIs
<1>14. next' = next /\ pass' = pass /\ crash' = crash /\ given' = given
  BY DEF CanonicalizeRetain, Keep
<1> QED BY <1>2, <1>5, <1>11, <1>12, <1>13, <1>14, CanonicalStep

LEMMA CanonicalizeObjCRetainInv == ArcInv /\ CanonicalizeObjCRetain => ArcInv'
<1> SUFFICES ASSUME ArcInv, CanonicalizeObjCRetain PROVE ArcInv'
  OBVIOUS
<1> DEFINE r == ReplaceUses(code, I.def, Subject(I))
           i == [r[Here] EXCEPT !.def = ""]
           e == [r EXCEPT ![Here] = i]
<1>1. Visit("canonicalize") /\ I.op = "objc_retain" /\ Clean(I)
  BY ClassIs, CleanIs DEF CanonicalizeObjCRetain
<1>2. /\ Sound(code) /\ next \in Ids(code) /\ next # End /\ pass = "canonicalize"
      /\ Len(code) \in Nat /\ Here \in 1 .. Len(code) - 1 /\ I = code[Here]
      /\ Then = IdAt(code, Here + 1) /\ IsSeq(code)
  BY <1>1, VisitFacts
<1>3. IsSeq(r) /\ Len(r) = Len(code) /\ \A k \in 1 .. Len(code) : Same(r[k], code[k])
  BY <1>2, ReplaceIs
<1>0. code' = IF Subject(I) = Null THEN Without([r EXCEPT ![Here].def = ""], next)
              ELSE [r EXCEPT ![Here].def = ""]
  BY DEF CanonicalizeObjCRetain
<1> HIDE DEF r
<1>4. Same(i, code[Here])
  <2>1. Same(r[Here], code[Here])
    BY <1>2, <1>3
  <2> DEFINE j == r[Here]
  <2>2. IsInstruction(j) /\ i = [j EXCEPT !.def = ""]
    BY <2>1 DEF Same
  <2> HIDE DEF j, i
  <2>3. IsInstruction(i) /\ i.op = j.op /\ i.id = j.id
    BY <2>2, DefIs
  <2> QED BY <2>1, <2>3 DEF Same, j
<1>5. code' = IF Subject(I) = Null THEN Without(e, next) ELSE e
  <2>1. r = [k \in 1 .. Len(r) |-> r[k]] /\ Here \in 1 .. Len(r)
    BY <1>2, <1>3, SeqFacts
  <2>2. [r EXCEPT ![Here].def = ""] = e
    BY <2>1
  <2> HIDE DEF e
  <2> QED BY <1>0, <2>2
<1> HIDE DEF i
<1>6. /\ IsSeq(e) /\ Len(e) = Len(code)
      /\ e[Here] = i /\ \A k \in 1 .. Len(code) : k # Here => e[k] = r[k]
  <2>1. Here \in 1 .. Len(r)
    BY <1>2, <1>3
  <2> QED BY <1>3, <2>1, PutIs
<1> HIDE DEF e
<1>7. Thins(e, code, {})
  BY <1>2, <1>3, <1>4, <1>6, SameThins
<1>8. Sound(e) /\ Ids(code) \ {} \subseteq Ids(e)
  BY <1>2, <1>7, ThinsPermutes, PermutesSound
<1>9. PICK gone \in {{}, {next}} : Thins(code', code, gone)
  <2>1. CASE Subject(I) = Null
    <3>1. Thins(Without(e, next), e, {next})
      BY <1>2, <1>8, WithoutThins
    <3>2. Thins(code', code, {} \cup {next})
      BY <1>5, <1>7, <2>1, <3>1, ThinsTwice
    <3> QED BY <3>2
  <2>2. CASE Subject(I) # Null
    BY <1>5, <1>7, <2>2
  <2> QED BY <2>1, <2>2
<1>10. /\ Fresh(code, Len(given)) /\ \A k \in 1 .. (Here + 1) - 1 : Clean(code[k])
       /\ Here + 1 \in 1 .. Len(code) + 1
       /\ Here + 1 <= Len(code) => code[Here + 1].id \notin gone
       /\ code[Len(code)].id \notin gone
  BY <1>1, <1>9, CanonicalVisit
<1>11. next' = IdAt(code, Here + 1) /\ pass' = pass /\ crash' = crash /\ given' = given
  BY <1>2 DEF CanonicalizeObjCRetain, Keep
<1>12. /\ Sound(code') /\ Fresh(code', Len(given))
       /\ next' \in Ids(code') \cup {End} /\ CleanBefore(code', next')
  BY <1>2, <1>9, <1>10, <1>11, CanonicalEdit
<1> QED BY <1>2, <1>11, <1>12, CanonicalStep

LEMMA CanonicalAlreadyInv == ArcInv /\ CanonicalAlready => ArcInv'
<1> SUFFICES ASSUME ArcInv, CanonicalAlready PROVE ArcInv'
  OBVIOUS
<1>1. Visit("canonicalize") /\ Clean(I)
  BY DEF CanonicalAlready, Clean
<1>2. Sound(code) /\ IsSeq(code) /\ Then = IdAt(code, Here + 1) /\ pass = "canonicalize"
  BY <1>1, VisitFacts
<1>3. Thins(code, code, {})
  <2>1. \A k \in 1 .. Len(code) : Same(code[k], code[k])
    BY <1>2 DEF Sound, Same
  <2> QED BY <1>2, <2>1, SameThins
<1>4. /\ code' = code /\ next' = IdAt(code, Here + 1)
      /\ pass' = pass /\ crash' = crash /\ given' = given
  BY <1>2 DEF CanonicalAlready, Keep
<1>5. /\ Fresh(code, Len(given)) /\ \A k \in 1 .. (Here + 1) - 1 : Clean(code[k])
      /\ Here + 1 \in 1 .. Len(code) + 1
  BY <1>1, CanonicalVisit
<1>6. /\ Sound(code') /\ Fresh(code', Len(given))
      /\ next' \in Ids(code') \cup {End} /\ CleanBefore(code', next')
  BY <1>2, <1>3, <1>4, <1>5, CanonicalEdit, SMTT(30)
<1> QED BY <1>2, <1>4, <1>6, CanonicalStep

\* A block without some of its extracts.
Cleared(e, c) ==
    \E gone : /\ Thins(e, c, gone)
              /\ \A p \in 1 .. Len(c) : c[p].id \in gone => c[p].op = "extract"

LEMMA ClearedSound ==
    ASSUME NEW c, NEW e, Sound(c), Cleared(e, c)
    PROVE  /\ Sound(e) /\ Ids(e) \subseteq Ids(c)
           /\ \A p \in 1 .. Len(c) : c[p].op # "extract" => c[p].id \in Ids(e)
<1>1. PICK gone : /\ Thins(e, c, gone)
                  /\ \A p \in 1 .. Len(c) : c[p].id \in gone => c[p].op = "extract"
  BY DEF Cleared
<1>2. IsSeq(c) /\ Len(c) \in Nat /\ Len(c) > 0 /\ c[Len(c)].op = "ret"
  BY SeqFacts DEF Sound
<1>3. c[Len(c)].id \notin gone
  BY <1>1, <1>2
<1>4. /\ Sound(e) /\ Ids(e) \subseteq Ids(c) /\ Ids(c) \ gone \subseteq Ids(e)
  BY <1>1, <1>2, <1>3, ThinsPermutes, PermutesSound
<1>5. ASSUME NEW p \in 1 .. Len(c), c[p].op # "extract" PROVE c[p].id \in Ids(e)
  <2>1. c[p].id \notin gone
    BY <1>1, <1>5
  <2>2. c[p].id \in Ids(c)
    BY <1>2, SeqFacts
  <2> QED BY <1>4, <2>1, <2>2
<1> QED BY <1>4, <1>5

LEMMA ClearedTwice ==
    ASSUME NEW c, NEW d, NEW e, Cleared(d, c), Cleared(e, d)
    PROVE  Cleared(e, c)
<1>1. PICK gone : /\ Thins(d, c, gone)
                  /\ \A p \in 1 .. Len(c) : c[p].id \in gone => c[p].op = "extract"
  BY DEF Cleared
<1>2. PICK more : /\ Thins(e, d, more)
                  /\ \A p \in 1 .. Len(d) : d[p].id \in more => d[p].op = "extract"
  BY DEF Cleared
<1>3. Thins(e, c, gone \cup more)
  BY <1>1, <1>2, ThinsTwice
<1>4. ASSUME NEW p \in 1 .. Len(c), c[p].id \in gone \cup more PROVE c[p].op = "extract"
  <2>1. CASE c[p].id \in gone
    BY <1>1, <2>1
  <2>2. CASE c[p].id \notin gone
    <3>1. PICK h : Embeds(h, d, c, gone)
      BY <1>1 DEF Thins
    <3>2. PICK k \in 1 .. Len(d) : h[k] = p
      BY <2>2, <3>1 DEF Embeds
    <3>3. d[k].id = c[p].id /\ d[k].op = c[p].op
      BY <3>1, <3>2 DEF Embeds, Same
    <3> QED BY <1>2, <1>4, <2>2, <3>2, <3>3
  <2> QED BY <2>1, <2>2
<1> QED BY <1>3, <1>4 DEF Cleared

LEMMA LookThroughClears ==
    ASSUME NEW c, Sound(c), NEW call, NEW word
    PROVE  Cleared(LookThrough(c, call, word), c)
<1> DEFINE extracts == {p \in DOMAIN c : /\ c[p].op = "extract" /\ c[p].tag = word
                                         /\ c[p].args = <<call.def>>}
           f == FirstOf(extracts)
           r == ReplaceUses(c, c[f].def, call.args[1 + word])
<1>1. IsSeq(c) /\ DOMAIN c = 1 .. Len(c) /\ Len(c) \in Nat /\ Distinct(c)
  BY SeqFacts DEF Sound
<1>2. CASE extracts = {}
  <2>1. LookThrough(c, call, word) = c
    BY <1>2 DEF LookThrough
  <2>2. Thins(c, c, {})
    <3>1. \A k \in 1 .. Len(c) : Same(c[k], c[k])
      BY DEF Sound, Same
    <3> QED BY <1>1, <3>1, SameThins
  <2> QED BY <2>1, <2>2 DEF Cleared
<1>3. CASE extracts # {}
  <2>1. LookThrough(c, call, word) = Without(r, c[f].id)
    BY <1>3, ZenonT(60) DEF LookThrough
  <2>2. f \in 1 .. Len(c) /\ c[f].op = "extract"
    <3>1. extracts \subseteq Nat
      BY <1>1
    <3>2. f \in extracts
      <4> HIDE DEF extracts
      <4> QED BY <1>3, <3>1, FirstIs
    <3> QED BY <1>1, <3>2
  <2> HIDE DEF f, extracts
  <2>3. IsSeq(r) /\ Len(r) = Len(c) /\ \A p \in 1 .. Len(c) : Same(r[p], c[p])
    BY ReplaceIs
  <2> HIDE DEF r
  <2>4. Thins(r, c, {})
    BY <1>1, <2>3, SameThins
  <2>5. Sound(r) /\ Ids(c) \ {} \subseteq Ids(r)
    BY <1>1, <2>4, ThinsPermutes, PermutesSound
  <2>6. c[f].id \in Ids(r)
    BY <1>1, <2>2, <2>5, SeqFacts
  <2>7. Thins(Without(r, c[f].id), r, {c[f].id})
    BY <2>5, <2>6, WithoutThins
  <2>8. Thins(Without(r, c[f].id), c, {} \cup {c[f].id})
    BY <2>4, <2>7, ThinsTwice
  <2>9. \A p \in 1 .. Len(c) : c[p].id \in {} \cup {c[f].id} => c[p].op = "extract"
    BY <1>1, <2>2 DEF Distinct
  <2> QED BY <2>1, <2>8, <2>9 DEF Cleared
<1> QED BY <1>2, <1>3

\* e is c with i at p, and with m instructions more behind it, the first being j.
Splits(e, c, p, i, j, m) ==
    /\ IsSeq(e) /\ Len(e) = Len(c) + m
    /\ \A k \in 1 .. p - 1 : e[k] = c[k]
    /\ e[p] = i
    /\ m = 1 => e[p + 1] = j
    /\ \A k \in 1 .. Len(c) - p : e[p + m + k] = c[p + k]

LEMMA SplitPieces ==
    ASSUME NEW c, IsSeq(c), NEW p \in 1 .. Len(c) - 1,
           NEW S, Range(c) \subseteq S, NEW i \in S, NEW rest \in Seq(S)
    PROVE  Splits(SubSeq(c, 1, p - 1) \o <<i>> \o rest \o SubSeq(c, p + 1, Len(c)),
                  c, p, i, rest[1], Len(rest))
<1> DEFINE n == Len(c)
           s == SubSeq(c, 1, p - 1)
           t == <<i>>
           v == SubSeq(c, p + 1, n)
           e == s \o t \o rest \o v
<1>1. n \in Nat /\ p \in 1 .. n - 1 /\ Len(rest) \in Nat
  BY SeqFacts
<1>2. /\ s \in Seq(Range(c)) /\ Len(s) = p - 1
      /\ \A k \in 1 .. p - 1 : s[k] = c[k]
  <2>1. 1 \in 1 .. n + 1 /\ p - 1 \in 0 .. n /\ 1 <= (p - 1) + 1 /\ (p - 1) - 1 + 1 = p - 1
    BY <1>1
  <2>2. \A k \in 1 .. p - 1 : 1 + k - 1 = k
    BY <1>1
  <2> QED BY <1>1, <2>1, <2>2, SliceIs
<1>3. /\ v \in Seq(Range(c)) /\ Len(v) = n - p
      /\ \A k \in 1 .. n - p : v[k] = c[p + k]
  <2>1. p + 1 \in 1 .. n + 1 /\ n \in 0 .. n /\ p + 1 <= n + 1 /\ n - (p + 1) + 1 = n - p
    BY <1>1
  <2>2. \A k \in 1 .. n - p : (p + 1) + k - 1 = p + k
    BY <1>1
  <2>3. /\ v \in Seq(Range(c)) /\ Len(v) = n - (p + 1) + 1
        /\ \A k \in 1 .. n - (p + 1) + 1 : v[k] = c[(p + 1) + k - 1]
    BY <1>1, <2>1, SliceIs
  <2> HIDE DEF v
  <2> QED BY <2>1, <2>2, <2>3
<1>4. t \in Seq(S) /\ Len(t) = 1 /\ t[1] = i
  OBVIOUS
<1> HIDE DEF s, t, v
<1>5. s \in Seq(S) /\ v \in Seq(S)
  BY <1>2, <1>3, SeqMonotonic
<1>6. /\ e \in Seq(S) /\ Len(e) = Len(s) + Len(t) + Len(rest) + Len(v)
      /\ \A k \in 1 .. Len(s) : e[k] = s[k]
      /\ \A k \in 1 .. Len(t) : e[Len(s) + k] = t[k]
      /\ \A k \in 1 .. Len(rest) : e[Len(s) + Len(t) + k] = rest[k]
      /\ \A k \in 1 .. Len(v) : e[Len(s) + Len(t) + Len(rest) + k] = v[k]
  <2>1. e = s \o t \o rest \o v
    OBVIOUS
  <2>2. s \in Seq(S) /\ t \in Seq(S) /\ rest \in Seq(S) /\ v \in Seq(S)
    BY <1>4, <1>5
  <2> HIDE DEF n, e
  <2> QED BY <2>1, <2>2, PiecesAre, SMTT(30)
<1> HIDE DEF e
<1>7. Len(e) = n + Len(rest)
  BY <1>1, <1>2, <1>3, <1>4, <1>6
<1>8. \A k \in 1 .. p - 1 : e[k] = c[k]
  BY <1>2, <1>6
<1>9. e[p] = i
  <2>1. (p - 1) + 1 = p /\ 1 \in 1 .. Len(t)
    BY <1>1, <1>4
  <2> QED BY <1>2, <1>4, <1>6, <2>1
<1>10. \A k \in 1 .. Len(rest) : e[p + k] = rest[k]
  <2>1. Len(s) + Len(t) = p
    BY <1>1, <1>2, <1>4
  <2> QED BY <1>6, <2>1
<1>11. \A k \in 1 .. n - p : e[p + Len(rest) + k] = c[p + k]
  <2>1. Len(s) + Len(t) + Len(rest) = p + Len(rest)
    BY <1>1, <1>2, <1>4
  <2> QED BY <1>3, <1>6, <2>1
<1>12. e = SubSeq(c, 1, p - 1) \o <<i>> \o rest \o SubSeq(c, p + 1, Len(c))
  BY DEF e, s, t, v
<1>13. IsSeq(e)
  BY <1>6, SeqOfRange DEF IsSeq
<1>14. Len(rest) = 1 => e[p + 1] = rest[1]
  BY <1>10
<1> QED BY <1>7, <1>8, <1>9, <1>11, <1>12, <1>13, <1>14 DEF n, Splits

\* A call gives way to one instruction with its identity, and perhaps another one.
LEMMA SplitIs ==
    ASSUME NEW c, Sound(c), NEW p \in 1 .. Len(c) - 1,
           NEW i, IsInstruction(i), i.id = c[p].id, i.op # "retain3",
           NEW j, IsInstruction(j), j.op # "retain3", j.id \in Nat \ {End}, j.id \notin Ids(c),
           NEW m \in 0 .. 1, NEW e, Splits(e, c, p, i, j, m)
    PROVE  /\ Sound(e) /\ Ids(e) \subseteq Ids(c) \cup {j.id} /\ c[p].id \in Ids(e)
           /\ At(e, c[p].id) = p
           /\ \A k \in 1 .. p - 1 : e[k] = c[k]
           /\ \A k \in 1 .. Len(e) : e[k].op = "retain3" => \E q \in 1 .. Len(c) : q # p /\ e[k] = c[q]
<1>1. IsSeq(c) /\ Distinct(c) /\ Len(c) \in Nat /\ DOMAIN c = 1 .. Len(c)
      /\ Ids(c) = {c[q].id : q \in 1 .. Len(c)}
  BY SeqFacts DEF Sound
<1>2. /\ IsSeq(e) /\ Len(e) = Len(c) + m
      /\ \A k \in 1 .. p - 1 : e[k] = c[k]
      /\ e[p] = i
      /\ m = 1 => e[p + 1] = j
      /\ \A k \in 1 .. Len(c) - p : e[p + m + k] = c[p + k]
  BY DEF Splits
<1>12. \A k \in 1 .. Len(e) : k > p + m => e[k] = c[k - m] /\ k - m \in p + 1 .. Len(c)
  <2> SUFFICES ASSUME NEW k \in 1 .. Len(e), k > p + m
               PROVE  e[k] = c[k - m] /\ k - m \in p + 1 .. Len(c)
    OBVIOUS
  <2>1. k - m - p \in 1 .. Len(c) - p
    BY <1>1, <1>2
  <2>2. p + m + (k - m - p) = k /\ p + (k - m - p) = k - m
    BY <1>1, <1>2
  <2>3. k - m \in p + 1 .. Len(c)
    BY <1>1, <1>2
  <2> QED BY <1>2, <2>1, <2>2, <2>3
<1>13. \A k \in 1 .. Len(e) :
         \/ k < p /\ e[k] = c[k]
         \/ k = p /\ e[k] = i
         \/ m = 1 /\ k = p + 1 /\ e[k] = j
         \/ k > p + m /\ e[k] = c[k - m] /\ k - m \in p + 1 .. Len(c)
  <2> TAKE k \in 1 .. Len(e)
  <2>1. CASE k < p
    BY <1>1, <1>2, <2>1
  <2>2. CASE k = p
    BY <1>2, <2>2
  <2>3. CASE m = 1 /\ k = p + 1
    BY <1>2, <2>3
  <2>4. CASE k > p + m
    BY <1>12, <2>4
  <2> QED BY <1>1, <1>2, <2>1, <2>2, <2>3, <2>4
<1>14. \A k \in 1 .. Len(e) : /\ IsInstruction(e[k]) /\ e[k].id \in Nat \ {End}
                              /\ e[k].id \in Ids(c) \cup {j.id}
                              /\ e[k].op = "retain3" => \E q \in 1 .. Len(c) : q # p /\ e[k] = c[q]
  <2> TAKE k \in 1 .. Len(e)
  <2>0. \A q \in 1 .. Len(c) : IsInstruction(c[q]) /\ c[q].id \in Nat \ {End} /\ c[q].id \in Ids(c)
    BY <1>1 DEF Sound
  <2>1. CASE k < p /\ e[k] = c[k]
    <3>1. k \in 1 .. Len(c) /\ k # p
      BY <1>1, <2>1
    <3> QED BY <2>0, <2>1, <3>1
  <2>2. CASE k = p /\ e[k] = i
    <3>1. p \in 1 .. Len(c)
      BY <1>1
    <3> QED BY <2>0, <2>2, <3>1
  <2>3. CASE e[k] = j
    BY <2>3
  <2>4. CASE k > p + m /\ e[k] = c[k - m] /\ k - m \in p + 1 .. Len(c)
    <3>1. k - m \in 1 .. Len(c) /\ k - m # p
      BY <1>1, <2>4
    <3> QED BY <2>0, <2>4, <3>1
  <2> QED BY <1>13, <2>1, <2>2, <2>3, <2>4
<1>15. Distinct(e)
  <2> SUFFICES ASSUME NEW a \in 1 .. Len(e), NEW b \in 1 .. Len(e), e[a].id = e[b].id PROVE a = b
    BY DEF Distinct
  <2> DEFINE At2(k) == IF k <= p THEN k ELSE k - m
  <2>1. \A k \in 1 .. Len(e) : \/ m = 1 /\ k = p + 1 /\ e[k].id = j.id
                               \/ /\ ~(m = 1 /\ k = p + 1)
                                  /\ At2(k) \in 1 .. Len(c) /\ e[k].id = c[At2(k)].id
    BY <1>1, <1>2, <1>13
  <2>2. \A q \in 1 .. Len(c) : c[q].id # j.id
    BY <1>1, <1>2
  <2>3. CASE m = 1 /\ (a = p + 1 \/ b = p + 1)
    BY <2>1, <2>2, <2>3
  <2>4. CASE ~(m = 1 /\ (a = p + 1 \/ b = p + 1))
    <3>1. At2(a) \in 1 .. Len(c) /\ At2(b) \in 1 .. Len(c) /\ c[At2(a)].id = c[At2(b)].id
      BY <2>1, <2>4
    <3>2. At2(a) = At2(b)
      BY <1>1, <1>2, <3>1 DEF Distinct
    <3> QED BY <1>1, <1>2, <2>4, <3>2
  <2> QED BY <2>3, <2>4
<1>16. e # << >> /\ e[Len(e)].op = "ret"
  <2>1. Len(e) \in 1 .. Len(e) /\ Len(e) > p + m /\ Len(e) - m = Len(c)
    BY <1>1, <1>2
  <2>2. e[Len(e)] = c[Len(c)]
    BY <1>12, <2>1
  <2>3. e # << >>
    BY <2>1, SeqFacts
  <2> QED BY <2>2, <2>3 DEF Sound
<1>17. Sound(e)
  BY <1>2, <1>14, <1>15, <1>16 DEF Sound
<1>18. p \in 1 .. Len(e)
  BY <1>1, <1>2
<1>19. c[p].id \in Ids(e) /\ At(e, c[p].id) = p
  BY <1>2, <1>15, <1>18, AtIs
<1>20. Ids(e) \subseteq Ids(c) \cup {j.id}
  BY <1>2, <1>14, SeqFacts, SMTT(30)
<1> QED BY <1>2, <1>14, <1>17, <1>19, <1>20

LEMMA CanonicalizeRetainThreeInv == ArcInv /\ CanonicalizeRetainThree => ArcInv'
<1> SUFFICES ASSUME ArcInv, CanonicalizeRetainThree PROVE ArcInv'
  OBVIOUS
<1> DEFINE retain == [I EXCEPT !.op = "retain_noresult", !.def = "", !.args = <<Subject(I)>>]
           triple == [I EXCEPT !.op = "pack", !.args = Tail(I.args), !.id = Len(given) + I.id]
           Split(b, rest) == SubSeq(b, 1, At(b, next) - 1) \o <<retain>> \o rest
                               \o SubSeq(b, At(b, next) + 1, Len(b))
<1>1. Visit("canonicalize") /\ I.op = "retain3"
  BY ClassIs DEF CanonicalizeRetainThree
<1>2. /\ Sound(code) /\ next \in Ids(code) /\ next # End /\ pass = "canonicalize"
      /\ Len(code) \in Nat /\ Here \in 1 .. Len(code) - 1 /\ I = code[Here] /\ I.id = next
      /\ IsInstruction(I) /\ Distinct(code) /\ IsSeq(code)
  BY <1>1, VisitFacts
<1>3. \E through, rest : /\ Cleared(through, code)
                         /\ rest = << >> \/ rest = <<triple>>
                         /\ code' = Split(through, rest)
  <2>1. PICK one \in {LookThrough(code, I, 1)} : \E two \in {LookThrough(one, I, 2)} :
             \E through \in {LookThrough(two, I, 3)} :
               code' = Split(through, IF Users(through, I.def) = {} THEN << >> ELSE <<triple>>)
    BY Zenon DEF CanonicalizeRetainThree
  <2>2. PICK two \in {LookThrough(one, I, 2)} :
             \E through \in {LookThrough(two, I, 3)} :
               code' = Split(through, IF Users(through, I.def) = {} THEN << >> ELSE <<triple>>)
    BY <2>1, Zenon
  <2>3. PICK through \in {LookThrough(two, I, 3)} :
               code' = Split(through, IF Users(through, I.def) = {} THEN << >> ELSE <<triple>>)
    BY <2>2, Zenon
  <2> HIDE DEF triple, Split
  <2>4. one = LookThrough(code, I, 1) /\ two = LookThrough(one, I, 2) /\ through = LookThrough(two, I, 3)
    OBVIOUS
  <2>5. Cleared(one, code) /\ Sound(one)
    BY <1>2, <2>4, LookThroughClears, ClearedSound
  <2>6. Cleared(two, one) /\ Sound(two)
    BY <2>4, <2>5, LookThroughClears, ClearedSound
  <2>7. Cleared(through, two)
    BY <2>4, <2>6, LookThroughClears
  <2>8. Cleared(through, code)
    BY <2>5, <2>6, <2>7, ClearedTwice
  <2> QED BY <2>3, <2>8, Zenon
<1>4. PICK through, rest : /\ Cleared(through, code)
                           /\ rest = << >> \/ rest = <<triple>>
                           /\ code' = Split(through, rest)
  BY <1>3, Zenon
<1>5. IsInstruction(retain) /\ retain.op = "retain_noresult" /\ retain.id = next
  <2> DEFINE a == [I EXCEPT !.op = "retain_noresult"]
             b == [a EXCEPT !.def = ""]
  <2>0. IsInstruction(I) /\ I.id = next
    BY <1>2
  <2>1. IsInstruction(a) /\ a.op = "retain_noresult" /\ a.id = next
    BY <2>0, OpIs
  <2>2. retain = [b EXCEPT !.args = <<Subject(I)>>]
    OBVIOUS
  <2> HIDE DEF a
  <2>3. IsInstruction(b) /\ b.op = "retain_noresult" /\ b.id = next
    BY <2>1, DefIs
  <2> HIDE DEF b, retain
  <2> QED BY <2>2, <2>3, ArgsAre
<1>6. IsInstruction(triple) /\ triple.op = "pack" /\ triple.id = Len(given) + next
  <2> DEFINE a == [I EXCEPT !.op = "pack"]
             b == [a EXCEPT !.args = Tail(I.args)]
  <2>0. IsInstruction(I) /\ I.id = next
    BY <1>2
  <2>1. IsInstruction(a) /\ a.op = "pack"
    BY <2>0, OpIs
  <2>2. triple = [b EXCEPT !.id = Len(given) + I.id]
    OBVIOUS
  <2> HIDE DEF a
  <2>3. IsInstruction(b) /\ b.op = "pack"
    BY <2>1, ArgsAre
  <2> HIDE DEF b, triple
  <2> QED BY <1>2, <2>2, <2>3, NewIdIs
<1> HIDE DEF retain, triple
<1>7. /\ Fresh(code, Len(given)) /\ Len(given) \in Nat
      /\ \A k \in 1 .. Here - 1 : Clean(code[k])
  BY <1>1, CanonicalVisit
<1>8. triple.id \in Nat \ {End} /\ triple.id \notin Ids(code)
  <2>1. next \in Nat \ {End}
    BY <1>2 DEF Sound
  <2>2. Here \in 1 .. Len(code)
    BY <1>2
  <2>3. Len(given) + next \notin Ids(code)
    BY <1>1, <1>2, <1>7, <2>2 DEF Fresh
  <2> QED BY <1>6, <1>7, <2>1, <2>3 DEF End
<1> DEFINE p == At(through, next)
           m == Len(rest)
<1>9. /\ Sound(through) /\ Ids(through) \subseteq Ids(code) /\ next \in Ids(through)
      /\ IsSeq(through) /\ Distinct(through)
  <2>1. Cleared(through, code)
    BY <1>4
  <2>2. /\ Sound(through) /\ Ids(through) \subseteq Ids(code)
        /\ \A k \in 1 .. Len(code) : code[k].op # "extract" => code[k].id \in Ids(through)
    BY <1>2, <2>1, ClearedSound
  <2>3. Here \in 1 .. Len(code) /\ code[Here].op # "extract"
    BY <1>1, <1>2
  <2>4. IsSeq(through) /\ Distinct(through)
    BY <2>2 DEF Sound
  <2> QED BY <1>2, <2>2, <2>3, <2>4
<1>10. PICK gone, h : /\ Embeds(h, through, code, gone)
                      /\ \A j, k \in 1 .. Len(through) : j < k => h[j] < h[k]
  BY <1>4, Zenon DEF Cleared, Thins
<1>11. p \in 1 .. Len(through) /\ through[p].id = next
  BY <1>9, AtIs
<1>12. h[p] = Here /\ through[p].op = "retain3"
  <2>1. Same(through[p], code[h[p]]) /\ h[p] \in 1 .. Len(code)
    BY <1>10, <1>11 DEF Embeds
  <2>2. h[p] = Here
    BY <1>2, <1>11, <2>1 DEF Same, Distinct
  <2> QED BY <1>1, <1>2, <2>1, <2>2 DEF Same
<1>13. p \in 1 .. Len(through) - 1 /\ Len(through) \in Nat
  <2>1. p # Len(through)
    BY <1>9, <1>12 DEF Sound
  <2>2. Len(through) \in Nat
    BY <1>9, SeqFacts
  <2> QED BY <1>11, <2>1, <2>2
<1>14. m \in 0 .. 1 /\ (m = 1 => rest[1] = triple) /\ rest \in Seq({retain, triple})
  <2>1. CASE rest = << >>
    BY <2>1
  <2>2. CASE rest = <<triple>>
    BY <2>2
  <2> HIDE DEF m
  <2> QED BY <1>4, <2>1, <2>2
<1>15. Splits(code', through, p, retain, triple, m)
  <2> DEFINE S == Range(through) \cup {retain, triple}
             e == SubSeq(through, 1, p - 1) \o <<retain>> \o rest \o SubSeq(through, p + 1, Len(through))
  <2>1. Range(through) \subseteq S /\ retain \in S /\ rest \in Seq(S)
    BY <1>14, SeqMonotonic
  <2>2. code' = e
    BY <1>4, Zenon
  <2>3. Splits(e, through, p, retain, rest[1], m)
    <3> HIDE DEF p, S, Split
    <3> QED BY <1>9, <1>13, <2>1, SplitPieces
  <2> HIDE DEF e, p
  <2>4. Splits(code', through, p, retain, rest[1], m)
    BY <2>2, <2>3
  <2> HIDE DEF m
  <2> QED BY <1>14, <2>4 DEF Splits
<1> HIDE DEF Split, p, m
<1>16. Len(code') = Len(through) + m /\ \A k \in 1 .. p - 1 : code'[k] = through[k]
  BY <1>15 DEF Splits
<1>17. triple.id \notin Ids(through) /\ triple.op # "retain3" /\ retain.op # "retain3"
       /\ retain.id = through[p].id
  BY <1>5, <1>6, <1>8, <1>9, <1>11
<1>18. /\ Sound(code') /\ Ids(code') \subseteq Ids(through) \cup {triple.id}
       /\ through[p].id \in Ids(code') /\ At(code', through[p].id) = p
       /\ \A k \in 1 .. Len(code') : code'[k].op = "retain3"
            => \E q \in 1 .. Len(through) : q # p /\ code'[k] = through[q]
  BY <1>5, <1>6, <1>8, <1>9, <1>13, <1>14, <1>15, <1>17, SplitIs
<1>19. Fresh(code', Len(given))
  <2> SUFFICES ASSUME NEW k \in 1 .. Len(code'), code'[k].op = "retain3"
               PROVE  code'[k].id <= Len(given) /\ Len(given) + code'[k].id \notin Ids(code')
    BY DEF Fresh
  <2>1. PICK q \in 1 .. Len(through) : q # p /\ code'[k] = through[q]
    BY <1>18
  <2>2. Same(through[q], code[h[q]]) /\ h[q] \in 1 .. Len(code)
    BY <1>10 DEF Embeds
  <2>3. /\ code[h[q]].op = "retain3" /\ code[h[q]].id = code'[k].id
        /\ code'[k].id \in Nat
    BY <1>2, <2>1, <2>2 DEF Same, Sound
  <2>4. code'[k].id <= Len(given) /\ Len(given) + code'[k].id \notin Ids(code)
    BY <1>7, <2>2, <2>3 DEF Fresh
  <2>5. code'[k].id # next
    BY <1>9, <1>11, <2>1 DEF Distinct
  <2>6. next \in Nat
    BY <1>2 DEF Sound
  <2>7. Len(given) + code'[k].id # triple.id
    BY <1>6, <1>7, <2>3, <2>5, <2>6
  <2> QED BY <1>9, <1>18, <2>4, <2>7
<1>20. CleanBefore(code', next)
  <2> SUFFICES ASSUME NEW k \in 1 .. Len(code'), k < p PROVE Clean(code'[k])
    BY <1>2, <1>11, <1>18 DEF CleanBefore
  <2>1. k \in 1 .. Len(through) /\ k \in 1 .. p - 1 /\ code'[k] = through[k]
    BY <1>13, <1>14, <1>16
  <2>2. Same(through[k], code[h[k]]) /\ h[k] \in 1 .. Len(code) /\ h[k] < Here
    BY <1>10, <1>11, <1>12, <2>1 DEF Embeds
  <2>3. Clean(code[h[k]])
    BY <1>2, <1>7, <2>2
  <2> QED BY <2>1, <2>2, <2>3, SameClean
<1>21. next' = next /\ pass' = pass /\ crash' = crash /\ given' = given
  BY DEF CanonicalizeRetainThree, Keep
<1>22. next' \in Ids(code') \cup {End} /\ CleanBefore(code', next')
  BY <1>11, <1>18, <1>20, <1>21
<1> QED BY <1>2, <1>18, <1>19, <1>21, <1>22, CanonicalStep

-----------------------------------------------------------------------------
(* Optimization *)

\* An edit of an optimization: nothing new comes in and the terminator stays.
LEMMA OptimizeEdit ==
    ASSUME ArcInv, Visit("optimize"), NEW gone, Permutes(code', code, gone),
           code[Len(code)].id \notin gone, pass' = pass, crash' = FALSE,
           \/ next' \in Ids(code') \cup {End}
           \/ next' \in Ids(code) \ gone
    PROVE  ArcInv'
<1>1. Sound(code) /\ pass = "optimize" /\ AllClean(code)
  BY VisitFacts DEF ArcInv
<1>2. /\ Sound(code') /\ Ids(code) \ gone \subseteq Ids(code')
      /\ \A k \in 1 .. Len(code') : \E p \in 1 .. Len(code) : Same(code'[k], code[p])
  BY <1>1, PermutesSound
<1>3. AllClean(code')
  <2> SUFFICES ASSUME NEW k \in 1 .. Len(code') PROVE Clean(code'[k])
    BY DEF AllClean
  <2>1. PICK p \in 1 .. Len(code) : Same(code'[k], code[p])
    BY <1>2
  <2> QED BY <1>1, <2>1, SameClean DEF AllClean
<1>4. next' \in Ids(code') \cup {End}
  BY <1>2
<1> QED BY <1>1, <1>2, <1>3, <1>4 DEF ArcInv, IteratorValid, StaysCanonical

LEMMA Unedited ==
    ASSUME NEW c, Sound(c)
    PROVE  Permutes(c, c, {})
<1>1. IsSeq(c) /\ \A k \in 1 .. Len(c) : Same(c[k], c[k])
  BY DEF Sound, Same
<1> QED BY <1>1, SameThins, ThinsPermutes

LEMMA TwoWithout ==
    ASSUME NEW c, Sound(c), NEW a \in 1 .. Len(c) - 1, NEW b \in 1 .. Len(c) - 1, a # b
    PROVE  /\ Permutes(Without(Without(c, c[a].id), c[b].id), c, {c[a].id, c[b].id})
           /\ c[Len(c)].id \notin {c[a].id, c[b].id}
<1>1. /\ IsSeq(c) /\ Distinct(c) /\ Len(c) \in Nat
      /\ a \in 1 .. Len(c) /\ b \in 1 .. Len(c) /\ Len(c) \in 1 .. Len(c)
  BY SeqFacts DEF Sound
<1>2. c[a].id \in Ids(c) /\ c[b].id \in Ids(c)
  BY <1>1, AtIs
<1>3. c[a].id # c[b].id /\ c[Len(c)].id # c[a].id /\ c[Len(c)].id # c[b].id
  BY <1>1 DEF Distinct
<1> DEFINE d == Without(c, c[a].id)
           e == Without(d, c[b].id)
<1>4. Thins(d, c, {c[a].id})
  BY <1>2, WithoutThins
<1> HIDE DEF d
<1>5. Sound(d) /\ Ids(c) \ {c[a].id} \subseteq Ids(d)
  BY <1>1, <1>3, <1>4, ThinsPermutes, PermutesSound
<1>6. Thins(e, d, {c[b].id})
  BY <1>2, <1>3, <1>5, WithoutThins
<1> HIDE DEF e
<1>7. Thins(e, c, {c[a].id} \cup {c[b].id})
  BY <1>4, <1>6, ThinsTwice
<1>8. {c[a].id} \cup {c[b].id} = {c[a].id, c[b].id}
  OBVIOUS
<1>9. Permutes(e, c, {c[a].id, c[b].id})
  BY <1>1, <1>7, <1>8, ThinsPermutes
<1> QED BY <1>3, <1>9 DEF d, e

\* Where an optimization is, and what is behind its instruction.
LEMMA OptimizeVisit ==
    ASSUME ArcInv, Visit("optimize"), I.op # "ret"
    PROVE  /\ AllClean(code) /\ crash = FALSE
           /\ Here + 1 \in 1 .. Len(code) /\ Then = code[Here + 1].id /\ Then \in Ids(code)
           /\ Then # next
<1>1. /\ Sound(code) /\ Distinct(code) /\ IsSeq(code) /\ Len(code) \in Nat
      /\ Here \in 1 .. Len(code) - 1 /\ Here \in 1 .. Len(code)
      /\ I = code[Here] /\ I.id = next /\ pass = "optimize"
      /\ Then = IdAt(code, Here + 1) /\ DOMAIN code = 1 .. Len(code)
  BY VisitFacts, SeqFacts
<1>2. Here + 1 \in 1 .. Len(code) /\ Here + 1 # Here
  BY <1>1
<1>3. Then = code[Here + 1].id
  BY <1>1, <1>2 DEF IdAt
<1>4. Then \in Ids(code) /\ Then # next
  BY <1>1, <1>2, <1>3, AtIs DEF Distinct
<1>5. AllClean(code) /\ crash = FALSE
  BY <1>1 DEF ArcInv, StaysCanonical, Visit
<1> QED BY <1>2, <1>3, <1>4, <1>5

LEMMA NothingToOptimizeInv == ArcInv /\ NothingToOptimize => ArcInv'
<1> SUFFICES ASSUME ArcInv, NothingToOptimize PROVE ArcInv'
  OBVIOUS
<1>1. Visit("optimize") /\ code' = code /\ next' = Then /\ pass' = pass /\ crash' = FALSE
  BY DEF NothingToOptimize, Keep, ArcInv, StaysCanonical, Visit
<1>2. Sound(code) /\ IsSeq(code) /\ Then = IdAt(code, Here + 1)
  BY <1>1, VisitFacts
<1>3. Permutes(code', code, {}) /\ next' \in Ids(code') \cup {End}
  BY <1>1, <1>2, Unedited, IdAtIs
<1> QED BY <1>1, <1>3, OptimizeEdit

LEMMA ReleaseMotionInv == ArcInv /\ ReleaseMotion => ArcInv'
<1> SUFFICES ASSUME ArcInv, ReleaseMotion PROVE ArcInv'
  OBVIOUS
<1> DEFINE stops == Stopped(Subject(I))
           last  == IF stops = {} THEN 0 ELSE LastOf(stops)
           met   == \E p \in last+1..Here-1 : Classify(code[p]) \in NotCanonical
           paired == last # 0 /\ Protects(code[last], Subject(I))
<1>1. Visit("optimize") /\ I.op = "release" /\ I.op # "ret"
  BY ClassIs DEF ReleaseMotion
<1>2. /\ crash' = met
      /\ code' = IF paired THEN Without(Without(code, next), code[last].id)
                 ELSE MoveUp(code, Here, last + 1)
      /\ next' = Then /\ pass' = pass
  BY DEF ReleaseMotion
<1>3. /\ Sound(code) /\ Distinct(code) /\ Len(code) \in Nat
      /\ Here \in 1 .. Len(code) - 1 /\ I = code[Here] /\ I.id = next
  BY <1>1, VisitFacts
<1>4. /\ AllClean(code) /\ Here + 1 \in 1 .. Len(code) /\ Then = code[Here + 1].id
      /\ Then \in Ids(code) /\ Then # next
  BY <1>1, OptimizeVisit
<1>5. last \in 0 .. Here - 1
  <2>1. stops \subseteq 1 .. Here - 1 /\ stops \subseteq 0 .. Here - 1 /\ Here - 1 \in Nat
    BY <1>3 DEF Stopped
  <2> HIDE DEF stops
  <2>2. CASE stops = {}
    BY <1>3, <2>2
  <2>3. CASE stops # {}
    BY <2>1, <2>3, LastIs
  <2> QED BY <2>2, <2>3
<1> HIDE DEF last
<1>6. crash' = FALSE
  <2>1. \A p \in last+1..Here-1 : Classify(code[p]) \notin NotCanonical
    BY <1>3, <1>4, <1>5 DEF AllClean, Clean
  <2> QED BY <1>2, <2>1
<1> HIDE DEF met
<1>7. CASE paired
  <2>1. last \in 1 .. Len(code) - 1 /\ last # Here /\ last # Here + 1 /\ last \in 1 .. Len(code)
    BY <1>3, <1>5, <1>7
  <2>2. /\ Permutes(code', code, {next, code[last].id})
        /\ code[Len(code)].id \notin {next, code[last].id}
    BY <1>2, <1>3, <1>7, <2>1, TwoWithout
  <2>3. next' \in Ids(code) \ {next, code[last].id}
    BY <1>2, <1>3, <1>4, <2>1 DEF Distinct
  <2> QED BY <1>1, <1>2, <1>6, <2>2, <2>3, OptimizeEdit
<1>8. CASE ~paired
  <2>1. Here \in 1 .. Len(code) /\ Here < Len(code) /\ last + 1 \in 1 .. Here
    BY <1>3, <1>5
  <2>2. Permutes(code', code, {})
    BY <1>2, <1>3, <1>8, <2>1, MoveUpPermutes
  <2>3. next' \in Ids(code) \ {} /\ code[Len(code)].id \notin {}
    BY <1>2, <1>4
  <2> QED BY <1>1, <1>2, <1>6, <2>2, <2>3, OptimizeEdit
<1> QED BY <1>7, <1>8

LEMMA RetainMotionInv == ArcInv /\ RetainMotion => ArcInv'
<1> SUFFICES ASSUME ArcInv, RetainMotion PROVE ArcInv'
  OBVIOUS
<1> DEFINE behind == {p \in Here+1..Len(code) : p = Len(code) \/ StopsRetain(code[p])}
           stop  == FirstOf(behind)
           pairs == Undoes(code[stop], I)
           moves == Progress(Here+1..stop-1)
           moved == IF pairs THEN Without(Without(code, next), code[stop].id)
                    ELSE IF moves THEN MoveDown(code, Here, stop) ELSE code
           safe  == Before(code, next)
<1>1. Visit("optimize") /\ I.op # "ret"
  BY ClassIs DEF RetainMotion
<1>2. /\ code' = moved
      /\ crash' = (Classify(code[stop]) \in NotCanonical)
      /\ next' = IF ~(pairs \/ moves) THEN Then
                 ELSE IF safe = End THEN IdAt(moved, 1) ELSE After(moved, safe)
      /\ pass' = pass
  BY DEF RetainMotion
<1>3. /\ Sound(code) /\ Len(code) \in Nat
      /\ Here \in 1 .. Len(code) - 1 /\ I = code[Here] /\ I.id = next
  BY <1>1, VisitFacts
<1>4. AllClean(code) /\ Then \in Ids(code) /\ Then # next
  BY <1>1, OptimizeVisit
<1>5. stop \in Here + 1 .. Len(code)
  <2>1. behind \subseteq Nat /\ behind \subseteq Here + 1 .. Len(code) /\ Len(code) \in behind
    BY <1>3
  <2> HIDE DEF behind
  <2> QED BY <2>1, FirstIs
<1> HIDE DEF stop
<1>6. stop \in 1 .. Len(code) /\ stop # Here
  BY <1>3, <1>5
<1>7. crash' = FALSE
  <2>1. Classify(code[stop]) \notin NotCanonical
    BY <1>4, <1>6 DEF AllClean, Clean
  <2>2. crash' = (Classify(code[stop]) \in NotCanonical)
    BY <1>2
  <2>3. (Classify(code[stop]) \in NotCanonical) = FALSE
    BY <2>1
  <2> QED BY <2>2, <2>3
<1>8. PICK gone : Permutes(moved, code, gone) /\ code[Len(code)].id \notin gone
  <2>1. CASE pairs
    <3>1. code[stop].op # "ret"
      BY <2>1, ClassIs DEF Undoes
    <3>2. stop # Len(code)
      BY <1>3, <3>1 DEF Sound
    <3>3. stop \in 1 .. Len(code) - 1
      BY <1>3, <1>6, <3>2
    <3>4. /\ Permutes(Without(Without(code, next), code[stop].id), code, {next, code[stop].id})
          /\ code[Len(code)].id \notin {next, code[stop].id}
      BY <1>3, <1>6, <3>3, TwoWithout
    <3> QED BY <2>1, <3>4
  <2>2. CASE ~pairs /\ moves
    <3>1. Here \in 1 .. Len(code)
      BY <1>3
    <3>2. Permutes(MoveDown(code, Here, stop), code, {})
      BY <1>3, <1>5, <3>1, MoveDownPermutes
    <3> QED BY <2>2, <3>2
  <2>3. CASE ~pairs /\ ~moves
    <3>1. Permutes(code, code, {})
      BY <1>3, Unedited
    <3> QED BY <2>3, <3>1
  <2> QED BY <2>1, <2>2, <2>3
<1>9. next' \in Ids(code') \cup {End}
  <2>1. CASE ~(pairs \/ moves)
    <3>1. moved = code
      BY <2>1
    <3> HIDE DEF moved, pairs, moves
    <3> QED BY <1>2, <1>4, <2>1, <3>1
  <2>2. CASE pairs \/ moves
    <3> HIDE DEF moved, pairs, moves, safe
    <3>1. next' = IdAt(moved, 1) \/ next' = IdAt(moved, At(moved, safe) + 1)
      BY <1>2, <2>2 DEF After
    <3>2. IsSeq(moved)
      BY <1>8 DEF Permutes
    <3> QED BY <1>2, <3>1, <3>2, IdAtIs
  <2> QED BY <2>1, <2>2
<1>10. Permutes(code', code, gone) /\ code[Len(code)].id \notin gone /\ pass' = pass
  BY <1>2, <1>8
<1> QED BY <1>1, <1>7, <1>9, <1>10, OptimizeEdit

LEMMA StoreOnlyInv == ArcInv /\ StoreOnly => ArcInv'
<1> SUFFICES ASSUME ArcInv, StoreOnly PROVE ArcInv'
  OBVIOUS
<1> DEFINE involved == Involved(I.def)
           ids      == {i.id : i \in involved}
           zap      == /\ NoSideEffects(Dtors[I.tag])
                       /\ \A i \in involved : Eliminable(i, I.def)
<1>1. Visit("optimize") /\ I.op # "ret"
  BY ClassIs DEF StoreOnly
<1>2. /\ code' = (IF zap THEN Erase(code, ids) ELSE code)
      /\ next' = (IF zap THEN SteppedOver(ids) ELSE Then)
      /\ pass' = pass /\ crash' = crash
  BY DEF StoreOnly, Keep
<1>3. /\ Sound(code) /\ Distinct(code) /\ Len(code) \in Nat /\ IsSeq(code)
      /\ Here \in 1 .. Len(code) - 1 /\ code[Len(code)].op = "ret"
      /\ DOMAIN code = 1 .. Len(code)
  BY <1>1, VisitFacts, SeqFacts DEF Sound
<1>4. AllClean(code) /\ Then \in Ids(code) /\ crash = FALSE
  BY <1>1, OptimizeVisit
<1>n. Len(code) \in 1 .. Len(code)
  BY <1>3
<1>5. CASE zap
  <2>1. code[Len(code)].id \notin ids
    <3> SUFFICES ASSUME NEW i \in involved, i.id = code[Len(code)].id PROVE FALSE
      OBVIOUS
    <3>1. i \in Range(code)
      BY DEF Involved
    <3>2. PICK p \in 1 .. Len(code) : i = code[p]
      BY <1>3, <3>1, SeqFacts
    <3>4. p = Len(code)
      BY <1>3, <1>n, <3>2, Zenon DEF Distinct
    <3>5. i.op = "ret"
      BY <1>3, <3>2, <3>4
    <3>6. Eliminable(i, I.def)
      BY <1>5
    <3> QED BY <3>5, <3>6 DEF Eliminable
  <2> HIDE DEF ids
  <2>2. Permutes(code', code, ids)
    BY <1>2, <1>3, <1>5, EraseThins, ThinsPermutes
  <2> DEFINE left == {p \in Here+1..Len(code) : code[p].id \notin ids}
  <2>3. left \subseteq Nat /\ Len(code) \in left
    BY <1>3, <2>1
  <2>4. FirstOf(left) \in left
    <3> HIDE DEF left
    <3> QED BY <2>3, FirstIs
  <2>5. next' = IdAt(code, FirstOf(left))
    BY <1>2, <1>5 DEF SteppedOver
  <2>6. FirstOf(left) \in 1 .. Len(code) /\ code[FirstOf(left)].id \notin ids
    BY <1>3, <2>4
  <2> HIDE DEF left
  <2>7. next' = code[FirstOf(left)].id
    BY <1>3, <2>5, <2>6 DEF IdAt
  <2>8. next' \in Ids(code) \ ids
    BY <1>3, <2>6, <2>7, AtIs
  <2> QED BY <1>1, <1>2, <1>4, <2>1, <2>2, <2>8, OptimizeEdit
<1>6. CASE ~zap
  <2>1. code' = code /\ next' = Then
    BY <1>2, <1>6
  <2>2. Permutes(code', code, {}) /\ next' \in Ids(code')
    BY <1>3, <1>4, <2>1, Unedited
  <2> QED BY <1>1, <1>2, <1>4, <2>2, OptimizeEdit
<1> QED BY <1>5, <1>6

-----------------------------------------------------------------------------
(* Expansion *)

\* One instruction is rewritten where it is and the walk goes on.
LEMMA ExpandEdit ==
    ASSUME ArcInv, Visit("expand"), NEW i, IsInstruction(i), i.id = next,
           I.op = "ret" => i.op = "ret",
           code' = [code EXCEPT ![Here] = i], next' = Then, pass' = pass, crash' = FALSE
    PROVE  ArcInv'
<1> DEFINE e == [code EXCEPT ![Here] = i]
<1>1. /\ Sound(code) /\ Distinct(code) /\ Len(code) \in Nat /\ IsSeq(code)
      /\ Here \in 1 .. Len(code) /\ I = code[Here] /\ I.id = next /\ pass = "expand"
      /\ I.op # "ret" => Here \in 1 .. Len(code) - 1
      /\ Then = IdAt(code, Here + 1) /\ next # End /\ DOMAIN code = 1 .. Len(code)
      /\ code[Len(code)].op = "ret"
  BY VisitFacts, SeqFacts DEF Sound
<1>2. /\ IsSeq(e) /\ Len(e) = Len(code)
      /\ e[Here] = i /\ \A k \in 1 .. Len(code) : k # Here => e[k] = code[k]
  BY <1>1, PutIs
<1>3. code' = e
  OBVIOUS
<1> HIDE DEF e
<1>4. \A k \in 1 .. Len(code) : IsInstruction(e[k]) /\ e[k].id = code[k].id
  BY <1>1, <1>2 DEF Sound
<1>5. e[Len(code)].op = "ret"
  <2>1. Len(code) \in 1 .. Len(code)
    BY <1>1
  <2> QED BY <1>1, <1>2, <2>1
<1>6. /\ Sound(e) /\ Ids(e) = Ids(code)
      /\ \A id \in Ids(code) : At(e, id) = At(code, id)
  BY <1>1, <1>2, <1>4, <1>5, RetagIs
<1>7. next' \in Ids(code') \cup {End}
  BY <1>1, <1>3, <1>6, IdAtIs
<1>8. CleanFrom(e, Then)
  <2> SUFFICES ASSUME NEW k \in 1 .. Len(e), Then # End, ~(k < At(e, Then)) PROVE Clean(e[k])
    BY DEF CleanFrom
  <2>1. Here + 1 \in 1 .. Len(code) /\ Then = code[Here + 1].id
    BY <1>1 DEF IdAt
  <2>2. Then \in Ids(code) /\ At(code, Then) = Here + 1
    BY <1>1, <2>1, AtIs
  <2>3. k \in 1 .. Len(code) /\ k > Here
    BY <1>1, <1>2, <1>6, <2>2
  <2>4. e[k] = code[k]
    BY <1>1, <1>2, <2>3
  <2>5. CleanFrom(code, next) /\ At(code, next) = Here
    BY <1>1 DEF ArcInv, Here
  <2>6. ~(next = End \/ k < At(code, next))
    BY <1>1, <2>3, <2>5
  <2>7. Clean(code[k])
    BY <2>3, <2>5, <2>6 DEF CleanFrom
  <2> QED BY <2>4, <2>7
<1> QED BY <1>1, <1>3, <1>6, <1>7, <1>8 DEF ArcInv, IteratorValid, StaysCanonical

LEMMA ExpandRetainInv == ArcInv /\ ExpandRetain => ArcInv'
<1> SUFFICES ASSUME ArcInv, ExpandRetain PROVE ArcInv'
  OBVIOUS
<1> DEFINE object == Subject(I)
           name   == Names[next]
           i      == [code[Here] EXCEPT !.op = "retain", !.def = name, !.args = <<Newest(object)>>]
<1>1. Visit("expand") /\ I.op # "ret"
  BY ClassIs DEF ExpandRetain
<1>2. code' = [code EXCEPT ![Here] = i] /\ next' = Then /\ pass' = pass /\ crash' = crash
  BY Zenon DEF ExpandRetain
<1>3. crash' = FALSE
  BY <1>2 DEF ArcInv, StaysCanonical
<1>4. IsInstruction(code[Here]) /\ code[Here].id = next
  BY <1>1, VisitFacts
<1>5. IsInstruction(i) /\ i.id = next
  <2> DEFINE a == [code[Here] EXCEPT !.op = "retain"]
             b == [a EXCEPT !.def = name]
  <2>1. IsInstruction(a) /\ a.id = next
    BY <1>4, OpIs
  <2>2. i = [b EXCEPT !.args = <<Newest(object)>>]
    OBVIOUS
  <2> HIDE DEF a
  <2>3. IsInstruction(b) /\ b.id = next
    BY <2>1, DefIs
  <2> HIDE DEF b, i
  <2> QED BY <2>2, <2>3, ArgsAre
<1> HIDE DEF i
<1> QED BY <1>1, <1>2, <1>3, <1>5, ExpandEdit

LEMMA ExpandOtherInv == ArcInv /\ ExpandOther => ArcInv'
<1> SUFFICES ASSUME ArcInv, ExpandOther PROVE ArcInv'
  OBVIOUS
<1> DEFINE j == code[Here]
           i == [j EXCEPT !.args = [a \in DOMAIN j.args |-> Newest(j.args[a])]]
<1>1. /\ Visit("expand") /\ next' = Then /\ pass' = pass
      /\ crash' = (Classify(I) = "Retain")
  BY DEF ExpandOther
<1>2. code' = [code EXCEPT ![Here] = i]
  BY Zenon DEF ExpandOther
<1>3. IsInstruction(j) /\ j.id = next /\ I = j /\ pass = "expand" /\ next # End
      /\ Here \in 1 .. Len(code) /\ Len(code) \in Nat
  BY <1>1, VisitFacts
<1>4. crash' = FALSE
  <2>1. CleanFrom(code, next) /\ At(code, next) = Here
    BY <1>3 DEF ArcInv, Here
  <2>2. Clean(j)
    BY <1>3, <2>1 DEF CleanFrom
  <2>3. (Classify(I) = "Retain") = FALSE
    BY <1>3, <2>2 DEF Clean, NotCanonical
  <2> QED BY <1>1, <2>3
<1> HIDE DEF j
<1>5. IsInstruction(i) /\ i.id = next /\ i.op = I.op
  BY <1>3, ArgsAre, SMTT(30)
<1> HIDE DEF i
<1> QED BY <1>1, <1>2, <1>4, <1>5, ExpandEdit

-----------------------------------------------------------------------------
(* From pass to pass *)

LEMMA ReturnInv == ArcInv /\ (ReturnThree \/ OtherReturn) => ArcInv'
<1> SUFFICES ASSUME ArcInv, ReturnThree \/ OtherReturn PROVE ArcInv'
  OBVIOUS
<1>1. pass = "return" /\ pass' = "done" /\ next' = next /\ crash' = crash
  BY DEF ReturnThree, OtherReturn
<1> QED BY <1>1 DEF ArcInv, IteratorValid, StaysCanonical

LEMMA EndOfBlockInv == ArcInv /\ EndOfBlock => ArcInv'
<1> SUFFICES ASSUME ArcInv, EndOfBlock PROVE ArcInv'
  OBVIOUS
<1>1. /\ next = End /\ code' = code /\ crash' = crash
      /\ pass \in {"canonicalize", "optimize", "expand"}
      /\ pass' = NextPass(pass)
      /\ next' = IF pass' = "return" THEN End ELSE code[1].id
  BY DEF EndOfBlock
<1>2. Sound(code) /\ IsSeq(code) /\ Len(code) \in Nat /\ Len(code) > 0
  BY <1>1, SeqFacts DEF ArcInv, Sound
<1>3. code[1].id \in Ids(code)
  BY <1>2, SeqFacts
<1>4. next' \in Ids(code') \cup {End}
  BY <1>1, <1>3
<1>5. CASE pass = "canonicalize"
  <2>1. AllClean(code)
    BY <1>1, <1>5 DEF ArcInv, CleanBefore, AllClean
  <2>2. pass' = "optimize"
    BY <1>1, <1>5 DEF NextPass
  <2> QED BY <1>1, <1>2, <1>4, <2>1, <2>2 DEF ArcInv, IteratorValid, StaysCanonical
<1>6. CASE pass = "optimize"
  <2>1. AllClean(code)
    BY <1>6 DEF ArcInv
  <2>2. \A id : CleanFrom(code, id)
    BY <2>1 DEF CleanFrom, AllClean
  <2>3. pass' = "expand"
    BY <1>1, <1>6 DEF NextPass
  <2> QED BY <1>1, <1>2, <1>4, <2>2, <2>3 DEF ArcInv, IteratorValid, StaysCanonical
<1>7. CASE pass = "expand"
  <2>1. pass' = "return"
    BY <1>1, <1>7 DEF NextPass
  <2> QED BY <1>1, <2>1 DEF ArcInv, IteratorValid, StaysCanonical
<1> QED BY <1>1, <1>5, <1>6, <1>7

LEMMA InitInv == Init => ArcInv
<1> SUFFICES ASSUME Init PROVE ArcInv
  OBVIOUS
<1>1. /\ given \in Blocks /\ code = given /\ pass = "canonicalize"
      /\ next = given[1].id /\ crash = FALSE
  BY DEF Init
<1>2. /\ code # << >> /\ IsSeq(code) /\ code[Len(code)].op = "ret"
      /\ \A p \in DOMAIN code : IsInstruction(code[p]) /\ code[p].id = p
  BY <1>1, BlocksAssumption DEF IsSeq
<1>3. DOMAIN code = 1 .. Len(code) /\ Len(code) \in Nat /\ Len(code) > 0
  BY <1>2, SeqFacts
<1>4. Distinct(code)
  BY <1>2, <1>3 DEF Distinct
<1>5. Sound(code)
  BY <1>2, <1>3, <1>4 DEF Sound, End
<1>6. Ids(code) = {code[p].id : p \in 1 .. Len(code)}
  BY <1>2, SeqFacts
<1>7. Ids(code) \subseteq 1 .. Len(code)
  BY <1>2, <1>3, <1>6
<1>8. Fresh(code, Len(given))
  BY <1>1, <1>2, <1>3, <1>7 DEF Fresh
<1>9. 1 \in 1 .. Len(code) /\ code[1].id = 1 /\ next = 1
  BY <1>1, <1>2, <1>3
<1>10. next \in Ids(code) /\ At(code, next) = 1
  BY <1>1, <1>2, <1>4, <1>9, AtIs
<1>11. CleanBefore(code, next)
  BY <1>3, <1>9, <1>10 DEF CleanBefore, End
<1> QED BY <1>1, <1>3, <1>5, <1>8, <1>10, <1>11 DEF ArcInv, IteratorValid, StaysCanonical

LEMMA StepInv == ArcInv /\ [Next]_vars => ArcInv'
<1> SUFFICES ASSUME ArcInv, [Next]_vars PROVE ArcInv'
  OBVIOUS
<1>1. CASE DeleteNull
  BY <1>1, DeleteNullInv
<1>2. CASE CanonicalizeRetain
  BY <1>2, CanonicalizeRetainInv
<1>3. CASE CanonicalizeRetainThree
  BY <1>3, CanonicalizeRetainThreeInv
<1>4. CASE CanonicalizeObjCRetain
  BY <1>4, CanonicalizeObjCRetainInv
<1>5. CASE CanonicalAlready
  BY <1>5, CanonicalAlreadyInv
<1>6. CASE StoreOnly
  BY <1>6, StoreOnlyInv
<1>7. CASE ReleaseMotion
  BY <1>7, ReleaseMotionInv
<1>8. CASE RetainMotion
  BY <1>8, RetainMotionInv
<1>9. CASE NothingToOptimize
  BY <1>9, NothingToOptimizeInv
<1>10. CASE ExpandRetain
  BY <1>10, ExpandRetainInv
<1>11. CASE ExpandOther
  BY <1>11, ExpandOtherInv
<1>12. CASE ReturnThree \/ OtherReturn
  BY <1>12, ReturnInv
<1>13. CASE EndOfBlock
  BY <1>13, EndOfBlockInv
<1>14. CASE UNCHANGED vars
  BY <1>14 DEF vars, ArcInv, IteratorValid, StaysCanonical
<1> QED BY <1>1, <1>2, <1>3, <1>4, <1>5, <1>6, <1>7, <1>8, <1>9, <1>10, <1>11, <1>12, <1>13, <1>14 DEF Next

LEMMA ArcInvHolds == Spec => []ArcInv
BY InitInv, StepInv, PTL DEF Spec

\* The iterator of a walk never points at an instruction that an optimization
\* has erased, whatever the block (OptimizeARC.cpp:906, 944).
THEOREM ArcKeepsIterator == Spec => []IteratorValid
<1>1. ArcInv => IteratorValid
  BY DEF ArcInv
<1> QED BY <1>1, ArcInvHolds, PTL

\* No pass behind canonicalization meets a retain that it asserts is gone.
THEOREM ArcStaysCanonical == Spec => []StaysCanonical
<1>1. ArcInv => StaysCanonical
  BY DEF ArcInv
<1> QED BY <1>1, ArcInvHolds, PTL
=============================================================================
