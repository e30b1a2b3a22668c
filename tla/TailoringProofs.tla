--------------------------- MODULE TailoringProofs ---------------------------
(***************************************************************************)
(* Proofs about the tailoring of all projects, for any number of projects, *)
(* any ADRs, batch size, concurrency and answers: the batches are packed   *)
(* as they should be, the output does not depend on the order in which     *)
(* calls end, and the progress shown is one TailoringProgress allows.      *)
(***************************************************************************)
EXTENDS Tailoring, SelectionProofs, FiniteSetTheorems

-----------------------------------------------------------------------------
(* Chunks.                                                                 *)

LEMMA Times ==
  ASSUME NEW a \in Nat, NEW b \in Nat, NEW c \in Nat, a <= b
  PROVE  a * c \in Nat /\ b * c \in Nat /\ a * c <= b * c
<1> PICK d : d = b - a
  OBVIOUS
<1>1. d \in Nat /\ b = a + d
  OBVIOUS
<1>2. d * c \in Nat /\ a * c \in Nat
  BY <1>1
<1>3. b * c = a * c + d * c
  BY <1>1
<1> QED
  BY <1>2, <1>3

LEMMA ChunkCount ==
  ASSUME NEW L \in Nat \ {0}, NEW size \in Nat \ {0}
  PROVE  LET K == (L + size - 1) \div size
         IN  K \in Nat \ {0} /\ (K - 1) * size < L /\ L <= K * size
<1> PICK K : K = (L + size - 1) \div size
  OBVIOUS
<1>1. K \in Int /\ size * K <= L + size - 1 /\ L + size - 1 < size * K + size
  OBVIOUS
<1>2. K > 0
  <2>1. ASSUME K <= 0
        PROVE  FALSE
    <3>1. size * K <= 0
      BY <1>1, <2>1
    <3> QED
      BY <1>1, <3>1
  <2> QED
    BY <1>1, <2>1
<1>3. (K - 1) * size = size * K - size /\ K * size = size * K
  BY <1>1
<1> QED
  BY <1>1, <1>2, <1>3

LEMMA LesserOf ==
  ASSUME NEW a \in Int, NEW b \in Int
  PROVE  Min({a, b}) = IF a <= b THEN a ELSE b
<1> PICK m : m = IF a <= b THEN a ELSE b
  OBVIOUS
<1>1. m \in {a, b} /\ \A y \in {a, b} : m <= y
  OBVIOUS
<1>2. \A x \in {a, b} : (\A y \in {a, b} : x <= y) => x = m
  OBVIOUS
<1> QED
  BY <1>1, <1>2 DEF Min

\* The i-th chunk of L items holds those from ChunkFrom + 1 to ChunkTo.
ChunkFrom(i, size) == (i - 1) * size
ChunkTo(i, size, L) == Min({i * size, L})

LEMMA ChunkBounds ==
  ASSUME NEW L \in Nat \ {0}, NEW size \in Nat \ {0}, NEW K, K = (L + size - 1) \div size,
         NEW i \in 1..K
  PROVE  /\ ChunkFrom(i, size) \in Nat /\ ChunkTo(i, size, L) \in Nat
         /\ ChunkFrom(i, size) < ChunkTo(i, size, L) /\ ChunkTo(i, size, L) <= L
         /\ ChunkTo(i, size, L) - ChunkFrom(i, size) <= size
         /\ i + 1 \in 1..K => ChunkTo(i, size, L) = ChunkFrom(i + 1, size)
         /\ i = K => ChunkTo(i, size, L) = L
<1>1. K \in Nat \ {0} /\ (K - 1) * size < L /\ L <= K * size
  BY ChunkCount
<1>2. i \in Nat /\ i - 1 \in Nat /\ K - 1 \in Nat /\ i - 1 <= K - 1 /\ K \in Nat
  BY <1>1
<1>3. (i - 1) * size \in Nat /\ (i - 1) * size <= (K - 1) * size /\ (K - 1) * size \in Nat
  BY <1>2, Times
<1>4. i * size = (i - 1) * size + size
  BY <1>2
<1> PICK from, to, last : from = (i - 1) * size /\ to = i * size /\ last = (K - 1) * size
  OBVIOUS
<1>5. from \in Nat /\ to = from + size /\ from < L /\ to \in Nat
  BY <1>1, <1>3, <1>4
<1>6. Min({to, L}) = IF to <= L THEN to ELSE L
  BY <1>5, LesserOf
<1>7. ASSUME i # K
      PROVE  to <= L
  <2>1. i <= K - 1
    BY <1>2, <1>7
  <2>2. i * size <= (K - 1) * size
    BY <1>2, <2>1, Times
  <2> QED
    BY <1>1, <1>3, <1>5, <2>2
<1>8. ASSUME i = K
      PROVE  L <= to
  BY <1>1, <1>8
<1>9. ChunkFrom(i, size) = from /\ ChunkTo(i, size, L) = IF to <= L THEN to ELSE L
  BY <1>6 DEF ChunkFrom, ChunkTo
<1>10. i + 1 \in 1..K => i # K /\ ChunkFrom(i + 1, size) = to
  BY <1>1 DEF ChunkFrom
<1> QED
  BY <1>5, <1>7, <1>8, <1>9, <1>10

\* Chunks cut a sequence: each holds at most size of its items, and an item that
\* occurs once is in one of them.
LEMMA ChunksAre ==
  ASSUME NEW S, NEW g \in Seq(S), g # <<>>, NEW size \in Nat \ {0}
  PROVE  LET c == Chunks(g, size)
         IN  /\ c \in Seq(Seq(S))
             /\ \A i \in DOMAIN c : Len(c[i]) \in 1..size /\ ToSet(c[i]) \subseteq ToSet(g)
             /\ FlattenSeq(c) = g
             /\ IsInjective(g) => \A i, j \in DOMAIN c : \A x \in ToSet(c[i]) : x \in ToSet(c[j]) => i = j
<1>a. PICK L, K, c : /\ L = Len(g) /\ K = (L + size - 1) \div size /\ c = Chunks(g, size)
  OBVIOUS
<1>0. L \in Nat \ {0} /\ DOMAIN g = 1..L /\ K \in Nat
  <2>1. L \in Nat \ {0} /\ DOMAIN g = 1..L
    BY <1>a
  <2>2. K = (L + size - 1) \div size
    BY <1>a
  <2>3. K \in Nat \ {0} /\ (K - 1) * size < L /\ L <= K * size
    BY <2>1, <2>2, ChunkCount
  <2> QED
    BY <2>1, <2>3
<1> DEFINE from == [i \in 1..K |-> ChunkFrom(i, size)]
           to == [i \in 1..K |-> ChunkTo(i, size, L)]
<1>1. \A i \in 1..K :
        /\ from[i] \in Nat /\ to[i] \in Nat /\ from[i] < to[i] /\ to[i] <= L
        /\ to[i] - from[i] <= size
        /\ i + 1 \in 1..K => to[i] = from[i + 1]
        /\ i = K => to[i] = L
  <2> TAKE i \in 1..K
  <2>1. K = (L + size - 1) \div size
    BY <1>a
  <2>2. /\ ChunkFrom(i, size) \in Nat /\ ChunkTo(i, size, L) \in Nat
        /\ ChunkFrom(i, size) < ChunkTo(i, size, L) /\ ChunkTo(i, size, L) <= L
        /\ ChunkTo(i, size, L) - ChunkFrom(i, size) <= size
        /\ i + 1 \in 1..K => ChunkTo(i, size, L) = ChunkFrom(i + 1, size)
        /\ i = K => ChunkTo(i, size, L) = L
    BY <1>0, <2>1, ChunkBounds
  <2>3. from[i] = ChunkFrom(i, size) /\ to[i] = ChunkTo(i, size, L)
    OBVIOUS
  <2>4. i + 1 \in 1..K => from[i + 1] = ChunkFrom(i + 1, size)
    OBVIOUS
  <2> HIDE DEF from, to
  <2>5. from[i] \in Nat /\ to[i] \in Nat
    BY <2>2, <2>3
  <2>6. from[i] < to[i] /\ to[i] <= L
    BY <2>2, <2>3
  <2>7. to[i] - from[i] <= size
    BY <2>2, <2>3
  <2>8. i + 1 \in 1..K => to[i] = from[i + 1]
    BY <2>2, <2>3, <2>4
  <2>9. i = K => to[i] = L
    BY <2>2, <2>3
  <2> QED
    BY <2>5, <2>6, <2>7, <2>8, <2>9
<1>2. c = [i \in 1..K |-> SubSeq(g, from[i] + 1, to[i])]
  BY <1>a DEF Chunks, ChunkFrom, ChunkTo
<1>k. K >= 1
  BY <1>0, <1>a, ChunkCount
<1>g. from[1] = 0
  <2>1. 1 \in 1..K /\ (1 - 1) * size = 0
    BY <1>0, <1>k
  <2> QED
    BY <2>1 DEF ChunkFrom
<1> HIDE DEF from, to
<1>3. ASSUME NEW i \in 1..K
      PROVE  /\ c[i] \in Seq(S) /\ Len(c[i]) = to[i] - from[i] /\ Len(c[i]) \in 1..size
             /\ DOMAIN c[i] = 1..(to[i] - from[i])
             /\ \A k \in 1..(to[i] - from[i]) : from[i] + k \in 1..L /\ c[i][k] = g[from[i] + k]
  <2>1. /\ from[i] \in Nat /\ to[i] \in Nat /\ from[i] < to[i] /\ to[i] <= L
        /\ to[i] - from[i] <= size
    BY <1>1
  <2>2. from[i] + 1 \in 1..(L + 1) /\ to[i] \in 0..L /\ from[i] + 1 <= to[i] + 1
    BY <1>0, <2>1
  <2>3. /\ SubSeq(g, from[i] + 1, to[i]) \in Seq(S)
        /\ Len(SubSeq(g, from[i] + 1, to[i])) = to[i] - (from[i] + 1) + 1
        /\ \A k \in 1..(to[i] - (from[i] + 1) + 1) :
             SubSeq(g, from[i] + 1, to[i])[k] = g[(from[i] + 1) + k - 1]
    BY <1>a, <2>2, SubSeqIs
  <2>4. c[i] = SubSeq(g, from[i] + 1, to[i])
    BY <1>2
  <2>5. to[i] - (from[i] + 1) + 1 = to[i] - from[i] /\ to[i] - from[i] \in 1..size
    BY <2>1
  <2>6. ASSUME NEW k \in 1..(to[i] - from[i])
        PROVE  from[i] + k \in 1..L /\ c[i][k] = g[from[i] + k]
    <3>1. (from[i] + 1) + k - 1 = from[i] + k /\ from[i] + k \in 1..L
      BY <1>0, <2>1
    <3> QED
      BY <2>3, <2>4, <2>5, <3>1
  <2>7. c[i] \in Seq(S) /\ Len(c[i]) = to[i] - from[i]
    BY <2>3, <2>4, <2>5
  <2>8. DOMAIN c[i] = 1..Len(c[i])
    BY <2>7
  <2> QED
    BY <2>5, <2>6, <2>7, <2>8
<1>4. c \in Seq(Seq(S)) /\ DOMAIN c = 1..K /\ Len(c) = K
  <2>1. \E T : T = Seq(S)
    OBVIOUS
  <2>2. PICK T : T = Seq(S)
    BY <2>1
  <2>3. c \in [1..K -> T]
    BY <1>2, <1>3, <2>2
  <2>4. c \in Seq(T) /\ Len(c) = K
    BY <1>0, <2>3
  <2> QED
    BY <1>2, <2>2, <2>4
<1>5. \A i \in DOMAIN c : Len(c[i]) \in 1..size /\ ToSet(c[i]) \subseteq ToSet(g)
  <2> SUFFICES ASSUME NEW i \in 1..K
               PROVE  Len(c[i]) \in 1..size /\ ToSet(c[i]) \subseteq ToSet(g)
    BY <1>4
  <2>1. \A k \in DOMAIN c[i] : \E m \in DOMAIN g : c[i][k] = g[m]
    BY <1>0, <1>3
  <2> QED
    BY <1>3, <2>1 DEF ToSet
<1>6. FlattenSeq(c) = g
  <2>1. PICK f : IsFlat(f, c, S) /\ FlattenSeq(c) = f[Len(c)]
    BY <1>4, Flattened
  <2>2. /\ f[0] = <<>> /\ \A n \in 1..K : f[n] = f[n - 1] \o c[n]
        /\ FlattenSeq(c) = f[K]
    BY <1>4, <2>1 DEF IsFlat
  <2> DEFINE P == {n \in Nat : n + 1 <= K => f[n + 1] = SubSeq(g, 1, to[n + 1])}
  <2>3. 0 \in P
    <3>1. 1 \in 1..K /\ 1 - 1 = 0
      BY <1>0, <1>k
    <3>2. f[1] = f[1 - 1] \o c[1] /\ f[1 - 1] = <<>>
      BY <2>2, <3>1
    <3>3. c[1] \in Seq(S) /\ c[1] = SubSeq(g, 1, to[1])
      BY <1>2, <1>3, <1>g, <3>1
    <3>4. \A x \in Seq(S) : <<>> \o x = x
      OBVIOUS
    <3>5. f[1] = SubSeq(g, 1, to[1]) /\ 0 + 1 = 1
      BY <3>2, <3>3, <3>4
    <3> QED
      BY <3>5
  <2>4. ASSUME NEW n \in P
        PROVE  n + 1 \in P
    <3>1. SUFFICES ASSUME (n + 1) + 1 <= K
                   PROVE  f[(n + 1) + 1] = SubSeq(g, 1, to[(n + 1) + 1])
      OBVIOUS
    <3>2. /\ n + 1 \in 1..K /\ (n + 1) + 1 \in 1..K /\ ((n + 1) + 1) - 1 = n + 1
          /\ f[n + 1] = SubSeq(g, 1, to[n + 1])
      BY <1>0, <3>1
    <3> PICK i, j : i = n + 1 /\ j = (n + 1) + 1
      OBVIOUS
    <3>3. f[j] = f[i] \o c[j] /\ from[j] = to[i] /\ f[i] = SubSeq(g, 1, to[i])
      BY <1>1, <2>2, <3>2
    <3>4. c[j] = SubSeq(g, to[i] + 1, to[j])
      BY <1>2, <3>2, <3>3
    <3>5. 1 \in 1..(Len(g) + 1) /\ to[i] \in (1 - 1)..Len(g) /\ to[j] \in to[i]..Len(g)
      BY <1>0, <1>1, <1>a, <3>2, <3>3
    <3>6. SubSeq(g, 1, to[i]) \o SubSeq(g, to[i] + 1, to[j]) = SubSeq(g, 1, to[j])
      BY <3>5, ConcatAdjacentSubSeq
    <3> QED
      BY <3>3, <3>4, <3>6
  <2>5. P = Nat
    <3>1. P \in SUBSET Nat
      OBVIOUS
    <3> HIDE DEF P
    <3> QED
      BY <2>3, <2>4, <3>1, NatSetInduction
  <2>6. f[K] = SubSeq(g, 1, to[K])
    <3>1. K - 1 \in Nat /\ (K - 1) + 1 = K /\ K <= K
      BY <1>0, <1>k
    <3>2. K - 1 \in P
      BY <2>5, <3>1
    <3> QED
      BY <3>1, <3>2
  <2>7. to[K] = Len(g)
    BY <1>0, <1>1, <1>a, <1>k
  <2> QED
    BY <2>2, <2>6, <2>7, SubSeqFull
<1>7. ASSUME IsInjective(g), NEW i \in DOMAIN c, NEW j \in DOMAIN c, NEW x \in ToSet(c[i]), x \in ToSet(c[j])
      PROVE  i = j
  <2>1. i \in 1..K /\ j \in 1..K
    BY <1>4
  <2>a. ASSUME NEW u \in 1..K, x \in ToSet(c[u])
        PROVE  \E k \in 1..(to[u] - from[u]) : x = g[from[u] + k] /\ from[u] + k \in DOMAIN g
    <3>1. PICK k \in DOMAIN c[u] : x = c[u][k]
      BY <2>a DEF ToSet
    <3>2. k \in 1..(to[u] - from[u])
      BY <1>3, <3>1
    <3> QED
      BY <1>0, <1>3, <3>1, <3>2
  <2>2. PICK k \in 1..(to[i] - from[i]) : x = g[from[i] + k] /\ from[i] + k \in DOMAIN g
    BY <2>1, <2>a
  <2>3. PICK m \in 1..(to[j] - from[j]) : x = g[from[j] + m] /\ from[j] + m \in DOMAIN g
    BY <1>7, <2>1, <2>a
  <2>4. from[i] + k = from[j] + m
    BY <1>7, <2>2, <2>3 DEF IsInjective
  <2>5. ASSUME NEW u \in 1..K, NEW w \in 1..K, u < w
        PROVE  to[u] <= from[w]
    <3>1. from[w] = (w - 1) * size
      BY DEF from, ChunkFrom
    <3>2. u \in Nat /\ w - 1 \in Nat /\ u <= w - 1
      BY <1>0, <2>5
    <3>3. u * size \in Nat /\ u * size <= (w - 1) * size /\ (w - 1) * size \in Nat
      BY <3>2, Times
    <3>4. to[u] = IF u * size <= L THEN u * size ELSE L
      <4>1. to[u] = Min({u * size, L})
        BY DEF to, ChunkTo
      <4>2. u * size \in Int /\ L \in Int
        BY <1>0, <3>3
      <4> QED
        BY <4>1, <4>2, LesserOf
    <3> QED
      BY <1>0, <3>1, <3>3, <3>4
  <2>6. /\ from[i] \in Nat /\ to[i] \in Nat /\ from[j] \in Nat /\ to[j] \in Nat
        /\ i < j => to[i] <= from[j]
        /\ j < i => to[j] <= from[i]
        /\ i \in Nat /\ j \in Nat
    BY <1>1, <2>1, <2>5
  <2>7. PICK a, b, d, e : a = from[i] /\ b = from[j] /\ d = to[i] /\ e = to[j]
    OBVIOUS
  <2>8. /\ a \in Nat /\ b \in Nat /\ d \in Nat /\ e \in Nat
        /\ k \in 1..(d - a) /\ m \in 1..(e - b) /\ a + k = b + m
        /\ i < j => d <= b
        /\ j < i => e <= a
    BY <2>4, <2>6, <2>7
  <2>9. ~(i < j) /\ ~(j < i)
    BY <2>8
  <2> QED
    BY <2>6, <2>9
<1> QED
  BY <1>4, <1>5, <1>6, <1>7, <1>a

-----------------------------------------------------------------------------
(* Categories.                                                             *)

CategoryIds(list) == {a.category : a \in ToSet(list)}

Rank(ids, c) == Cardinality({d \in ids : d < c})

\* Of natural numbers, each rank up to their number is had by one.
LEMMA Ranks ==
  ASSUME NEW ids \in SUBSET Nat, IsFiniteSet(ids)
  PROVE  \A n \in 1..Cardinality(ids) : \E c \in ids : Rank(ids, c) = n - 1
<1> PICK K : K = Cardinality(ids)
  OBVIOUS
<1>1. K \in Nat
  BY FS_CardinalityType
<1>2. ASSUME NEW c \in ids
      PROVE  Rank(ids, c) \in 0..(K - 1)
  <2> DEFINE B == {d \in ids : d < c}
  <2>1. B \in SUBSET ids /\ B # ids
    OBVIOUS
  <2> HIDE DEF B
  <2>2. IsFiniteSet(B) /\ Cardinality(B) <= K /\ (K = Cardinality(B) => ids = B)
    BY <2>1, FS_Subset
  <2>3. Cardinality(B) \in Nat
    BY <2>2, FS_CardinalityType
  <2>4. Rank(ids, c) = Cardinality(B)
    BY DEF Rank, B
  <2> QED
    BY <1>1, <2>1, <2>2, <2>3, <2>4
<1>3. ASSUME NEW c \in ids, NEW e \in ids, c < e
      PROVE  Rank(ids, c) # Rank(ids, e)
  <2> DEFINE B == {d \in ids : d < c}
             D == {d \in ids : d < e}
  <2>1. D \in SUBSET ids /\ B \in SUBSET D /\ B # D
    <3>1. c \in D /\ c \notin B
      BY <1>3
    <3>2. \A d \in ids : d < c => d < e
      BY <1>3
    <3> QED
      BY <3>1, <3>2
  <2>r. Rank(ids, c) = Cardinality(B) /\ Rank(ids, e) = Cardinality(D)
    BY DEF Rank
  <2> HIDE DEF B, D
  <2>2. IsFiniteSet(D)
    BY <2>1, FS_Subset
  <2>3. Cardinality(D) = Cardinality(B) => D = B
    BY <2>1, <2>2, FS_Subset
  <2> QED
    BY <2>1, <2>3, <2>r
<1> DEFINE rank == [c \in ids |-> Rank(ids, c)]
<1>4. rank \in Injection(ids, 0..(K - 1))
  <2>1. rank \in [ids -> 0..(K - 1)]
    BY <1>2
  <2>2. ASSUME NEW c \in ids, NEW e \in ids, rank[c] = rank[e]
        PROVE  c = e
    <3>1. ~(c < e) /\ ~(e < c)
      BY <1>3, <2>2
    <3> QED
      BY <3>1
  <2> HIDE DEF rank
  <2> QED
    BY <2>1, <2>2 DEF Injection, IsInjective
<1> HIDE DEF rank
<1>5. IsFiniteSet(0..(K - 1)) /\ Cardinality(0..(K - 1)) = K
  <2>1. 0 \in Int /\ K - 1 \in Int
    BY <1>1
  <2>2. IsFiniteSet(0..(K - 1)) /\ Cardinality(0..(K - 1)) = IF 0 > K - 1 THEN 0 ELSE (K - 1) - 0 + 1
    BY <2>1, FS_Interval
  <2> QED
    BY <1>1, <2>2
<1>6. rank \in Surjection(ids, 0..(K - 1))
  BY <1>4, <1>5, FS_Injection
<1>7. ASSUME NEW n \in 1..K
      PROVE  \E c \in ids : Rank(ids, c) = n - 1
  <2>1. n - 1 \in 0..(K - 1)
    BY <1>1
  <2>2. PICK c \in ids : rank[c] = n - 1
    BY <1>6, <2>1 DEF Surjection
  <2> QED
    BY <2>2 DEF rank
<1> QED
  BY <1>7

\* A list of ADRs whose categories have an order, with each ADR once.
IsCatalog(list) ==
  /\ IsList(list)
  /\ \A a \in ToSet(list) : a.category \in Nat
  /\ \A i, j \in DOMAIN list : list[i].id = list[j].id => i = j

LEMMA CategoriesAre ==
  ASSUME NEW list, IsCatalog(list)
  PROVE  /\ Len(Categories(list)) \in Nat
         /\ DOMAIN Categories(list) = 1..Len(Categories(list))
         /\ \A n \in DOMAIN Categories(list) : Categories(list)[n] \in CategoryIds(list)
         /\ \A n, m \in DOMAIN Categories(list) :
              Categories(list)[n] = Categories(list)[m] => n = m
<1>a. PICK ids, K, cats : ids = CategoryIds(list) /\ K = Cardinality(ids) /\ cats = Categories(list)
  OBVIOUS
<1>1. ids \in SUBSET Nat
  BY <1>a DEF CategoryIds, IsCatalog
<1>2. IsFiniteSet(ids)
  <2>1. Len(list) \in Nat /\ DOMAIN list = 1..Len(list)
    BY DEF IsCatalog, IsList
  <2> DEFINE of == [i \in 1..Len(list) |-> list[i].category]
  <2>2. of \in Surjection(1..Len(list), ids)
    <3>1. \A i \in 1..Len(list) : of[i] \in ids
      BY <1>a, <2>1 DEF CategoryIds, ToSet
    <3>2. of \in [1..Len(list) -> ids]
      BY <3>1
    <3>3. \A c \in ids : \E i \in 1..Len(list) : of[i] = c
      BY <1>a, <2>1 DEF CategoryIds, ToSet
    <3> HIDE DEF of
    <3> QED
      BY <3>2, <3>3 DEF Surjection
  <2> HIDE DEF of
  <2>3. 1 \in Int /\ Len(list) \in Int
    BY <2>1
  <2>4. IsFiniteSet(1..Len(list))
    BY <2>3, FS_Interval
  <2> QED
    BY <2>2, <2>4, FS_Surjection
<1>3. K \in Nat
  BY <1>2, <1>a, FS_CardinalityType
<1>4. cats = [n \in 1..K |-> CHOOSE c \in ids : Rank(ids, c) = n - 1]
  BY <1>a DEF Categories, CategoryIds, Rank
<1>5. \A n \in 1..K : \E c \in ids : Rank(ids, c) = n - 1
  BY <1>1, <1>2, <1>a, Ranks
<1>6. \A n \in 1..K : cats[n] \in ids /\ Rank(ids, cats[n]) = n - 1
  BY <1>4, <1>5
<1>7. DOMAIN cats = 1..K /\ Len(cats) = K
  <2>1. cats \in Seq(ids) /\ cats \in [1..K -> ids]
    BY <1>3, <1>4, <1>6
  <2> QED
    BY <1>3, <2>1
<1>8. ASSUME NEW n \in 1..K, NEW m \in 1..K, cats[n] = cats[m]
      PROVE  n = m
  <2>1. n - 1 = m - 1
    BY <1>6, <1>8
  <2> QED
    BY <1>3, <2>1
<1> QED
  BY <1>3, <1>6, <1>7, <1>8, <1>a

\* The ADRs of a category, none twice.
LEMMA GroupIs ==
  ASSUME NEW list, IsCatalog(list), NEW k \in CategoryIds(list)
  PROVE  /\ InCategory(list, k) \in Seq(ToSet(list)) /\ InCategory(list, k) # <<>>
         /\ \A x \in ToSet(InCategory(list, k)) : x.category = k
         /\ IsInjective(InCategory(list, k))
<1>a. PICK S, I, g : /\ S = ToSet(list) /\ I = {i \in DOMAIN list : list[i].category = k}
                     /\ g = InCategory(list, k)
  OBVIOUS
<1>1. list \in Seq(S) /\ DOMAIN list = 1..Len(list)
  BY <1>a DEF IsCatalog, IsList
<1>2. g = Picked(list, I)
  BY <1>a DEF InCategory
<1>3. g \in Seq(S) /\ IsPart(g, list, I, Len(list))
  BY <1>1, <1>2, PickedIsPart
<1>4. DOMAIN g = 1..Len(g) /\ Len(g) \in Nat
  BY <1>3
<1>5. PICK at \in [1..Len(g) -> 1..Len(list)] :
        /\ \A j \in 1..Len(g) : at[j] \in I /\ g[j] = list[at[j]]
        /\ \A j, m \in 1..Len(g) : j < m => at[j] < at[m]
        /\ \A i \in 1..Len(list) : i \in I => \E j \in 1..Len(g) : at[j] = i
  BY <1>3 DEF IsPart
<1>6. \A x \in ToSet(g) : x.category = k
  <2> SUFFICES ASSUME NEW x \in ToSet(g)
               PROVE  x.category = k
    OBVIOUS
  <2>1. PICK j \in 1..Len(g) : x = g[j]
    BY <1>4 DEF ToSet
  <2> QED
    BY <1>5, <1>a, <2>1
<1>7. g # <<>>
  <2>1. PICK i \in 1..Len(list) : list[i].category = k
    BY <1>1 DEF CategoryIds, ToSet
  <2>2. i \in I
    BY <1>1, <1>a, <2>1
  <2>3. PICK j \in 1..Len(g) : at[j] = i
    BY <1>5, <2>2
  <2> QED
    BY <1>4, <2>3
<1>8. ASSUME NEW j \in 1..Len(g), NEW m \in 1..Len(g), g[j] = g[m]
      PROVE  j = m
  <2>1. at[j] \in DOMAIN list /\ at[m] \in DOMAIN list /\ list[at[j]] = list[at[m]]
    BY <1>1, <1>5, <1>8
  <2>2. at[j] = at[m] /\ at[j] \in Nat
    BY <1>1, <2>1 DEF IsCatalog
  <2>3. j \in Nat /\ m \in Nat /\ ~(j < m) /\ ~(m < j)
    BY <1>5, <2>2
  <2> QED
    BY <2>3
<1>9. IsInjective(g)
  BY <1>4, <1>8 DEF IsInjective
<1> QED
  BY <1>3, <1>6, <1>7, <1>9, <1>a

-----------------------------------------------------------------------------
(* Packing.                                                                *)

Packings(S) == [closed : Seq(Seq(S)), open : Seq(S)]

\* The batches there would be if no more were packed.
Packed(p) == Flush(p).closed

\* A category adds its chunks, or a batch of its own, or to the last batch.
LEMMA PackCases ==
  ASSUME NEW S, NEW p \in Packings(S), NEW g \in Seq(S), g # <<>>, NEW size \in Nat \ {0}
  PROVE  /\ PackCategory(p, g, size) \in Packings(S) /\ Packed(p) \in Seq(Seq(S))
         /\ \/ /\ Len(g) > size
               /\ Packed(PackCategory(p, g, size)) = Packed(p) \o Chunks(g, size)
            \/ /\ Len(g) <= size
               /\ Packed(PackCategory(p, g, size)) = Packed(p) \o <<g>>
            \/ \E C \in Seq(Seq(S)), o \in Seq(S) :
                 /\ o # <<>> /\ Packed(p) = C \o <<o>>
                 /\ Packed(PackCategory(p, g, size)) = C \o <<o \o g>>
                 /\ Len(o) + Len(g) <= size
<1>a. PICK T, C, o, q : T = Seq(S) /\ C = p.closed /\ o = p.open /\ q = PackCategory(p, g, size)
  OBVIOUS
<1>1. C \in Seq(T) /\ o \in T /\ p = [closed |-> C, open |-> o] /\ g \in T
  BY <1>a DEF Packings
<1>e. <<>> \in T /\ o \o g \in T /\ (<<>> \o g = g) /\ Len(o) \in Nat /\ Len(g) \in Nat
      /\ (o # <<>> => o \o g # <<>>) /\ Len(<<>>) = 0
  BY <1>1, <1>a
<1>b. \A x \in T, D \in Seq(T) : Append(D, x) = D \o <<x>> /\ Append(D, x) \in Seq(T)
  <2> TAKE x \in T, D \in Seq(T)
  <2>1. Append(D, x) = D \o <<x>>
    BY AppendIsConcat
  <2>2. Append(D, x) \in Seq(T)
    OBVIOUS
  <2> QED
    BY <2>1, <2>2
<1>2. Packed(p) = IF o = <<>> THEN C ELSE C \o <<o>>
  BY <1>1, <1>b DEF Packed, Flush
<1>3. Packed(p) \in Seq(T) /\ Flush(p) = [closed |-> Packed(p), open |-> <<>>]
  BY <1>1, <1>b DEF Packed, Flush
<1>t. \A D \in Seq(T), x \in T : [closed |-> D, open |-> x] \in Packings(S)
  BY <1>a DEF Packings
<1>f. \A D, x : /\ x # <<>> => Packed([closed |-> D, open |-> x]) = Append(D, x)
                /\ Packed([closed |-> D, open |-> <<>>]) = D
  BY DEF Packed, Flush
<1>4. CASE Len(g) > size
  <2>1. q = [closed |-> Packed(p) \o Chunks(g, size), open |-> <<>>]
    <3>1. PICK F, D, cs : F = Flush(p) /\ D = Packed(p) /\ cs = Chunks(g, size)
      OBVIOUS
    <3>2. q = [F EXCEPT !.closed = @ \o cs]
      BY <1>4, <1>a, <3>1 DEF PackCategory
    <3>3. F = [closed |-> D, open |-> <<>>]
      BY <1>3, <3>1
    <3>4. q = [closed |-> D \o cs, open |-> <<>>]
      BY <3>2, <3>3
    <3> QED
      BY <3>1, <3>4
  <2>2. Chunks(g, size) \in Seq(T)
    BY <1>a, ChunksAre
  <2>3. Packed(p) \o Chunks(g, size) \in Seq(T)
    BY <1>3, <2>2
  <2>4. q \in Packings(S) /\ Packed(q) = Packed(p) \o Chunks(g, size)
    BY <1>e, <1>f, <1>t, <2>1, <2>3
  <2> QED
    BY <1>3, <1>4, <1>a, <2>4
<1>5. CASE Len(g) <= size /\ Len(o) + Len(g) > size
  <2>1. q = [closed |-> Packed(p), open |-> g]
    <3>1. ~(Len(g) > size) /\ Len(p.open) + Len(g) > size
      BY <1>1, <1>5, <1>a, <1>e
    <3>2. q = [Flush(p) EXCEPT !.open = g]
      BY <1>a, <3>1 DEF PackCategory
    <3> QED
      BY <1>3, <3>2
  <2>2. q \in Packings(S)
    BY <1>1, <1>3, <1>t, <2>1
  <2>3. Packed(q) = Append(Packed(p), g)
    BY <1>f, <2>1
  <2>4. Packed(q) = Packed(p) \o <<g>>
    BY <1>1, <1>3, <1>b, <2>3
  <2> QED
    BY <1>3, <1>5, <1>a, <2>2, <2>4
<1>6. CASE Len(g) <= size /\ Len(o) + Len(g) <= size
  <2>1. q = [closed |-> C, open |-> o \o g]
    <3>1. ~(Len(g) > size) /\ ~(Len(p.open) + Len(g) > size)
      BY <1>1, <1>6, <1>a, <1>e
    <3>2. q = [p EXCEPT !.open = @ \o g]
      BY <1>a, <3>1 DEF PackCategory
    <3> QED
      BY <1>1, <3>2
  <2>t. q \in Packings(S)
    BY <1>1, <1>e, <1>t, <2>1
  <2>2. CASE o = <<>>
    <3>1. o \o g = g /\ Packed(p) = C
      BY <1>2, <1>e, <2>2
    <3>2. Packed(q) = Packed(p) \o <<g>>
      BY <1>1, <1>b, <1>f, <2>1, <3>1
    <3> QED
      BY <1>3, <1>6, <1>a, <2>t, <3>2
  <2>3. CASE o # <<>>
    <3>1. Packed(p) = C \o <<o>> /\ Packed(q) = C \o <<o \o g>>
      <4>1. o \o g # <<>> /\ o \o g \in T
        BY <1>e, <2>3
      <4>2. Packed(q) = Append(C, o \o g)
        BY <1>f, <2>1, <4>1
      <4>3. Packed(q) = C \o <<o \o g>>
        BY <1>1, <1>b, <4>1, <4>2
      <4> QED
        BY <1>2, <2>3, <4>3
    <3>2. C \in Seq(Seq(S)) /\ o \in Seq(S)
      BY <1>1, <1>a
    <3>3. \E D \in Seq(Seq(S)), x \in Seq(S) :
            /\ x # <<>> /\ Packed(p) = D \o <<x>>
            /\ Packed(q) = D \o <<x \o g>>
            /\ Len(x) + Len(g) <= size
      BY <1>6, <2>3, <3>1, <3>2
    <3> QED
      BY <1>3, <1>a, <2>t, <3>3
  <2> QED
    BY <2>2, <2>3
<1>7. Len(g) > size \/ (Len(g) <= size /\ Len(o) + Len(g) > size) \/ (Len(g) <= size /\ Len(o) + Len(g) <= size)
  BY <1>e
<1> QED
  BY <1>4, <1>5, <1>6, <1>7

\* A batch has an ADR of category k.
Holds(own, k) == \E x \in ToSet(own) : x.category = k

\* Batches of the categories in D: none is empty or too large, they share no ADR,
\* and a small category is in one of them.
SoundBatches(Q, D, small, size) ==
  /\ \A b \in DOMAIN Q : Len(Q[b]) \in 1..size
  /\ \A b \in DOMAIN Q : \A k : Holds(Q[b], k) => k \in D
  /\ \A b, c \in DOMAIN Q : \A x \in ToSet(Q[b]) : x \in ToSet(Q[c]) => b = c
  /\ \A k \in D \cap small : \E b \in DOMAIN Q : \A c \in DOMAIN Q : Holds(Q[c], k) <=> c = b

\* What a category k is cut into.
IsCut(cs, k, small, size) ==
  /\ \A b \in DOMAIN cs : Len(cs[b]) \in 1..size
  /\ \A b \in DOMAIN cs : \A x \in ToSet(cs[b]) : x.category = k
  /\ \A b, c \in DOMAIN cs : \A x \in ToSet(cs[b]) : x \in ToSet(cs[c]) => b = c
  /\ k \in small => Len(cs) = 1

LEMMA AddCut ==
  ASSUME NEW S, NEW Q \in Seq(Seq(S)), NEW cs \in Seq(Seq(S)), NEW D, NEW small,
         NEW size \in Nat \ {0}, SoundBatches(Q, D, small, size),
         NEW k, k \notin D, IsCut(cs, k, small, size)
  PROVE  SoundBatches(Q \o cs, D \cup {k}, small, size)
<1>a. PICK T, L, M, R : T = Seq(S) /\ L = Len(Q) /\ M = Len(cs) /\ R = Q \o cs
  OBVIOUS
<1>1. /\ L \in Nat /\ M \in Nat /\ DOMAIN Q = 1..L /\ DOMAIN cs = 1..M /\ DOMAIN R = 1..(L + M)
      /\ \A i \in 1..L : R[i] = Q[i]
      /\ \A i \in (L + 1)..(L + M) : R[i] = cs[i - L]
  <2>1. Q \in Seq(T) /\ cs \in Seq(T)
    BY <1>a
  <2>2. /\ DOMAIN R = 1..(L + M) /\ L \in Nat /\ M \in Nat
        /\ \A i \in 1..L : R[i] = Q[i]
        /\ \A i \in (L + 1)..(L + M) : R[i] = cs[i - L]
    BY <1>a, <2>1, Concatenated
  <2>3. DOMAIN Q = 1..L /\ DOMAIN cs = 1..M
    BY <1>a, <2>1
  <2> QED
    BY <2>2, <2>3
<1>2. \A i \in 1..(L + M) : \/ i \in 1..L /\ R[i] = Q[i]
                            \/ /\ i \notin 1..L /\ i - L \in 1..M /\ R[i] = cs[i - L]
                               /\ i = (i - L) + L
  <2> TAKE i \in 1..(L + M)
  <2>1. i \in 1..L \/ (i \notin 1..L /\ i \in (L + 1)..(L + M) /\ i - L \in 1..M /\ i = (i - L) + L)
    BY <1>1
  <2> QED
    BY <1>1, <2>1
<1>3. /\ \A b \in 1..L : Len(Q[b]) \in 1..size
      /\ \A b \in 1..L : \A j : Holds(Q[b], j) => j \in D
      /\ \A b, c \in 1..L : \A x \in ToSet(Q[b]) : x \in ToSet(Q[c]) => b = c
      /\ \A j \in D \cap small : \E b \in 1..L : \A c \in 1..L : Holds(Q[c], j) <=> c = b
  <2>1. DOMAIN Q = 1..L
    BY <1>1
  <2>2. \A b \in DOMAIN Q : Len(Q[b]) \in 1..size
    BY DEF SoundBatches
  <2>3. \A b \in DOMAIN Q : \A j : Holds(Q[b], j) => j \in D
    BY DEF SoundBatches
  <2>4. \A b, c \in DOMAIN Q : \A x \in ToSet(Q[b]) : x \in ToSet(Q[c]) => b = c
    BY DEF SoundBatches
  <2>5. \A j \in D \cap small : \E b \in DOMAIN Q : \A c \in DOMAIN Q : Holds(Q[c], j) <=> c = b
    BY DEF SoundBatches
  <2> QED
    BY <2>1, <2>2, <2>3, <2>4, <2>5, Zenon
<1>4. /\ \A b \in 1..M : Len(cs[b]) \in 1..size
      /\ \A b \in 1..M : \A x \in ToSet(cs[b]) : x.category = k
      /\ \A b, c \in 1..M : \A x \in ToSet(cs[b]) : x \in ToSet(cs[c]) => b = c
      /\ k \in small => M = 1
  BY <1>1, <1>a DEF IsCut
<1>5. \A b \in 1..M : \A j : Holds(cs[b], j) <=> j = k
  <2> SUFFICES ASSUME NEW b \in 1..M, NEW j
               PROVE  Holds(cs[b], j) <=> j = k
    OBVIOUS
  <2>1. Holds(cs[b], j) => j = k
    BY <1>4 DEF Holds
  <2>2. 1 \in DOMAIN cs[b] /\ cs[b][1] \in ToSet(cs[b])
    <3>1. cs[b] \in Seq(S)
      BY <1>1
    <3>2. 1 \in DOMAIN cs[b]
      BY <1>4, <3>1
    <3> QED
      BY <3>2 DEF ToSet
  <2>3. Holds(cs[b], k)
    BY <1>4, <2>2 DEF Holds
  <2> QED
    BY <2>1, <2>3
<1>6. \A b \in 1..(L + M) : Len(R[b]) \in 1..size
  BY <1>2, <1>3, <1>4
<1>7. \A b \in 1..(L + M) : \A j : Holds(R[b], j) => j \in D \cup {k}
  BY <1>2, <1>3, <1>5
<1>8. ASSUME NEW b \in 1..(L + M), NEW c \in 1..(L + M), NEW x \in ToSet(R[b]), x \in ToSet(R[c])
      PROVE  b = c
  <2>1. Holds(R[b], x.category) /\ Holds(R[c], x.category)
    BY <1>8 DEF Holds
  <2>2. CASE b \in 1..L /\ c \in 1..L
    BY <1>1, <1>3, <1>8, <2>2
  <2>3. CASE b \in 1..L /\ c \notin 1..L
    <3>1. x.category \in D /\ x.category = k
      BY <1>2, <1>3, <1>5, <2>1, <2>3
    <3> QED
      BY <3>1
  <2>4. CASE b \notin 1..L /\ c \in 1..L
    <3>1. x.category \in D /\ x.category = k
      BY <1>2, <1>3, <1>5, <2>1, <2>4
    <3> QED
      BY <3>1
  <2>5. CASE b \notin 1..L /\ c \notin 1..L
    <3>1. /\ b - L \in 1..M /\ c - L \in 1..M /\ x \in ToSet(cs[b - L]) /\ x \in ToSet(cs[c - L])
          /\ b = (b - L) + L /\ c = (c - L) + L
      BY <1>2, <1>8, <2>5
    <3>2. b - L = c - L
      BY <1>4, <3>1
    <3> QED
      BY <3>1, <3>2
  <2> QED
    BY <2>2, <2>3, <2>4, <2>5
<1>9. ASSUME NEW j \in (D \cup {k}) \cap small
      PROVE  \E b \in 1..(L + M) : \A c \in 1..(L + M) : Holds(R[c], j) <=> c = b
  <2>1. CASE j \in D
    <3>1. PICK b \in 1..L : \A c \in 1..L : Holds(Q[c], j) <=> c = b
      BY <1>3, <1>9, <2>1
    <3>2. b \in 1..(L + M) /\ j # k
      BY <1>1, <2>1
    <3>3. \A c \in 1..(L + M) : Holds(R[c], j) <=> c = b
      BY <1>2, <1>5, <3>1, <3>2
    <3> QED
      BY <3>2, <3>3
  <2>2. CASE j = k
    <3>1. M = 1
      BY <1>4, <1>9, <2>2
    <3>2. L + 1 \in 1..(L + M) /\ \A c \in 1..(L + M) : c = L + 1 <=> c \notin 1..L
      BY <1>1, <3>1
    <3>3. ASSUME NEW c \in 1..(L + M)
          PROVE  Holds(R[c], j) <=> c = L + 1
      BY <1>2, <1>3, <1>5, <2>2, <3>2
    <3> QED
      BY <3>2, <3>3
  <2> QED
    BY <2>1, <2>2
<1>10. SoundBatches(R, D \cup {k}, small, size)
  <2>1. DOMAIN R = 1..(L + M)
    BY <1>1
  <2>2. \A b, c \in DOMAIN R : \A x \in ToSet(R[b]) : x \in ToSet(R[c]) => b = c
    BY <1>8, <2>1, Zenon
  <2>3. \A j \in (D \cup {k}) \cap small :
          \E b \in DOMAIN R : \A c \in DOMAIN R : Holds(R[c], j) <=> c = b
    BY <1>9, <2>1, Zenon
  <2>4. (\A b \in DOMAIN R : Len(R[b]) \in 1..size)
        /\ \A b \in DOMAIN R : \A j : Holds(R[b], j) => j \in D \cup {k}
    BY <1>6, <1>7, <2>1, Zenon
  <2> QED
    BY <2>2, <2>3, <2>4, Zenon DEF SoundBatches
<1> QED
  BY <1>10, <1>a

LEMMA JoinOpen ==
  ASSUME NEW S, NEW C \in Seq(Seq(S)), NEW o \in Seq(S), NEW g \in Seq(S), NEW D, NEW small,
         NEW size \in Nat \ {0}, SoundBatches(C \o <<o>>, D, small, size),
         NEW k, k \notin D, g # <<>>, \A x \in ToSet(g) : x.category = k,
         o # <<>>, Len(o) + Len(g) <= size
  PROVE  SoundBatches(C \o <<o \o g>>, D \cup {k}, small, size)
<1>a. PICK T, L, Q, R, og : /\ T = Seq(S) /\ L = Len(C) /\ og = o \o g
                            /\ Q = C \o <<o>> /\ R = C \o <<og>>
  OBVIOUS
<1>o. /\ og \in Seq(S) /\ Len(og) = Len(o) + Len(g)
      /\ DOMAIN og = 1..(Len(o) + Len(g)) /\ Len(o) \in Nat /\ Len(g) \in Nat
      /\ \A i \in 1..Len(o) : og[i] = o[i]
      /\ \A i \in (Len(o) + 1)..(Len(o) + Len(g)) : og[i] = g[i - Len(o)]
  BY <1>a, Concatenated
<1>1. /\ L \in Nat /\ DOMAIN Q = 1..(L + 1) /\ DOMAIN R = 1..(L + 1)
      /\ \A i \in 1..L : R[i] = Q[i]
      /\ Q[L + 1] = o /\ R[L + 1] = og
  <2>1. C \in Seq(T) /\ o \in T /\ og \in T
    BY <1>a, <1>o
  <2>2. Q = Append(C, o) /\ R = Append(C, og)
    BY <1>a, <2>1, AppendIsConcat
  <2> QED
    BY <1>a, <2>1, <2>2
<1>2. \A i \in 1..(L + 1) : i \in 1..L \/ i = L + 1
  BY <1>1
<1>3. ToSet(og) = ToSet(o) \cup ToSet(g)
  <2>1. DOMAIN o = 1..Len(o) /\ DOMAIN g = 1..Len(g)
    OBVIOUS
  <2>2. ASSUME NEW i \in DOMAIN og
        PROVE  \/ i \in DOMAIN o /\ og[i] = o[i]
               \/ i - Len(o) \in DOMAIN g /\ og[i] = g[i - Len(o)]
    <3>1. i \in 1..Len(o) \/ (i \in (Len(o) + 1)..(Len(o) + Len(g)) /\ i - Len(o) \in 1..Len(g))
      BY <1>o
    <3> QED
      BY <1>o, <2>1, <3>1
  <2>3. \A i \in DOMAIN o : i \in DOMAIN og /\ og[i] = o[i]
    BY <1>o, <2>1
  <2>4. \A i \in DOMAIN g : i + Len(o) \in DOMAIN og /\ og[i + Len(o)] = g[i]
    <3> TAKE i \in DOMAIN g
    <3>1. i + Len(o) \in (Len(o) + 1)..(Len(o) + Len(g)) /\ (i + Len(o)) - Len(o) = i
      BY <1>o, <2>1
    <3> QED
      BY <1>o, <3>1
  <2>5. ASSUME NEW x \in ToSet(og)
        PROVE  x \in ToSet(o) \cup ToSet(g)
    <3>1. PICK i \in DOMAIN og : x = og[i]
      BY DEF ToSet
    <3> QED
      BY <2>2, <3>1 DEF ToSet
  <2>6. ASSUME NEW x \in ToSet(o)
        PROVE  x \in ToSet(og)
    <3>1. PICK i \in DOMAIN o : x = o[i]
      BY DEF ToSet
    <3> QED
      BY <2>3, <3>1 DEF ToSet
  <2>7. ASSUME NEW x \in ToSet(g)
        PROVE  x \in ToSet(og)
    <3>1. PICK i \in DOMAIN g : x = g[i]
      BY DEF ToSet
    <3>2. i + Len(o) \in DOMAIN og /\ x = og[i + Len(o)]
      BY <2>4, <3>1
    <3> QED
      BY <3>2 DEF ToSet
  <2> QED
    BY <2>5, <2>6, <2>7
<1>4. \A j : Holds(g, j) <=> j = k
  <2>1. 1 \in DOMAIN g /\ g[1] \in ToSet(g)
    <3>1. 1 \in DOMAIN g
      BY EmptySeq
    <3> QED
      BY <3>1 DEF ToSet
  <2> QED
    BY <2>1 DEF Holds
<1>5. \A j : Holds(og, j) <=> (Holds(o, j) \/ j = k)
  BY <1>3, <1>4 DEF Holds
<1>6. /\ \A b \in 1..(L + 1) : Len(Q[b]) \in 1..size
      /\ \A b \in 1..(L + 1) : \A j : Holds(Q[b], j) => j \in D
      /\ \A b, c \in 1..(L + 1) : \A x \in ToSet(Q[b]) : x \in ToSet(Q[c]) => b = c
      /\ \A j \in D \cap small :
           \E b \in 1..(L + 1) : \A c \in 1..(L + 1) : Holds(Q[c], j) <=> c = b
  <2>1. DOMAIN Q = 1..(L + 1) /\ SoundBatches(Q, D, small, size)
    BY <1>1, <1>a
  <2>2. \A b \in DOMAIN Q : Len(Q[b]) \in 1..size
    BY <2>1 DEF SoundBatches
  <2>3. \A b \in DOMAIN Q : \A j : Holds(Q[b], j) => j \in D
    BY <2>1 DEF SoundBatches
  <2>4. \A b, c \in DOMAIN Q : \A x \in ToSet(Q[b]) : x \in ToSet(Q[c]) => b = c
    BY <2>1 DEF SoundBatches
  <2>5. \A j \in D \cap small : \E b \in DOMAIN Q : \A c \in DOMAIN Q : Holds(Q[c], j) <=> c = b
    BY <2>1 DEF SoundBatches
  <2> QED
    BY <2>1, <2>2, <2>3, <2>4, <2>5, Zenon
<1>7. \A b \in 1..(L + 1) : Len(R[b]) \in 1..size
  <2>1. Len(o) \in 1..size
    BY <1>1, <1>6
  <2>2. Len(og) \in 1..size
    BY <1>o, <2>1
  <2> QED
    BY <1>1, <1>2, <1>6, <2>2
<1>8. \A b \in 1..(L + 1) : \A j : Holds(R[b], j) => j \in D \cup {k}
  BY <1>1, <1>2, <1>5, <1>6
<1>9. ASSUME NEW b \in 1..(L + 1), NEW c \in 1..(L + 1), NEW x \in ToSet(R[b]), x \in ToSet(R[c])
      PROVE  b = c
  <2>1. CASE x \in ToSet(Q[b]) /\ x \in ToSet(Q[c])
    BY <1>6, <2>1
  <2>2. CASE x \notin ToSet(Q[b]) \/ x \notin ToSet(Q[c])
    <3>1. x.category = k
      BY <1>1, <1>2, <1>3, <1>9, <2>2
    <3>2. ASSUME NEW i \in 1..(L + 1), x \in ToSet(R[i])
          PROVE  i = L + 1
      <4>1. CASE i \in 1..L
        <5>1. Holds(Q[i], k)
          BY <1>1, <3>1, <3>2, <4>1 DEF Holds
        <5> QED
          BY <1>6, <5>1
      <4> QED
        BY <1>2, <4>1
    <3> QED
      BY <1>9, <3>2
  <2> QED
    BY <2>1, <2>2
<1>10. ASSUME NEW j \in (D \cup {k}) \cap small
       PROVE  \E b \in 1..(L + 1) : \A c \in 1..(L + 1) : Holds(R[c], j) <=> c = b
  <2>1. CASE j \in D
    <3>1. j # k
      BY <2>1
    <3>2. \A c \in 1..(L + 1) : Holds(R[c], j) <=> Holds(Q[c], j)
      BY <1>1, <1>2, <1>5, <3>1
    <3>3. PICK b \in 1..(L + 1) : \A c \in 1..(L + 1) : Holds(Q[c], j) <=> c = b
      BY <1>6, <1>10, <2>1
    <3> QED
      BY <3>2, <3>3
  <2>2. CASE j = k
    <3>1. L + 1 \in 1..(L + 1) /\ L + 1 \notin 1..L
      BY <1>1
    <3>2. \A c \in 1..(L + 1) : Holds(R[c], k) <=> c = L + 1
      BY <1>1, <1>2, <1>5, <1>6, <3>1
    <3> QED
      BY <2>2, <3>1, <3>2
  <2> QED
    BY <2>1, <2>2
<1>11. SoundBatches(R, D \cup {k}, small, size)
  <2>1. DOMAIN R = 1..(L + 1)
    BY <1>1
  <2>2. \A b, c \in DOMAIN R : \A x \in ToSet(R[b]) : x \in ToSet(R[c]) => b = c
    BY <1>9, <2>1, Zenon
  <2>3. \A j \in (D \cup {k}) \cap small :
          \E b \in DOMAIN R : \A c \in DOMAIN R : Holds(R[c], j) <=> c = b
    BY <1>10, <2>1, Zenon
  <2>4. (\A b \in DOMAIN R : Len(R[b]) \in 1..size)
        /\ \A b \in DOMAIN R : \A j : Holds(R[b], j) => j \in D \cup {k}
    BY <1>7, <1>8, <2>1, Zenon
  <2> QED
    BY <2>2, <2>3, <2>4, Zenon DEF SoundBatches
<1> QED
  BY <1>11, <1>a

\* ADRs of category k, none twice, and small says whether one batch holds them.
IsGroup(g, k, small, size) ==
  /\ g # <<>> /\ IsInjective(g)
  /\ \A x \in ToSet(g) : x.category = k
  /\ k \in small <=> Len(g) <= size

\* The batches R hold what Q did, and then g.
Follows(R, Q, g) == FlattenSeq(R) = FlattenSeq(Q) \o g

LEMMA PackSound ==
  ASSUME NEW S, NEW p \in Packings(S), NEW g \in Seq(S), NEW k, NEW D, k \notin D, NEW small,
         NEW size \in Nat \ {0}, IsGroup(g, k, small, size),
         SoundBatches(Packed(p), D, small, size)
  PROVE  /\ PackCategory(p, g, size) \in Packings(S)
         /\ SoundBatches(Packed(PackCategory(p, g, size)), D \cup {k}, small, size)
         /\ Follows(Packed(PackCategory(p, g, size)), Packed(p), g)
<1> USE DEF IsGroup, Follows
<1>a. PICK Q, R, q : Q = Packed(p) /\ q = PackCategory(p, g, size) /\ R = Packed(q)
  OBVIOUS
<1>1. /\ q \in Packings(S) /\ Q \in Seq(Seq(S)) /\ SoundBatches(Q, D, small, size)
      /\ \/ Len(g) > size /\ R = Q \o Chunks(g, size)
         \/ Len(g) <= size /\ R = Q \o <<g>>
         \/ \E C \in Seq(Seq(S)), o \in Seq(S) :
              o # <<>> /\ Q = C \o <<o>> /\ R = C \o <<o \o g>> /\ Len(o) + Len(g) <= size
  <2>1. /\ q \in Packings(S) /\ Q \in Seq(Seq(S))
        /\ \/ Len(g) > size /\ R = Q \o Chunks(g, size)
           \/ Len(g) <= size /\ R = Q \o <<g>>
           \/ \E C \in Seq(Seq(S)), o \in Seq(S) :
                o # <<>> /\ Q = C \o <<o>> /\ R = C \o <<o \o g>> /\ Len(o) + Len(g) <= size
    <3>1. /\ PackCategory(p, g, size) \in Packings(S) /\ Packed(p) \in Seq(Seq(S))
          /\ \/ /\ Len(g) > size
                /\ Packed(PackCategory(p, g, size)) = Packed(p) \o Chunks(g, size)
             \/ /\ Len(g) <= size
                /\ Packed(PackCategory(p, g, size)) = Packed(p) \o <<g>>
             \/ \E C \in Seq(Seq(S)), o \in Seq(S) :
                  /\ o # <<>> /\ Packed(p) = C \o <<o>>
                  /\ Packed(PackCategory(p, g, size)) = C \o <<o \o g>>
                  /\ Len(o) + Len(g) <= size
      BY PackCases
    <3> QED
      BY <1>a, <3>1
  <2>2. SoundBatches(Q, D, small, size)
    BY <1>a
  <2> QED
    BY <2>1, <2>2
<1>2. Len(g) \in Nat /\ Len(g) # 0
  BY EmptySeq
<1>3. \A s \in Seq(S) : <<s>> \in Seq(Seq(S))
  <2> TAKE s \in Seq(S)
  <2>1. PICK T : T = Seq(S)
    OBVIOUS
  <2>2. <<s>> \in Seq(T)
    BY <2>1
  <2> QED
    BY <2>1, <2>2
<1>4. CASE Len(g) > size /\ R = Q \o Chunks(g, size)
  <2>a. PICK cs : cs = Chunks(g, size)
    OBVIOUS
  <2>1. /\ cs \in Seq(Seq(S))
        /\ \A i \in DOMAIN cs : Len(cs[i]) \in 1..size /\ ToSet(cs[i]) \subseteq ToSet(g)
        /\ FlattenSeq(cs) = g
        /\ \A i, j \in DOMAIN cs : \A x \in ToSet(cs[i]) : x \in ToSet(cs[j]) => i = j
    BY <2>a, ChunksAre
  <2>2. k \notin small
    BY <1>2, <1>4
  <2>3. IsCut(cs, k, small, size)
    BY <2>1, <2>2 DEF IsCut
  <2>4. SoundBatches(Q \o cs, D \cup {k}, small, size)
    BY <1>1, <2>1, <2>3, AddCut
  <2>5. FlattenSeq(Q \o cs) = FlattenSeq(Q) \o g
    BY <1>1, <2>1, FlattenConcat
  <2> QED
    BY <1>1, <1>4, <1>a, <2>4, <2>5, <2>a
<1>5. CASE Len(g) <= size /\ R = Q \o <<g>>
  <2>a. PICK cs : cs = <<g>>
    OBVIOUS
  <2>1. cs \in Seq(Seq(S)) /\ DOMAIN cs = {1} /\ cs[1] = g /\ Len(cs) = 1
    BY <1>3, <2>a
  <2>2. \A b \in DOMAIN cs : b = 1
    BY <2>1
  <2>4. Len(g) \in 1..size
    BY <1>2, <1>5
  <2>3. IsCut(cs, k, small, size)
    BY <2>1, <2>2, <2>4 DEF IsCut
  <2>5. SoundBatches(Q \o cs, D \cup {k}, small, size)
    BY <1>1, <2>1, <2>3, AddCut
  <2>6. FlattenSeq(Q \o cs) = FlattenSeq(Q) \o FlattenSeq(cs)
    BY <1>1, <2>1, FlattenConcat
  <2>7. FlattenSeq(cs) = g
    BY <2>a, FlattenOne
  <2> QED
    BY <1>1, <1>5, <1>a, <2>5, <2>6, <2>7, <2>a
<1>6. CASE \E C \in Seq(Seq(S)), o \in Seq(S) :
             o # <<>> /\ Q = C \o <<o>> /\ R = C \o <<o \o g>> /\ Len(o) + Len(g) <= size
  <2>1. PICK C \in Seq(Seq(S)), o \in Seq(S) :
          o # <<>> /\ Q = C \o <<o>> /\ R = C \o <<o \o g>> /\ Len(o) + Len(g) <= size
    BY <1>6
  <2>2. SoundBatches(C \o <<o>>, D, small, size)
    BY <1>1, <2>1
  <2>3. SoundBatches(R, D \cup {k}, small, size)
    BY <2>1, <2>2, JoinOpen
  <2>4. o \o g \in Seq(S) /\ FlattenSeq(C) \in Seq(S)
    BY FlattenTyped
  <2>5. /\ <<o>> \in Seq(Seq(S)) /\ <<o \o g>> \in Seq(Seq(S))
    BY <1>3, <2>4
  <2>6. FlattenSeq(Q) = FlattenSeq(C) \o o
    <3>1. FlattenSeq(C \o <<o>>) = FlattenSeq(C) \o FlattenSeq(<<o>>)
      BY <2>5, FlattenConcat
    <3> QED
      BY <2>1, <3>1, FlattenOne
  <2>7. FlattenSeq(R) = FlattenSeq(C) \o (o \o g)
    <3>1. FlattenSeq(C \o <<o \o g>>) = FlattenSeq(C) \o FlattenSeq(<<o \o g>>)
      BY <2>5, FlattenConcat
    <3>2. FlattenSeq(<<o \o g>>) = o \o g
      BY <2>4, FlattenOne
    <3> QED
      BY <2>1, <3>1, <3>2
  <2>8. FlattenSeq(C) \o (o \o g) = (FlattenSeq(C) \o o) \o g
    <3>1. PICK F : F = FlattenSeq(C)
      OBVIOUS
    <3>2. F \in Seq(S)
      BY <2>4, <3>1
    <3>3. F \o (o \o g) = (F \o o) \o g
      BY <3>2, ThreeJoined
    <3> QED
      BY <3>1, <3>3
  <2> QED
    BY <1>1, <1>a, <2>3, <2>6, <2>7, <2>8
<1> QED
  BY <1>1, <1>4, <1>5, <1>6

Groups(list) == [i \in DOMAIN Categories(list) |-> InCategory(list, Categories(list)[i])]

SmallCategories(list, size) ==
  {c \in ToSet(Categories(list)) : Len(InCategory(list, c)) <= size}

\* Packing one category after another.
IsPacking(f, list, size, S) ==
  /\ f \in [0..Len(Categories(list)) -> Packings(S)]
  /\ f[0] = [closed |-> <<>>, open |-> <<>>]
  /\ \A n \in 1..Len(Categories(list)) : f[n] = PackCategory(f[n - 1], Groups(list)[n], size)

LEMMA GroupsAre ==
  ASSUME NEW list, IsCatalog(list)
  PROVE  /\ Groups(list) \in Seq(Seq(ToSet(list))) /\ Len(Groups(list)) = Len(Categories(list))
         /\ \A n \in 1..Len(Categories(list)) :
              LET k == Categories(list)[n]
                  g == Groups(list)[n]
              IN  /\ g = InCategory(list, k) /\ g \in Seq(ToSet(list)) /\ g # <<>>
                  /\ \A x \in ToSet(g) : x.category = k
                  /\ IsInjective(g)
<1>a. PICK S, T, K, G : S = ToSet(list) /\ T = Seq(S) /\ K = Len(Categories(list)) /\ G = Groups(list)
  OBVIOUS
<1>1. K \in Nat /\ DOMAIN Categories(list) = 1..K
      /\ \A n \in 1..K : Categories(list)[n] \in CategoryIds(list)
  BY <1>a, CategoriesAre
<1>2. G = [n \in 1..K |-> InCategory(list, Categories(list)[n])]
  BY <1>1, <1>a DEF Groups
<1>3. ASSUME NEW n \in 1..K
      PROVE  /\ G[n] = InCategory(list, Categories(list)[n]) /\ G[n] \in T /\ G[n] # <<>>
             /\ \A x \in ToSet(G[n]) : x.category = Categories(list)[n]
             /\ IsInjective(G[n])
  <2>1. G[n] = InCategory(list, Categories(list)[n]) /\ Categories(list)[n] \in CategoryIds(list)
    BY <1>1, <1>2
  <2> QED
    <3>1. /\ InCategory(list, Categories(list)[n]) \in Seq(ToSet(list))
          /\ InCategory(list, Categories(list)[n]) # <<>>
          /\ \A x \in ToSet(InCategory(list, Categories(list)[n])) : x.category = Categories(list)[n]
          /\ IsInjective(InCategory(list, Categories(list)[n]))
      BY <2>1, GroupIs
    <3> QED
      BY <1>a, <2>1, <3>1
<1>4. G \in Seq(T) /\ Len(G) = K
  <2>1. G \in [1..K -> T]
    BY <1>2, <1>3
  <2> QED
    BY <1>1, <2>1
<1> QED
  BY <1>3, <1>4, <1>a

LEMMA IsBatching ==
  ASSUME NEW list, IsCatalog(list), NEW size \in Nat \ {0}
  PROVE  \E f : /\ IsPacking(f, list, size, ToSet(list))
                /\ CreateBatches(list, size) = Packed(f[Len(Categories(list))])
<1>a. PICK S, T, P, cats, K, G, b :
        /\ S = ToSet(list) /\ T = Seq(S) /\ P = Packings(S) /\ cats = Categories(list)
        /\ K = Len(cats) /\ G = Groups(list) /\ b = [closed |-> <<>>, open |-> <<>>]
  OBVIOUS
<1> DEFINE step == [n \in 1..K |-> [p \in P |-> PackCategory(p, G[n], size)]]
           Up(f) == f = [n \in 0..K |-> IF n = 0 THEN b
                           ELSE PackCategory(f[n - 1], InCategory(list, cats[n]), size)]
<1>1. K \in Nat
  BY <1>a, CategoriesAre
<1>2. \A n \in 1..K : G[n] = InCategory(list, cats[n]) /\ G[n] \in Seq(S) /\ G[n] # <<>>
  BY <1>a, GroupsAre
<1>3. \A n \in 1..K, p \in P : PackCategory(p, G[n], size) \in P
  <2> TAKE n \in 1..K, p \in P
  <2>1. p \in Packings(S) /\ G[n] \in Seq(S) /\ G[n] # <<>>
    BY <1>2, <1>a
  <2>2. PackCategory(p, G[n], size) \in Packings(S)
    BY <2>1, PackCases
  <2> QED
    BY <1>a, <2>2
<1>4. step \in [1..K -> [P -> P]] /\ \A n \in 1..K, p \in P : step[n][p] = PackCategory(p, G[n], size)
  BY <1>3
<1>5. b \in P
  <2>1. \A U : <<>> \in Seq(U)
    OBVIOUS
  <2>2. <<>> \in Seq(Seq(S)) /\ <<>> \in Seq(S)
    BY <2>1
  <2> QED
    BY <1>a, <2>2 DEF Packings
<1> HIDE DEF step
<1>6. PICK f : /\ f \in [0..K -> P] /\ f[0] = b
               /\ \A n \in 1..K : f[n] = step[n][f[n - 1]]
  <2>1. PICK f : IsRun(f, b, K, step, P)
    BY <1>1, <1>4, <1>5, Recursion
  <2> QED
    BY <2>1 DEF IsRun
<1>7. \A n \in 1..K : f[n] = PackCategory(f[n - 1], G[n], size)
  <2> TAKE n \in 1..K
  <2>1. n - 1 \in 0..K
    BY <1>1
  <2>2. f[n - 1] \in P
    BY <1>6, <2>1
  <2> QED
    BY <1>4, <1>6, <2>2
<1>8. IsPacking(f, list, size, S)
  BY <1>6, <1>7, <1>a DEF IsPacking
<1>9. Up(f)
  <2> DEFINE F == [n \in 0..K |-> IF n = 0 THEN b
                     ELSE PackCategory(f[n - 1], InCategory(list, cats[n]), size)]
  <2>1. ASSUME NEW n \in 0..K
        PROVE  f[n] = F[n]
    <3>1. CASE n = 0
      BY <1>6, <3>1
    <3>2. CASE n # 0
      <4>1. n \in 1..K
        BY <1>1, <3>2
      <4>2. f[n] = PackCategory(f[n - 1], InCategory(list, cats[n]), size)
        BY <1>2, <1>7, <4>1
      <4> QED
        BY <3>2, <4>2
    <3> QED
      BY <3>1, <3>2
  <2>2. F = [n \in 0..K |-> F[n]]
    OBVIOUS
  <2> HIDE DEF F
  <2>3. f = F
    BY <1>6, <2>1, <2>2
  <2> QED
    BY <2>3 DEF F
<1>10. PICK g : g = CHOOSE h : Up(h)
  OBVIOUS
<1>11. Up(g)
  BY <1>9, <1>10
<1>12. /\ g[0] = b
       /\ \A n \in 1..K : g[n] = PackCategory(g[n - 1], InCategory(list, cats[n]), size)
  <2>1. g = [n \in 0..K |-> IF n = 0 THEN b
               ELSE PackCategory(g[n - 1], InCategory(list, cats[n]), size)]
    BY <1>11
  <2>2. 0 \in 0..K /\ \A n \in 1..K : n \in 0..K /\ n # 0
    BY <1>1
  <2> QED
    BY <2>1, <2>2
<1>13. CreateBatches(list, size) = Flush(g[K]).closed
  BY <1>10, <1>a DEF CreateBatches
<1> HIDE DEF Up
<1>14. g[K] = f[K]
  <2>1. g[0] = f[0]
    BY <1>6, <1>12
  <2>2. \A n \in 1..K : g[n - 1] = f[n - 1] => g[n] = f[n]
    BY <1>2, <1>7, <1>12
  <2>3. Agree(g, f, K)
    BY <2>1, <2>2 DEF Agree
  <2>4. K \in 0..K
    BY <1>1
  <2> QED
    BY <1>1, <2>3, <2>4, SameRun
<1>15. CreateBatches(list, size) = Packed(f[K])
  BY <1>13, <1>14 DEF Packed
<1> QED
  BY <1>8, <1>15, <1>a

\* Batches hold the ADRs category by category, are not empty nor too large and
\* share no ADR, and a small category is in one.
LEMMA BatchesAre ==
  ASSUME NEW list, IsCatalog(list), NEW size \in Nat \ {0}
  PROVE  /\ CreateBatches(list, size) \in Seq(Seq(ToSet(list)))
         /\ FlattenSeq(CreateBatches(list, size)) = FlattenSeq(Groups(list))
         /\ SoundBatches(CreateBatches(list, size), ToSet(Categories(list)),
                         SmallCategories(list, size), size)
<1>a. PICK S, cats, K, G, small :
        /\ S = ToSet(list) /\ cats = Categories(list) /\ K = Len(cats)
        /\ G = Groups(list) /\ small = SmallCategories(list, size)
  OBVIOUS
<1>1. /\ K \in Nat /\ DOMAIN cats = 1..K
      /\ \A n, m \in 1..K : cats[n] = cats[m] => n = m
  BY <1>a, CategoriesAre
<1>2. /\ G \in Seq(Seq(S)) /\ Len(G) = K
      /\ \A n \in 1..K : /\ G[n] = InCategory(list, cats[n]) /\ G[n] \in Seq(S) /\ G[n] # <<>>
                         /\ \A x \in ToSet(G[n]) : x.category = cats[n]
                         /\ IsInjective(G[n])
  BY <1>a, GroupsAre
<1>3. PICK f : IsPacking(f, list, size, S) /\ CreateBatches(list, size) = Packed(f[K])
  BY <1>a, IsBatching
<1>4. /\ f \in [0..K -> Packings(S)] /\ f[0] = [closed |-> <<>>, open |-> <<>>]
      /\ \A n \in 1..K : f[n] = PackCategory(f[n - 1], G[n], size)
  BY <1>3, <1>a DEF IsPacking
<1>5. PICK flat : IsFlat(flat, G, S) /\ FlattenSeq(G) = flat[K]
  BY <1>2, Flattened
<1>6. flat[0] = <<>> /\ \A n \in 1..K : flat[n] = flat[n - 1] \o G[n]
  BY <1>2, <1>5 DEF IsFlat
<1> DEFINE D(n) == {cats[i] : i \in 1..n}
           Good(n) == /\ SoundBatches(Packed(f[n]), D(n), small, size)
                      /\ FlattenSeq(Packed(f[n])) = flat[n]
           M == {n \in Nat : n <= K => Good(n)}
<1>7. 0 \in M
  <2>1. Packed(f[0]) = <<>>
    BY <1>4 DEF Packed, Flush
  <2>2. DOMAIN <<>> = {} /\ D(0) = {}
    OBVIOUS
  <2> HIDE DEF D
  <2>3. SoundBatches(<<>>, D(0), small, size)
    BY <2>2 DEF SoundBatches
  <2>4. FlattenSeq(<<>>) = flat[0]
    BY <1>6, FlattenEmpty
  <2> QED
    BY <2>1, <2>3, <2>4
<1>8. ASSUME NEW n \in M
      PROVE  n + 1 \in M
  <2>1. SUFFICES ASSUME n + 1 <= K
                 PROVE  Good(n + 1)
    OBVIOUS
  <2>2. n \in Nat /\ n + 1 \in 1..K /\ (n + 1) - 1 = n /\ n \in 0..K /\ Good(n)
    BY <1>1, <2>1
  <2>a. PICK m, p, g, k, q : m = n + 1 /\ p = f[n] /\ g = G[n + 1] /\ k = cats[n + 1] /\ q = f[n + 1]
    OBVIOUS
  <2>3. k \notin D(n) /\ D(m) = D(n) \cup {k}
    <3>1. \A i \in 1..n : i \in 1..K /\ i # n + 1
      BY <1>1, <2>2
    <3>2. \A i \in 1..n : cats[i] # k
      BY <1>1, <2>2, <2>a, <3>1
    <3>3. 1..m = (1..n) \cup {m}
      BY <2>2, <2>a
    <3> QED
      BY <2>a, <3>2, <3>3
  <2> HIDE DEF D, Good, M
  <2>4. p \in Packings(S) /\ q = PackCategory(p, g, size)
    BY <1>4, <2>2, <2>a
  <2>5. /\ g \in Seq(S) /\ g # <<>> /\ IsInjective(g) /\ \A x \in ToSet(g) : x.category = k
        /\ g = InCategory(list, k)
    BY <1>2, <2>2, <2>a
  <2>6. k \in small <=> Len(g) <= size
    <3>1. k \in ToSet(cats)
      BY <1>1, <2>2, <2>a DEF ToSet
    <3> QED
      BY <1>a, <2>5, <3>1 DEF SmallCategories
  <2>7. SoundBatches(Packed(p), D(n), small, size) /\ FlattenSeq(Packed(p)) = flat[n]
    BY <2>2, <2>a DEF Good
  <2>8. /\ SoundBatches(Packed(q), D(n) \cup {k}, small, size)
        /\ FlattenSeq(Packed(q)) = FlattenSeq(Packed(p)) \o g
    <3>1. PICK E : E = D(n)
      OBVIOUS
    <3>2. k \notin E /\ SoundBatches(Packed(p), E, small, size)
      BY <2>3, <2>7, <3>1
    <3>3. IsGroup(g, k, small, size)
      BY <2>5, <2>6 DEF IsGroup
    <3>4. /\ SoundBatches(Packed(PackCategory(p, g, size)), E \cup {k}, small, size)
          /\ Follows(Packed(PackCategory(p, g, size)), Packed(p), g)
      BY <2>4, <2>5, <3>2, <3>3, PackSound
    <3> QED
      BY <2>4, <3>1, <3>4 DEF Follows
  <2>9. flat[m] = flat[n] \o g
    BY <1>6, <2>2, <2>a
  <2> QED
    BY <2>3, <2>7, <2>8, <2>9, <2>a DEF Good
<1>9. M = Nat
  <2>1. M \in SUBSET Nat
    OBVIOUS
  <2> HIDE DEF M
  <2> QED
    BY <1>7, <1>8, <2>1, NatSetInduction
<1>10. Good(K)
  <2>1. K \in Nat /\ K <= K
    BY <1>1
  <2>2. K \in M
    <3> HIDE DEF M
    <3> QED
      BY <1>9, <2>1
  <2> QED
    BY <2>1, <2>2
<1>11. D(K) = ToSet(cats)
  BY <1>1 DEF ToSet
<1>12. Packed(f[K]) \in Seq(Seq(S))
  <2>1. f[K] \in Packings(S)
    BY <1>1, <1>4
  <2>2. PICK C, o : C = f[K].closed /\ o = f[K].open
    OBVIOUS
  <2>3. C \in Seq(Seq(S)) /\ o \in Seq(S)
    BY <2>1, <2>2 DEF Packings
  <2>4. PICK T : T = Seq(S)
    OBVIOUS
  <2>5. Append(C, o) \in Seq(T)
    BY <2>3, <2>4
  <2>6. Packed(f[K]) = IF o = <<>> THEN C ELSE Append(C, o)
    BY <2>2 DEF Packed, Flush
  <2> QED
    BY <2>3, <2>4, <2>5, <2>6
<1> HIDE DEF D
<1> QED
  BY <1>3, <1>5, <1>10, <1>11, <1>12, <1>a

LEMMA BatchesTyped ==
  ASSUME NEW r \in Runs
  PROVE  CreateBatches(r.adrs, BatchSize) \in Seq(Seq(ToSet(r.adrs)))
<1>1. IsCatalog(r.adrs)
  BY AdrsAssumption, DistinctAssumption DEF IsCatalog
<1>2. BatchSize \in Nat \ {0}
  BY TailoringAssumption
<1> QED
  BY <1>1, <1>2, BatchesAre

-----------------------------------------------------------------------------
(* Events.                                                                 *)

\* The fields of an event say which it is.
LEMMA EventFields ==
  ASSUME NEW kind, NEW p, NEW b
  PROVE  /\ Event(kind, p, b).kind = kind
         /\ Event(kind, p, b).project = p
         /\ Event(kind, p, b).batch = b
  BY DEF Event

LEMMA MessageIs ==
  ASSUME NEW ids, NEW e \in Messages(ids)
  PROVE  /\ e = Event(e.kind, e.project, e.batch)
         /\ e.project \in Projects
         /\ \/ e.kind \in {"started", "completed", "failed"} /\ e.batch = 0
            \/ e.kind \in {"begun", "ended"} /\ e.batch \in ids
<1>1. CASE \E kind \in {"started", "completed", "failed"}, p \in Projects : e = Event(kind, p, 0)
  BY <1>1, EventFields
<1>2. CASE \E kind \in {"begun", "ended"}, p \in Projects, b \in ids : e = Event(kind, p, b)
  BY <1>2, EventFields
<1> QED
  BY <1>1, <1>2 DEF Messages

LEMMA IsMessage ==
  ASSUME NEW ids, NEW p \in Projects
  PROVE  /\ \A kind \in {"started", "completed", "failed"} : Event(kind, p, 0) \in Messages(ids)
         /\ \A kind \in {"begun", "ended"}, b \in ids : Event(kind, p, b) \in Messages(ids)
  BY DEF Messages

Statuses == {"absent", "running", "done", "failed"}

Views(ids) == [Projects -> [status : Statuses, begun : SUBSET ids, ended : SUBSET ids]]

\* An event sent when what must come before it was, and nothing final was sent of
\* its project, keeps the order.
LEMMA SendKeepsOrder ==
  ASSUME NEW ids, NEW waiting, NEW sent, NEW v \in Views(ids), InOrder(waiting, sent, v, ids),
         NEW e \in Messages(ids), e \notin sent, Before(e, ids) \subseteq sent,
         \A f \in sent : f.project = e.project => ~Final(f)
  PROVE  InOrder(Append(waiting, e), sent \cup {e}, v, ids)
<1> DEFINE n == Len(waiting)
           w == Append(waiting, e)
<1>1. /\ waiting \in Seq(Messages(ids))
      /\ \A i, j \in DOMAIN waiting : waiting[i] = waiting[j] => i = j
      /\ sent = ShownIn(v, ids) \cup ToSet(waiting)
      /\ ShownIn(v, ids) \cap ToSet(waiting) = {}
      /\ \A i \in DOMAIN waiting : \A f \in Before(waiting[i], ids) :
           f \in ShownIn(v, ids) \/ \E j \in 1..(i - 1) : waiting[j] = f
      /\ \A i, j \in DOMAIN waiting :
           i < j /\ Final(waiting[i]) => waiting[i].project # waiting[j].project
      /\ \A i \in DOMAIN waiting : v[waiting[i].project].status \in {"absent", "running"}
  BY DEF InOrder
<1>2. /\ n \in Nat /\ DOMAIN waiting = 1..n
      /\ w \in Seq(Messages(ids)) /\ DOMAIN w = 1..(n + 1)
      /\ w[n + 1] = e /\ \A i \in 1..n : w[i] = waiting[i]
  BY <1>1
<1>3. ToSet(w) = ToSet(waiting) \cup {e}
  <2>1. \A x : x \in ToSet(w) <=> \E i \in 1..(n + 1) : x = w[i]
    BY <1>2 DEF ToSet
  <2>2. \A x : x \in ToSet(waiting) <=> \E i \in 1..n : x = waiting[i]
    BY <1>2 DEF ToSet
  <2>3. \A i \in 1..(n + 1) : i \in 1..n \/ i = n + 1
    BY <1>2
  <2>4. n + 1 \in 1..(n + 1) /\ \A i \in 1..n : i \in 1..(n + 1)
    BY <1>2
  <2> HIDE DEF w, n
  <2> QED
    BY <1>2, <2>1, <2>2, <2>3, <2>4
<1>4. e \notin ShownIn(v, ids) /\ e \notin ToSet(waiting)
  BY <1>1
<1>5. \A i \in 1..n : waiting[i] \in ToSet(waiting) /\ waiting[i] \in sent /\ waiting[i] \in Messages(ids)
  BY <1>1, <1>2 DEF ToSet
<1>6. v[e.project].status \in {"absent", "running"}
  <2>1. e.project \in Projects /\ v[e.project].status \in Statuses
    BY MessageIs DEF Views
  <2>2. /\ Event("completed", e.project, 0) \in Messages(ids)
        /\ Event("failed", e.project, 0) \in Messages(ids)
    BY <2>1, IsMessage
  <2>3. ASSUME v[e.project].status = "done"
        PROVE  FALSE
    <3>1. Event("completed", e.project, 0) \in ShownIn(v, ids)
      BY <2>2, <2>3, EventFields DEF ShownIn
    <3> QED
      BY <1>1, <3>1, EventFields DEF Final
  <2>4. ASSUME v[e.project].status = "failed"
        PROVE  FALSE
    <3>1. Event("failed", e.project, 0) \in ShownIn(v, ids)
      BY <2>2, <2>4, EventFields DEF ShownIn
    <3> QED
      BY <1>1, <3>1, EventFields DEF Final
  <2> QED
    BY <2>1, <2>3, <2>4 DEF Statuses
<1> HIDE DEF w, n
<1>7. \A i \in DOMAIN w : i \in 1..n \/ i = n + 1
  BY <1>2
<1>8. \A i, j \in DOMAIN w : w[i] = w[j] => i = j
  <2> SUFFICES ASSUME NEW i \in DOMAIN w, NEW j \in DOMAIN w, w[i] = w[j]
               PROVE  i = j
    OBVIOUS
  <2> QED
    BY <1>1, <1>2, <1>4, <1>5, <1>7
<1>9. ASSUME NEW i \in DOMAIN w, NEW f \in Before(w[i], ids)
      PROVE  f \in ShownIn(v, ids) \/ \E j \in 1..(i - 1) : w[j] = f
  <2>1. CASE i \in 1..n
    <3>1. f \in Before(waiting[i], ids)
      BY <1>2, <1>9, <2>1
    <3>2. CASE f \in ShownIn(v, ids)
      BY <3>2
    <3>3. CASE \E j \in 1..(i - 1) : waiting[j] = f
      <4>1. PICK j \in 1..(i - 1) : waiting[j] = f
        BY <3>3
      <4>2. j \in 1..n
        BY <1>2, <2>1, <4>1
      <4> QED
        BY <1>2, <4>1, <4>2
    <3> QED
      BY <1>1, <1>2, <2>1, <3>1, <3>2, <3>3
  <2>2. CASE i = n + 1
    <3>1. f \in ShownIn(v, ids) \/ f \in ToSet(waiting)
      BY <1>1, <1>2, <1>9, <2>2
    <3>2. CASE f \in ToSet(waiting)
      <4>1. PICK j \in 1..n : waiting[j] = f
        BY <1>2, <3>2 DEF ToSet
      <4>2. j \in 1..(i - 1)
        BY <1>2, <2>2, <4>1
      <4> QED
        BY <1>2, <4>1, <4>2
    <3> QED
      BY <3>1, <3>2
  <2> QED
    BY <1>7, <2>1, <2>2
<1>10. ASSUME NEW i \in DOMAIN w, NEW j \in DOMAIN w, i < j, Final(w[i])
       PROVE  w[i].project # w[j].project
  <2>1. i \in 1..n
    BY <1>2, <1>10
  <2>2. w[i] = waiting[i] /\ waiting[i] \in sent
    BY <1>2, <1>5, <2>1
  <2>3. CASE j \in 1..n
    BY <1>1, <1>2, <1>10, <2>1, <2>2, <2>3
  <2>4. CASE j = n + 1
    BY <1>2, <1>10, <2>2, <2>4
  <2> QED
    BY <1>7, <2>3, <2>4
<1>11. \A i \in DOMAIN w : v[w[i].project].status \in {"absent", "running"}
  BY <1>1, <1>2, <1>6, <1>7
<1>12. /\ sent \cup {e} = ShownIn(v, ids) \cup ToSet(w)
       /\ ShownIn(v, ids) \cap ToSet(w) = {}
  BY <1>1, <1>3, <1>4
<1>13. InOrder(w, sent \cup {e}, v, ids)
  BY <1>2, <1>8, <1>9, <1>10, <1>11, <1>12 DEF InOrder
<1> QED
  BY <1>13 DEF w

\* Showing the first event that waits: what must come before it is shown, it is
\* not, nothing final of its project is, and the rest stays in order.
LEMMA ShowKeepsOrder ==
  ASSUME NEW ids, NEW waiting, NEW sent, NEW v \in Views(ids), InOrder(waiting, sent, v, ids), waiting # <<>>,
         NEW e, e = Head(waiting)
  PROVE  LET w == [v EXCEPT ![e.project] = Shown(@, e)]
         IN  /\ e \in Messages(ids) /\ e \in sent /\ e \notin ShownIn(v, ids)
             /\ Before(e, ids) \subseteq ShownIn(v, ids)
             /\ v[e.project].status \in {"absent", "running"}
             /\ w \in Views(ids)
             /\ InOrder(Tail(waiting), sent, w, ids)
<1> DEFINE n == Len(waiting)
           w == [v EXCEPT ![e.project] = Shown(@, e)]
           rest == Tail(waiting)
<1>1. /\ waiting \in Seq(Messages(ids))
      /\ \A i, j \in DOMAIN waiting : waiting[i] = waiting[j] => i = j
      /\ sent = ShownIn(v, ids) \cup ToSet(waiting)
      /\ ShownIn(v, ids) \cap ToSet(waiting) = {}
      /\ \A i \in DOMAIN waiting : \A f \in Before(waiting[i], ids) :
           f \in ShownIn(v, ids) \/ \E j \in 1..(i - 1) : waiting[j] = f
      /\ \A i, j \in DOMAIN waiting :
           i < j /\ Final(waiting[i]) => waiting[i].project # waiting[j].project
      /\ \A i \in DOMAIN waiting : v[waiting[i].project].status \in {"absent", "running"}
  BY DEF InOrder
<1>2. /\ n \in Nat \ {0} /\ DOMAIN waiting = 1..n
      /\ rest \in Seq(Messages(ids)) /\ DOMAIN rest = 1..(n - 1) /\ Len(rest) = n - 1
      /\ e = waiting[1] /\ \A i \in 1..(n - 1) : rest[i] = waiting[i + 1]
  BY <1>1
<1> HIDE DEF n, rest
<1>3. ToSet(waiting) = ToSet(rest) \cup {e} /\ e \notin ToSet(rest)
  <2>1. \A x : x \in ToSet(rest) <=> \E i \in 1..(n - 1) : x = waiting[i + 1]
    BY <1>2 DEF ToSet
  <2>2. \A x : x \in ToSet(waiting) <=> \E i \in 1..n : x = waiting[i]
    BY <1>2 DEF ToSet
  <2>3. \A i \in 1..n : i = 1 \/ (i - 1 \in 1..(n - 1) /\ (i - 1) + 1 = i)
    BY <1>2
  <2>4. 1 \in 1..n /\ \A i \in 1..(n - 1) : i + 1 \in 1..n /\ i + 1 # 1
    BY <1>2
  <2>5. ToSet(waiting) \subseteq ToSet(rest) \cup {e}
    <3> SUFFICES ASSUME NEW x \in ToSet(waiting)
                 PROVE  x = e \/ x \in ToSet(rest)
      OBVIOUS
    <3>1. PICK i \in 1..n : x = waiting[i]
      BY <2>2
    <3> QED
      BY <1>2, <2>1, <2>3, <3>1
  <2>6. e \in ToSet(waiting) /\ ToSet(rest) \subseteq ToSet(waiting)
    BY <1>2, <2>1, <2>2, <2>4
  <2>7. e \notin ToSet(rest)
    BY <1>1, <1>2, <2>1, <2>4
  <2> QED
    BY <2>5, <2>6, <2>7
<1>4. /\ e \in Messages(ids) /\ e \in sent /\ e \notin ShownIn(v, ids)
      /\ v[e.project].status \in {"absent", "running"}
  <2>1. 1 \in DOMAIN waiting /\ e \in Messages(ids)
    BY <1>1, <1>2
  <2> QED
    BY <1>1, <1>2, <1>3, <2>1
<1>5. Before(e, ids) \subseteq ShownIn(v, ids)
  <2>1. 1 \in DOMAIN waiting /\ 1..(1 - 1) = {}
    BY <1>2
  <2> QED
    BY <1>1, <1>2, <2>1
<1> PICK p, b, kind : p = e.project /\ b = e.batch /\ kind = e.kind
  OBVIOUS
<1>6. /\ p \in Projects
      /\ e = Event(kind, p, b)
      /\ \/ kind \in {"started", "completed", "failed"} /\ b = 0
         \/ kind \in {"begun", "ended"} /\ b \in ids
  BY <1>4, MessageIs
<1>7. kind # "started" => v[p].status = "running"
  <2> SUFFICES ASSUME kind # "started"
               PROVE  v[p].status # "absent"
    BY <1>4
  <2>1. Event("started", p, 0) \in Messages(ids)
    BY <1>6, IsMessage
  <2>2. Event("started", p, 0) \in Before(e, ids)
    BY <2>1, EventFields DEF Before
  <2>3. Event("started", p, 0) \in ShownIn(v, ids)
    BY <1>5, <2>2
  <2> QED
    BY <2>3, EventFields DEF ShownIn
<1>8. kind = "started" => v[p].status = "absent"
  <2>1. ASSUME kind = "started", v[p].status # "absent"
        PROVE  e \in ShownIn(v, ids)
    BY <1>4, <2>1 DEF ShownIn
  <2> QED
    BY <1>4, <2>1
<1>9. /\ v[p] \in [status : Statuses, begun : SUBSET ids, ended : SUBSET ids]
      /\ w[p] = Shown(v[p], e)
      /\ \A q \in Projects \ {p} : w[q] = v[q]
      /\ DOMAIN w = Projects
  BY <1>6 DEF Views
<1>10. /\ w[p].status = CASE kind = "started" -> "running" [] kind = "completed" -> "done"
                          [] kind = "failed" -> "failed" [] OTHER -> v[p].status
       /\ w[p].begun = IF kind = "begun" THEN v[p].begun \cup {b} ELSE v[p].begun
       /\ w[p].ended = IF kind = "ended" THEN v[p].ended \cup {b} ELSE v[p].ended
       /\ w[p] \in [status : Statuses, begun : SUBSET ids, ended : SUBSET ids]
  BY <1>6, <1>9 DEF Shown, Statuses
<1>11. w \in Views(ids)
  <2>1. w = [v EXCEPT ![p] = Shown(v[p], e)] /\ Shown(v[p], e) = w[p]
    BY <1>9
  <2>2. Shown(v[p], e) \in [status : Statuses, begun : SUBSET ids, ended : SUBSET ids]
    BY <1>10, <2>1
  <2> HIDE DEF w
  <2> QED
    BY <2>1, <2>2 DEF Views
<1> HIDE DEF w
<1>12. ASSUME NEW m \in Messages(ids)
       PROVE  m \in ShownIn(w, ids) <=> m \in ShownIn(v, ids) \/ m = e
  <2>1. /\ m.project \in Projects /\ m = Event(m.kind, m.project, m.batch)
        /\ \/ m.kind \in {"started", "completed", "failed"} /\ m.batch = 0
           \/ m.kind \in {"begun", "ended"} /\ m.batch \in ids
    BY MessageIs
  <2>2. CASE m.project # p
    <3>1. w[m.project] = v[m.project] /\ m # e
      BY <1>9, <2>1, <2>2
    <3> QED
      BY <3>1 DEF ShownIn
  <2>3. CASE m.project = p
    <3>1. m = e <=> m.kind = kind /\ m.batch = b
      BY <1>6, <2>1, <2>3
    <3>2. CASE m.kind = "started"
      BY <1>6, <1>7, <1>8, <1>10, <2>1, <2>3, <3>1, <3>2 DEF ShownIn
    <3>3. CASE m.kind = "begun"
      BY <1>6, <1>10, <2>1, <2>3, <3>1, <3>3 DEF ShownIn
    <3>4. CASE m.kind = "ended"
      BY <1>6, <1>10, <2>1, <2>3, <3>1, <3>4 DEF ShownIn
    <3>5. CASE m.kind = "completed"
      BY <1>4, <1>6, <1>7, <1>10, <2>1, <2>3, <3>1, <3>5 DEF ShownIn
    <3>6. CASE m.kind = "failed"
      BY <1>4, <1>6, <1>7, <1>10, <2>1, <2>3, <3>1, <3>6 DEF ShownIn
    <3> QED
      BY <2>1, <3>2, <3>3, <3>4, <3>5, <3>6
  <2> QED
    BY <2>2, <2>3
<1>13. ShownIn(w, ids) = ShownIn(v, ids) \cup {e}
  <2>1. ShownIn(w, ids) \subseteq Messages(ids) /\ ShownIn(v, ids) \subseteq Messages(ids)
    BY DEF ShownIn
  <2> QED
    BY <1>4, <1>12, <2>1
<1>14. /\ sent = ShownIn(w, ids) \cup ToSet(rest)
       /\ ShownIn(w, ids) \cap ToSet(rest) = {}
  BY <1>1, <1>3, <1>13
<1>15. \A i \in 1..(n - 1) : i + 1 \in 1..n /\ i + 1 \in DOMAIN waiting
  BY <1>2
<1>16. \A i, j \in DOMAIN rest : rest[i] = rest[j] => i = j
  <2> SUFFICES ASSUME NEW i \in 1..(n - 1), NEW j \in 1..(n - 1), rest[i] = rest[j]
               PROVE  i = j
    BY <1>2
  <2>1. i + 1 = j + 1
    <3>1. rest[i] = waiting[i + 1] /\ rest[j] = waiting[j + 1]
      BY <1>2
    <3>2. i + 1 \in DOMAIN waiting /\ j + 1 \in DOMAIN waiting
      BY <1>15
    <3> QED
      BY <1>1, <3>1, <3>2
  <2> QED
    BY <2>1
<1>17. ASSUME NEW i \in DOMAIN rest, NEW f \in Before(rest[i], ids)
       PROVE  f \in ShownIn(w, ids) \/ \E j \in 1..(i - 1) : rest[j] = f
  <2>1. i \in 1..(n - 1) /\ f \in Before(waiting[i + 1], ids)
    BY <1>2, <1>17
  <2>2. f \in ShownIn(v, ids) \/ \E j \in 1..((i + 1) - 1) : waiting[j] = f
    BY <1>1, <1>15, <2>1
  <2>3. CASE \E j \in 1..((i + 1) - 1) : waiting[j] = f
    <3>1. PICK j \in 1..((i + 1) - 1) : waiting[j] = f
      BY <2>3
    <3>2. CASE j = 1
      BY <1>2, <1>13, <3>1, <3>2
    <3>3. CASE j # 1
      <4>1. j - 1 \in 1..(i - 1) /\ j - 1 \in 1..(n - 1) /\ (j - 1) + 1 = j
        BY <1>2, <2>1, <3>3
      <4> QED
        BY <1>2, <3>1, <4>1
    <3> QED
      BY <3>2, <3>3
  <2> QED
    BY <1>13, <2>2, <2>3
<1>18. ASSUME NEW i \in DOMAIN rest, NEW j \in DOMAIN rest, i < j, Final(rest[i])
       PROVE  rest[i].project # rest[j].project
  <2>1. i \in 1..(n - 1) /\ j \in 1..(n - 1) /\ i + 1 < j + 1
    BY <1>2, <1>18
  <2>2. rest[i] = waiting[i + 1] /\ rest[j] = waiting[j + 1]
    BY <1>2, <2>1
  <2>3. i + 1 \in DOMAIN waiting /\ j + 1 \in DOMAIN waiting
    BY <1>15, <2>1
  <2> QED
    BY <1>1, <1>18, <2>1, <2>2, <2>3
<1>19. ASSUME NEW i \in DOMAIN rest
       PROVE  w[rest[i].project].status \in {"absent", "running"}
  <2>1. i \in 1..(n - 1) /\ 1 < i + 1 /\ 1 \in DOMAIN waiting
    BY <1>2
  <2>e. rest[i] = waiting[i + 1] /\ i + 1 \in DOMAIN waiting /\ rest[i] \in Messages(ids)
    BY <1>2, <1>15, <2>1
  <2>2. /\ rest[i].project \in Projects
        /\ v[rest[i].project].status \in {"absent", "running"}
    BY <1>1, <2>e, MessageIs
  <2>3. CASE rest[i].project = p
    <3>1. ~Final(e)
      BY <1>1, <1>2, <2>1, <2>e, <2>3
    <3> QED
      BY <1>6, <1>10, <2>2, <2>3, <3>1 DEF Final
  <2>4. CASE rest[i].project # p
    BY <1>9, <2>2, <2>4
  <2> QED
    BY <2>3, <2>4
<1>20. InOrder(rest, sent, w, ids)
  BY <1>2, <1>14, <1>16, <1>17, <1>18, <1>19 DEF InOrder
<1> QED
  BY <1>4, <1>5, <1>11, <1>20 DEF w, rest

-----------------------------------------------------------------------------
(* The steps.                                                              *)

\* What a run starts from.
LEMMA GivenFacts ==
  ASSUME TypeOK
  PROVE  /\ Len(batches) \in Nat /\ DOMAIN batches = BatchIds
         /\ BatchIds = 1..Len(batches) /\ IsFiniteSet(BatchIds) /\ BatchIds \subseteq Nat \ {0}
         /\ limit \in Nat /\ view \in Views(BatchIds) /\ NumProjects \in Nat \ {0}
<1>1. PICK r \in Runs : adrs = r.adrs /\ limit = r.limit
  BY DEF TypeOK
<1>2. batches \in Seq(Seq(ToSet(adrs)))
  BY <1>1, BatchesTyped DEF TypeOK
<1>3. Len(batches) \in Nat /\ DOMAIN batches = 1..Len(batches)
  BY <1>2
<1>4. IsFiniteSet(1..Len(batches))
  BY <1>3, FS_Interval
<1>5. limit \in Nat /\ NumProjects \in Nat \ {0}
  BY <1>1, TailoringAssumption
<1>6. view \in Views(BatchIds)
  BY DEF TypeOK, Views, Statuses
<1> QED
  BY <1>3, <1>4, <1>5, <1>6 DEF BatchIds

\* It stays through every step.
LEMMA GivenStays ==
  ASSUME UNCHANGED given
  PROVE  BatchIds' = BatchIds /\ Len(batches)' = Len(batches) /\ \A b : Ids(b)' = Ids(b)
  BY DEF given, BatchIds, Ids

LEMMA SentIs ==
  ASSUME NEW p \in Projects
  PROVE  /\ Event("started", p, 0) \in Sent <=> project[p] # "new"
         /\ Event("completed", p, 0) \in Sent <=> project[p] = "done"
         /\ Event("failed", p, 0) \in Sent <=> project[p] = "failed"
         /\ \A b \in BatchIds :
              /\ Event("begun", p, b) \in Sent <=> batch[p][b] # "waiting"
              /\ Event("ended", p, b) \in Sent <=> batch[p][b] = "done"
<1>1. /\ \A kind \in {"started", "completed", "failed"} : Event(kind, p, 0) \in Messages(BatchIds)
      /\ \A kind \in {"begun", "ended"}, b \in BatchIds : Event(kind, p, b) \in Messages(BatchIds)
  BY IsMessage
<1> QED
  BY <1>1, EventFields DEF Sent

\* The same of what has been sent after a step.
LEMMA SentAs ==
  ASSUME BatchIds' = BatchIds, NEW m \in Messages(BatchIds)
  PROVE  /\ m.project \in Projects /\ (m.kind \in {"begun", "ended"} => m.batch \in BatchIds)
         /\ m.kind \in {"started", "begun", "ended", "completed", "failed"}
         /\ m.kind = "started" => /\ m \in Sent <=> project[m.project] # "new"
                                  /\ m \in Sent' <=> project'[m.project] # "new"
         /\ m.kind = "begun" => /\ m \in Sent <=> batch[m.project][m.batch] # "waiting"
                                /\ m \in Sent' <=> batch'[m.project][m.batch] # "waiting"
         /\ m.kind = "ended" => /\ m \in Sent <=> batch[m.project][m.batch] = "done"
                                /\ m \in Sent' <=> batch'[m.project][m.batch] = "done"
         /\ m.kind = "completed" => /\ m \in Sent <=> project[m.project] = "done"
                                    /\ m \in Sent' <=> project'[m.project] = "done"
         /\ m.kind = "failed" => /\ m \in Sent <=> project[m.project] = "failed"
                                 /\ m \in Sent' <=> project'[m.project] = "failed"
<1>1. /\ m.project \in Projects /\ (m.kind \in {"begun", "ended"} => m.batch \in BatchIds)
      /\ m.kind \in {"started", "begun", "ended", "completed", "failed"}
  BY MessageIs
<1>2. m \in Sent <=>
        \/ m.kind = "started" /\ project[m.project] # "new"
        \/ m.kind = "begun" /\ batch[m.project][m.batch] # "waiting"
        \/ m.kind = "ended" /\ batch[m.project][m.batch] = "done"
        \/ m.kind = "completed" /\ project[m.project] = "done"
        \/ m.kind = "failed" /\ project[m.project] = "failed"
  BY DEF Sent
<1>3. m \in Sent' <=>
        \/ m.kind = "started" /\ project'[m.project] # "new"
        \/ m.kind = "begun" /\ batch'[m.project][m.batch] # "waiting"
        \/ m.kind = "ended" /\ batch'[m.project][m.batch] = "done"
        \/ m.kind = "completed" /\ project'[m.project] = "done"
        \/ m.kind = "failed" /\ project'[m.project] = "failed"
  BY DEF Sent
<1> QED
  BY <1>1, <1>2, <1>3

\* Nothing final was sent of a project that is new or runs.
LEMMA NothingFinal ==
  ASSUME NEW p \in Projects, project[p] \in {"new", "running"}
  PROVE  \A f \in Sent : f.project = p => ~Final(f)
  BY DEF Sent, Final

\* What has been sent before an event of its project.
LEMMA BeforeIs ==
  ASSUME NEW ids, NEW kind, NEW p, NEW b, NEW f \in Before(Event(kind, p, b), ids)
  PROVE  /\ f.project = p /\ f \in Messages(ids) /\ kind # "started"
         /\ \/ f = Event("started", p, 0)
            \/ kind = "ended" /\ f = Event("begun", p, b)
            \/ kind = "completed" /\ \E c \in ids : f = Event("ended", p, c)
<1>1. f \in Messages(ids) /\ f.project = p
  BY EventFields DEF Before
<1>2. /\ f = Event(f.kind, f.project, f.batch)
      /\ \/ f.kind \in {"started", "completed", "failed"} /\ f.batch = 0
         \/ f.kind \in {"begun", "ended"} /\ f.batch \in ids
  BY <1>1, MessageIs
<1>3. \/ f.kind = "started" /\ kind # "started"
      \/ f.kind = "begun" /\ kind = "ended" /\ f.batch = b
      \/ f.kind = "ended" /\ kind = "completed"
  BY EventFields DEF Before
<1> QED
  BY <1>1, <1>2, <1>3

\* The step sends e: it is what has changed in what was sent.
LEMMA OneSent ==
  ASSUME NEW e, BatchIds' = BatchIds, e \in Messages(BatchIds),
         \A m \in Messages(BatchIds) : m \in Sent' <=> m \in Sent \/ m = e
  PROVE  Sent' = Sent \cup {e}
<1>1. Sent \subseteq Messages(BatchIds) /\ Sent' \subseteq Messages(BatchIds)
  BY DEF Sent
<1> QED
  BY <1>1

\* Two events are the same if they say the same.
LEMMA SameEvent ==
  ASSUME NEW ids, NEW m \in Messages(ids), NEW kind, NEW p, NEW b
  PROVE  m = Event(kind, p, b) <=> m.kind = kind /\ m.project = p /\ m.batch = b
  BY MessageIs, EventFields

\* A step after which one more event has been sent, and that sends it.
LEMMA SendOne ==
  ASSUME TypeOK, ProgressInv, UNCHANGED <<given, view>>,
         NEW kind, NEW p \in Projects, NEW b, Event(kind, p, b) \in Messages(BatchIds),
         Sent' = Sent \cup {Event(kind, p, b)}, Event(kind, p, b) \notin Sent,
         Before(Event(kind, p, b), BatchIds) \subseteq Sent,
         project[p] \in {"new", "running"},
         events' = Append(events, Event(kind, p, b))
  PROVE  ProgressInv'
<1>1. view \in Views(BatchIds) /\ InOrder(events, Sent, view, BatchIds)
  BY GivenFacts DEF ProgressInv
<1>2. \A f \in Sent : f.project = Event(kind, p, b).project => ~Final(f)
  BY NothingFinal, EventFields
<1> PICK e : e = Event(kind, p, b)
  OBVIOUS
<1>3. InOrder(Append(events, e), Sent \cup {e}, view, BatchIds)
  BY <1>1, <1>2, SendKeepsOrder
<1>4. BatchIds' = BatchIds /\ view' = view
  BY GivenStays
<1> QED
  BY <1>3, <1>4 DEF ProgressInv

\* A step that sends one event and then its project's last.
LEMMA SendTwo ==
  ASSUME TypeOK, ProgressInv, UNCHANGED <<given, view>>,
         NEW kind, NEW p \in Projects, NEW b, Event(kind, p, b) \in Messages(BatchIds),
         kind \in {"started", "ended"},
         Sent' = (Sent \cup {Event(kind, p, b)}) \cup {Event("completed", p, 0)},
         Event(kind, p, b) \notin Sent,
         Before(Event(kind, p, b), BatchIds) \subseteq Sent,
         Before(Event("completed", p, 0), BatchIds) \subseteq Sent \cup {Event(kind, p, b)},
         project[p] \in {"new", "running"},
         events' = Append(Append(events, Event(kind, p, b)), Event("completed", p, 0))
  PROVE  ProgressInv'
<1>1. view \in Views(BatchIds) /\ InOrder(events, Sent, view, BatchIds)
  BY GivenFacts DEF ProgressInv
<1>2. \A f \in Sent : f.project = p => ~Final(f)
  BY NothingFinal
<1> PICK e, last : e = Event(kind, p, b) /\ last = Event("completed", p, 0)
  OBVIOUS
<1>3. /\ e.project = p /\ e.kind = kind /\ last.project = p /\ last.kind = "completed"
      /\ last \in Messages(BatchIds) /\ e \in Messages(BatchIds)
  BY EventFields, IsMessage
<1>4. InOrder(Append(events, e), Sent \cup {e}, view, BatchIds)
  BY <1>1, <1>2, <1>3, SendKeepsOrder
<1>5. last \notin Sent \cup {e}
  <2>1. Final(last) /\ ~Final(e)
    BY <1>3 DEF Final
  <2> QED
    BY <1>2, <1>3, <2>1
<1>6. \A f \in Sent \cup {e} : f.project = last.project => ~Final(f)
  BY <1>2, <1>3 DEF Final
<1>7. InOrder(Append(Append(events, e), last), (Sent \cup {e}) \cup {last}, view, BatchIds)
  <2> DEFINE waiting == Append(events, e)
             sent == Sent \cup {e}
  <2>1. InOrder(waiting, sent, view, BatchIds) /\ last \notin sent
        /\ Before(last, BatchIds) \subseteq sent
        /\ \A f \in sent : f.project = last.project => ~Final(f)
    BY <1>4, <1>5, <1>6
  <2> HIDE DEF waiting, sent
  <2>2. InOrder(Append(waiting, last), sent \cup {last}, view, BatchIds)
    BY <1>1, <1>3, <2>1, SendKeepsOrder
  <2> QED
    BY <2>2 DEF waiting, sent
<1>8. BatchIds' = BatchIds /\ view' = view
  BY GivenStays
<1> QED
  BY <1>7, <1>8 DEF ProgressInv

\* A step that sends and shows nothing.
LEMMA SendNone ==
  ASSUME TypeOK, ProgressInv, UNCHANGED <<given, view, events>>, Sent' = Sent
  PROVE  ProgressInv'
  BY GivenStays DEF ProgressInv

LEMMA GrantInv ==
  ASSUME IInv, Grant
  PROVE  IInv'
<1> USE DEF IInv
<1> DEFINE p == Head(queue)[1]
           b == Head(queue)[2]
<1>g. /\ result = "none" /\ permits > 0 /\ queue # <<>>
      /\ permits' = permits - 1 /\ queue' = Tail(queue)
      /\ batch' = [batch EXCEPT ![p][b] = "first"]
      /\ events' = Append(events, Event("begun", p, b))
      /\ UNCHANGED <<given, project, answer, finished, result, screen, outcome>>
  BY DEF Grant
<1>s. /\ BatchIds' = BatchIds /\ UNCHANGED <<adrs, batches, limit, view, completed>>
      /\ \A c : Ids(c)' = Ids(c)
  BY <1>g, GivenStays DEF given, screen
<1>1. /\ Head(queue) \in Projects \X BatchIds /\ 1 \in DOMAIN queue /\ Head(queue) = queue[1]
      /\ Tail(queue) \in Seq(Projects \X BatchIds) /\ DOMAIN queue = 1..Len(queue)
      /\ DOMAIN Tail(queue) = 1..(Len(queue) - 1)
      /\ \A i \in 1..(Len(queue) - 1) :
           i + 1 \in DOMAIN queue /\ i + 1 # 1 /\ Tail(queue)[i] = queue[i + 1]
      /\ Len(queue) \in Nat
  BY <1>g DEF TypeOK
<1>2. /\ p \in Projects /\ b \in BatchIds /\ Head(queue) = <<p, b>>
      /\ project[p] = "running" /\ batch[p][b] = "waiting"
  BY <1>1 DEF QueueInv
<1> HIDE DEF p, b
<1>3. /\ batch'[p][b] = "first"
      /\ \A q \in Projects, c \in BatchIds : <<q, c>> # <<p, b>> => batch'[q][c] = batch[q][c]
      /\ batch' \in [Projects -> [BatchIds -> {"waiting", "first", "second", "done"}]]
  BY <1>g, <1>2 DEF TypeOK
<1>4. TypeOK'
  BY <1>g, <1>s, <1>1, <1>3 DEF TypeOK
<1>5. QueueInv'
  <2>1. ASSUME NEW i \in 1..(Len(queue) - 1)
        PROVE  /\ queue'[i] \in Projects \X BatchIds
               /\ project'[queue'[i][1]] = "running"
               /\ batch'[queue'[i][1]][queue'[i][2]] = "waiting"
    <3>1. queue'[i] = queue[i + 1] /\ queue[i + 1] \in Projects \X BatchIds
      BY <1>g, <1>1 DEF TypeOK
    <3>2. queue[i + 1] # <<p, b>>
      BY <1>1, <1>2 DEF QueueInv
    <3> PICK q, c : q = queue[i + 1][1] /\ c = queue[i + 1][2]
      OBVIOUS
    <3>3. q \in Projects /\ c \in BatchIds /\ <<q, c>> # <<p, b>>
      BY <3>1, <3>2
    <3>4. project[q] = "running" /\ batch[q][c] = "waiting"
      BY <1>1 DEF QueueInv
    <3> QED
      BY <1>g, <1>3, <3>1, <3>3, <3>4
  <2>2. ASSUME NEW i \in 1..(Len(queue) - 1), NEW j \in 1..(Len(queue) - 1), queue'[i] = queue'[j]
        PROVE  i = j
    <3>1. queue[i + 1] = queue[j + 1] /\ i + 1 \in DOMAIN queue /\ j + 1 \in DOMAIN queue
      BY <1>g, <1>1, <2>2
    <3>2. i + 1 = j + 1
      BY <3>1 DEF QueueInv
    <3> QED
      BY <3>2
  <2> QED
    BY <1>g, <1>1, <2>1, <2>2 DEF QueueInv
<1>6. \A q \in Projects, c \in BatchIds : batch'[q][c] = "done" <=> batch[q][c] = "done"
  BY <1>2, <1>3
<1>7. FinishedInv'
  <2>1. \A q \in Projects : project[q] = "new" =>
          \A c \in BatchIds : batch'[q][c] = batch[q][c]
    BY <1>2, <1>3
  <2> QED
    BY <1>g, <1>s, <1>6, <2>1 DEF FinishedInv
<1>8. ResultInv'
  BY <1>g, <1>s DEF ResultInv
<1>9. ProgressInv'
  <2> DEFINE e == Event("begun", p, b)
  <2>1. e \in Messages(BatchIds) /\ e \notin Sent
    BY <1>2, IsMessage, SentIs
  <2>2. \A m \in Messages(BatchIds) : m \in Sent' <=> m \in Sent \/ m = e
    <3> TAKE m \in Messages(BatchIds)
    <3>1. m = e <=> m.kind = "begun" /\ m.project = p /\ m.batch = b
      BY SameEvent
    <3>2. CASE m.kind = "begun"
      BY <1>2, <1>3, <1>s, <3>1, <3>2, SentAs
    <3>3. CASE m.kind = "ended"
      BY <1>6, <1>s, <3>1, <3>3, SentAs
    <3>4. CASE m.kind \in {"started", "completed", "failed"}
      <4>1. project' = project
        BY <1>g
      <4> QED
        BY <1>s, <3>1, <3>4, <4>1, SentAs
    <3> QED
      BY <1>s, <3>2, <3>3, <3>4, SentAs
  <2>3. Sent' = Sent \cup {e}
    BY <1>s, <2>1, <2>2, OneSent
  <2>4. Before(e, BatchIds) \subseteq Sent
    BY <1>2, SentIs, BeforeIs
  <2> QED
    BY <1>g, <1>s, <1>2, <2>1, <2>3, <2>4, SendOne
<1>10. AnswerInv'
  BY <1>g, <1>s, <1>6 DEF AnswerInv
<1> QED
  BY <1>4, <1>5, <1>7, <1>8, <1>9, <1>10

LEMMA InitIInv ==
  ASSUME Init
  PROVE  IInv
<1>1. PICK r \in Runs : adrs = r.adrs /\ limit = r.limit
  BY DEF Init
<1>2. /\ \A p \in Projects : project[p] = "new" /\ finished[p] = <<>>
      /\ \A p \in Projects, b \in BatchIds : batch[p][b] = "waiting"
      /\ \A p \in Projects : view[p] = [status |-> "absent", begun |-> {}, ended |-> {}]
      /\ queue = <<>> /\ result = "none" /\ events = <<>>
  BY DEF Init
<1>3. TypeOK
  <2>1. limit \in Nat
    BY <1>1, TailoringAssumption
  <2>2. finished \in [Projects -> Seq(BatchIds)]
    BY DEF Init
  <2> QED
    BY <1>1, <2>1, <2>2 DEF Init, TypeOK, Outcomes
<1>4. ToSet(<<>>) = {}
  BY DEF ToSet
<1>5. QueueInv /\ FinishedInv
  <2>1. DOMAIN queue = {} /\ \A p \in Projects : DOMAIN finished[p] = {}
    BY <1>2
  <2> QED
    BY <1>2, <1>4, <2>1 DEF QueueInv, FinishedInv
<1>6. ResultInv /\ AnswerInv
  BY <1>2 DEF ResultInv, AnswerInv
<1>7. ProgressInv
  <2>1. Sent = {}
    <3> SUFFICES ASSUME NEW m \in Messages(BatchIds) PROVE m \notin Sent
      BY DEF Sent
    <3>1. m.project \in Projects /\ (m.kind \in {"begun", "ended"} => m.batch \in BatchIds)
      BY MessageIs
    <3> QED
      BY <1>2, <3>1 DEF Sent
  <2>2. ShownIn(view, BatchIds) = {}
    <3> SUFFICES ASSUME NEW m \in Messages(BatchIds) PROVE m \notin ShownIn(view, BatchIds)
      BY DEF ShownIn
    <3>1. m.project \in Projects
      BY MessageIs
    <3> QED
      BY <1>2, <3>1 DEF ShownIn
  <2>3. DOMAIN events = {} /\ events \in Seq(Messages(BatchIds)) /\ ToSet(events) = {}
    BY <1>2, <1>4
  <2> QED
    BY <2>1, <2>2, <2>3 DEF ProgressInv, InOrder
<1> QED
  BY <1>3, <1>5, <1>6, <1>7 DEF IInv

\* Steps that change neither the projects nor their batches.
LEMMA RetryInv ==
  ASSUME IInv, NEW p \in Projects, NEW b \in BatchIds, Retry(p, b)
  PROVE  IInv'
<1> USE DEF IInv
<1>g. /\ batch[p][b] = "first" /\ batch' = [batch EXCEPT ![p][b] = "second"]
      /\ UNCHANGED <<given, permits, queue, project, answer, finished, result,
                     events, screen, outcome>>
  BY DEF Retry
<1>s. /\ BatchIds' = BatchIds /\ UNCHANGED <<adrs, batches, limit, view, completed>>
      /\ \A c : Ids(c)' = Ids(c)
  BY <1>g, GivenStays DEF given, screen
<1>1. /\ batch'[p][b] = "second"
      /\ \A q \in Projects, c \in BatchIds : <<q, c>> # <<p, b>> => batch'[q][c] = batch[q][c]
      /\ batch' \in [Projects -> [BatchIds -> {"waiting", "first", "second", "done"}]]
  BY <1>g DEF TypeOK
<1>2. TypeOK'
  BY <1>g, <1>s, <1>1 DEF TypeOK
<1>3. \A q \in Projects, c \in BatchIds :
        /\ batch'[q][c] = "done" <=> batch[q][c] = "done"
        /\ batch'[q][c] = "waiting" <=> batch[q][c] = "waiting"
  <2> SUFFICES ASSUME NEW q \in Projects, NEW c \in BatchIds
               PROVE  /\ batch'[q][c] = "done" <=> batch[q][c] = "done"
                      /\ batch'[q][c] = "waiting" <=> batch[q][c] = "waiting"
    OBVIOUS
  <2>1. CASE <<q, c>> = <<p, b>>
    BY <1>g, <1>1, <2>1
  <2>2. CASE <<q, c>> # <<p, b>>
    BY <1>1, <2>2
  <2> QED
    BY <2>1, <2>2
<1>4. QueueInv'
  <2>1. \A i \in DOMAIN queue : queue[i][1] \in Projects /\ queue[i][2] \in BatchIds
    BY DEF TypeOK
  <2> QED
    BY <1>g, <1>3, <2>1 DEF QueueInv
<1>5. FinishedInv' /\ ResultInv' /\ AnswerInv'
  BY <1>g, <1>s, <1>3 DEF FinishedInv, ResultInv, AnswerInv
<1>6. ProgressInv'
  <2>1. \A m \in Messages(BatchIds) : m \in Sent' <=> m \in Sent
    BY <1>g, <1>s, <1>3, SentAs
  <2>2. Sent' = Sent
    BY <1>s, <2>1 DEF Sent
  <2> QED
    BY <1>g, <1>s, <2>2, SendNone
<1> QED
  BY <1>2, <1>4, <1>5, <1>6

\* What the projects' work and its batches are decides the invariant with the view.
LEMMA WorkStays ==
  ASSUME IInv, UNCHANGED <<given, work>>
  PROVE  /\ Sent' = Sent /\ BatchIds' = BatchIds
         /\ QueueInv' /\ FinishedInv' /\ ResultInv' /\ AnswerInv'
<1>1. /\ BatchIds' = BatchIds /\ UNCHANGED <<adrs, batches, limit>> /\ \A c : Ids(c)' = Ids(c)
      /\ UNCHANGED <<permits, queue, project, batch, answer, finished, result>>
  BY GivenStays DEF given, work
<1> QED
  BY <1>1 DEF IInv, Sent, QueueInv, FinishedInv, ResultInv, AnswerInv

LEMMA EndInv ==
  ASSUME IInv, Return \/ Cancel
  PROVE  IInv'
<1>1. /\ UNCHANGED <<given, work, events, screen>>
      /\ outcome' \in Outcomes \cup {"cancelled"}
  BY DEF Return, Cancel, IInv, TypeOK
<1>2. /\ Sent' = Sent /\ BatchIds' = BatchIds /\ UNCHANGED view
      /\ QueueInv' /\ FinishedInv' /\ ResultInv' /\ AnswerInv'
  BY <1>1, WorkStays DEF screen
<1>3. ProgressInv'
  BY <1>1, <1>2, SendNone DEF IInv
<1>4. TypeOK'
  BY <1>1, <1>2 DEF IInv, TypeOK, given, work, screen, Outcomes
<1> QED
  BY <1>2, <1>3, <1>4 DEF IInv

LEMMA ApplyInv ==
  ASSUME IInv, Apply
  PROVE  IInv'
<1> DEFINE e == Head(events)
           w == [view EXCEPT ![e.project] = Shown(@, e)]
<1>1. /\ events # <<>> /\ view' = w
      /\ events' = Tail(events)
      /\ completed' = IF e.kind = "completed" THEN completed + 1 ELSE completed
      /\ UNCHANGED <<given, work, outcome>>
  BY DEF Apply
<1>2. /\ Sent' = Sent /\ BatchIds' = BatchIds
      /\ QueueInv' /\ FinishedInv' /\ ResultInv' /\ AnswerInv'
  BY <1>1, WorkStays
<1>3. view \in Views(BatchIds) /\ InOrder(events, Sent, view, BatchIds)
  BY GivenFacts DEF IInv, ProgressInv
<1>4. w \in Views(BatchIds) /\ InOrder(Tail(events), Sent, w, BatchIds)
  BY <1>1, <1>3, ShowKeepsOrder
<1> HIDE DEF w, e
<1>5. ProgressInv'
  BY <1>1, <1>2, <1>4 DEF ProgressInv
<1>6. completed' \in Nat
  BY <1>1 DEF IInv, TypeOK
<1>7. TypeOK'
  <2>1. view' \in [Projects -> [status : {"absent", "running", "done", "failed"},
                           begun : SUBSET BatchIds, ended : SUBSET BatchIds]]
    BY <1>1, <1>4 DEF Views, Statuses
  <2> QED
    BY <1>1, <1>2, <1>6, <2>1 DEF IInv, TypeOK, given, work
<1> QED
  BY <1>2, <1>5, <1>7 DEF IInv

\* A project that fails ends the run.
LEMMA StopInv ==
  ASSUME IInv, NEW p \in Projects, result = "none", project[p] = "running", Stop(p)
  PROVE  IInv'
<1> USE DEF IInv
<1>g. /\ project' = [q \in Projects |-> IF q = p THEN "failed"
                                        ELSE IF project[q] = "running" THEN "dropped"
                                        ELSE project[q]]
      /\ result' = "error" /\ queue' = <<>> /\ permits' = limit
      /\ events' = Append(events, Event("failed", p, 0))
      /\ UNCHANGED <<given, batch, answer, finished, screen, outcome>>
  BY DEF Stop
<1>s. /\ BatchIds' = BatchIds /\ UNCHANGED <<adrs, batches, limit, view, completed>>
      /\ \A c : Ids(c)' = Ids(c)
  BY <1>g, GivenStays DEF given, screen
<1>1. /\ project'[p] = "failed"
      /\ \A q \in Projects : q # p => project'[q] = IF project[q] = "running" THEN "dropped"
                                                    ELSE project[q]
      /\ \A q \in Projects : project[q] \in {"new", "running", "done"}
  BY <1>g DEF ResultInv
<1>2. \A q \in Projects : /\ project'[q] = "new" <=> project[q] = "new"
                          /\ project'[q] = "done" <=> project[q] = "done"
                          /\ project'[q] = "failed" <=> q = p
                          /\ project'[q] # "running"
                          /\ project[q] # "failed"
                          /\ project'[q] \in {"new", "running", "done", "failed", "dropped"}
  BY <1>1
<1>3. TypeOK'
  <2>1. permits' \in Nat /\ queue' \in Seq(Projects \X BatchIds)
    BY <1>g, GivenFacts
  <2>2. project' \in [Projects -> {"new", "running", "done", "failed", "dropped"}]
    BY <1>g, <1>2
  <2> QED
    BY <1>g, <1>s, <2>1, <2>2 DEF TypeOK, Outcomes
<1>4. QueueInv'
  <2>1. DOMAIN queue' = {}
    BY <1>g
  <2> QED
    BY <2>1 DEF QueueInv
<1>5. FinishedInv' /\ ResultInv' /\ AnswerInv'
  BY <1>g, <1>s, <1>2 DEF FinishedInv, ResultInv, AnswerInv
<1>6. ProgressInv'
  <2> DEFINE e == Event("failed", p, 0)
  <2>1. e \in Messages(BatchIds) /\ e \notin Sent
    BY <1>2, IsMessage, SentIs
  <2>2. \A m \in Messages(BatchIds) : m \in Sent' <=> m \in Sent \/ m = e
    <3> TAKE m \in Messages(BatchIds)
    <3>1. /\ m = e <=> m.kind = "failed" /\ m.project = p /\ m.batch = 0
          /\ m.kind = "failed" => m.batch = 0
      BY SameEvent, MessageIs
    <3>2. batch' = batch
      BY <1>g
    <3>3. CASE m.kind = "failed"
      BY <1>2, <1>s, <3>1, <3>3, SentAs
    <3>4. CASE m.kind \in {"begun", "ended"}
      BY <1>s, <3>1, <3>2, <3>4, SentAs
    <3>5. CASE m.kind \in {"started", "completed"}
      BY <1>2, <1>s, <3>1, <3>5, SentAs
    <3> QED
      BY <1>s, <3>3, <3>4, <3>5, SentAs
  <2>3. Sent' = Sent \cup {e}
    BY <1>s, <2>1, <2>2, OneSent
  <2>4. Before(e, BatchIds) \subseteq Sent
    BY SentIs, BeforeIs
  <2> QED
    BY <1>g, <1>s, <2>1, <2>3, <2>4, SendOne
<1> QED
  BY <1>3, <1>4, <1>5, <1>6

LEMMA StartInv ==
  ASSUME IInv, NEW p \in Projects, Start(p)
  PROVE  IInv'
<1> USE DEF IInv
<1>g. /\ result = "none" /\ project[p] = "new"
      /\ \A q \in 1..(p - 1) : project[q] # "new"
      /\ UNCHANGED <<given, permits, batch, answer, finished, screen, outcome>>
  BY DEF Start
<1>s. /\ BatchIds' = BatchIds /\ UNCHANGED <<adrs, batches, limit, view, completed>>
      /\ \A c : Ids(c)' = Ids(c)
  BY <1>g, GivenStays DEF given, screen
<1>n. /\ \A b \in BatchIds : batch[p][b] = "waiting"
      /\ \A q \in Projects : project[q] \in {"new", "running", "done"}
  BY <1>g DEF FinishedInv, ResultInv
<1>e. /\ Event("started", p, 0) \in Messages(BatchIds)
      /\ Event("completed", p, 0) \in Messages(BatchIds)
      /\ Event("started", p, 0) \notin Sent
      /\ Before(Event("started", p, 0), BatchIds) \subseteq Sent
  BY <1>g, IsMessage, SentIs, BeforeIs
<1>1. CASE BatchIds = {}
  <2>1. /\ project' = [project EXCEPT ![p] = "done"]
        /\ result' = IF p = NumProjects THEN "ok" ELSE result
        /\ events' = events \o <<Event("started", p, 0), Event("completed", p, 0)>>
        /\ queue' = queue
    BY <1>1 DEF Start
  <2>2. /\ project'[p] = "done" /\ \A q \in Projects : q # p => project'[q] = project[q]
        /\ project' \in [Projects -> {"new", "running", "done", "failed", "dropped"}]
    BY <2>1 DEF TypeOK
  <2>3. TypeOK'
    BY <1>g, <1>s, <2>1, <2>2 DEF TypeOK, Outcomes
  <2>4. QueueInv'
    <3>1. DOMAIN queue = {}
      <4>1. queue \in Seq(Projects \X BatchIds)
        BY DEF TypeOK
      <4>2. \A i \in DOMAIN queue : queue[i] \in Projects \X BatchIds
        BY <4>1
      <4> QED
        BY <1>1, <4>2
    <3> QED
      BY <2>1, <3>1 DEF QueueInv
  <2>5. FinishedInv' /\ AnswerInv'
    BY <1>g, <1>s, <1>1, <2>2 DEF FinishedInv, AnswerInv
  <2>6. ResultInv'
    <3>1. ASSUME p = NumProjects, NEW q \in Projects
          PROVE  project'[q] = "done"
      <4>1. CASE q = p
        BY <2>2, <4>1
      <4>2. CASE q # p
        <5>1. q \in 1..(p - 1)
          BY <3>1, <4>2, TailoringAssumption DEF Projects
        <5>2. project[q] # "new" /\ project[q] # "running"
          BY <1>1, <1>g, <5>1 DEF ResultInv
        <5> QED
          BY <1>n, <2>2, <4>2, <5>2
      <4> QED
        BY <4>1, <4>2
    <3>2. /\ result' \in {"none", "ok"} /\ (result' = "ok" => p = NumProjects)
      BY <1>g, <2>1
    <3>3. \A q \in Projects : project'[q] \in {"new", "running", "done"} /\ project'[q] # "failed"
      BY <1>n, <2>2
    <3>4. \A q \in Projects : project'[q] # "running"
      BY <1>1, <2>2 DEF ResultInv
    <3> QED
      BY <1>s, <3>1, <3>2, <3>3, <3>4 DEF ResultInv
  <2>7. ProgressInv'
    <3> DEFINE e == Event("started", p, 0)
               last == Event("completed", p, 0)
    <3>1. events' = Append(Append(events, e), last)
      <4>1. events \in Seq(Messages(BatchIds))
        BY DEF ProgressInv, InOrder
      <4>2. \A s \in Seq(Messages(BatchIds)), x \in Messages(BatchIds), y \in Messages(BatchIds) :
              s \o <<x, y>> = Append(Append(s, x), y)
        OBVIOUS
      <4> QED
        BY <1>e, <2>1, <4>1, <4>2
    <3>2. \A m \in Messages(BatchIds) : m \in Sent' <=> m \in Sent \/ m = e \/ m = last
      <4> TAKE m \in Messages(BatchIds)
      <4>1. /\ m = e <=> m.kind = "started" /\ m.project = p /\ m.batch = 0
            /\ m = last <=> m.kind = "completed" /\ m.project = p /\ m.batch = 0
            /\ m.kind \in {"started", "completed", "failed"} => m.batch = 0
        BY SameEvent, MessageIs
      <4>2. batch' = batch
        BY <1>g
      <4>3. CASE m.kind \in {"started", "completed", "failed"}
        BY <1>g, <1>n, <1>s, <2>2, <4>1, <4>3, SentAs
      <4>4. CASE m.kind \in {"begun", "ended"}
        BY <1>s, <4>1, <4>2, <4>4, SentAs
      <4> QED
        BY <1>s, <4>3, <4>4, SentAs
    <3>3. Sent' = (Sent \cup {e}) \cup {last}
      <4>1. Sent' \subseteq Messages(BatchIds) /\ Sent \subseteq Messages(BatchIds)
        BY <1>s DEF Sent
      <4> QED
        BY <1>e, <3>2, <4>1
    <3>4. Before(last, BatchIds) \subseteq Sent \cup {e}
      BY <1>1, BeforeIs
    <3> QED
      BY <1>e, <1>g, <1>s, <3>1, <3>3, <3>4, SendTwo
  <2> QED
    BY <2>3, <2>4, <2>5, <2>6, <2>7
<1>2. CASE BatchIds # {}
  <2> DEFINE own == [b \in BatchIds |-> <<p, b>>]
  <2>1. /\ project' = [project EXCEPT ![p] = "running"]
        /\ queue' = queue \o own
        /\ events' = Append(events, Event("started", p, 0))
        /\ result' = result
    BY <1>2 DEF Start
  <2>2. /\ project'[p] = "running" /\ \A q \in Projects : q # p => project'[q] = project[q]
        /\ project' \in [Projects -> {"new", "running", "done", "failed", "dropped"}]
    BY <2>1 DEF TypeOK
  <2>3. /\ own \in Seq(Projects \X BatchIds) /\ DOMAIN own = BatchIds /\ Len(own) = Len(batches)
        /\ Len(batches) \in Nat /\ BatchIds = 1..Len(batches)
        /\ \A b \in BatchIds : own[b] = <<p, b>>
    BY GivenFacts
  <2>4. /\ queue \in Seq(Projects \X BatchIds) /\ Len(queue) \in Nat /\ DOMAIN queue = 1..Len(queue)
        /\ \A i \in DOMAIN queue : queue[i] \in Projects \X BatchIds
    BY DEF TypeOK
  <2> HIDE DEF own
  <2>5. /\ queue' \in Seq(Projects \X BatchIds)
        /\ DOMAIN queue' = 1..(Len(queue) + Len(batches))
        /\ \A i \in DOMAIN queue : queue'[i] = queue[i]
        /\ \A i \in DOMAIN queue' : i \notin DOMAIN queue =>
             i - Len(queue) \in BatchIds /\ queue'[i] = <<p, i - Len(queue)>>
    <3>1. /\ queue' \in Seq(Projects \X BatchIds)
          /\ DOMAIN queue' = 1..(Len(queue) + Len(batches))
          /\ \A i \in DOMAIN queue : queue'[i] = queue[i]
      <4> DEFINE S == Projects \X BatchIds
      <4>1. queue \in Seq(S) /\ own \in Seq(S)
        BY <2>3, <2>4
      <4> HIDE DEF S
      <4>2. /\ queue \o own \in Seq(S) /\ DOMAIN (queue \o own) = 1..(Len(queue) + Len(own))
            /\ \A i \in 1..Len(queue) : (queue \o own)[i] = queue[i]
        BY <4>1, Concatenated
      <4> QED
        BY <2>1, <2>3, <2>4, <4>2 DEF S
    <3>2. ASSUME NEW i \in DOMAIN queue', i \notin DOMAIN queue
          PROVE  i - Len(queue) \in BatchIds /\ queue'[i] = <<p, i - Len(queue)>>
      <4>1. i - Len(queue) \in 1..Len(batches)
        BY <2>3, <2>4, <3>1, <3>2
      <4>2. queue'[i] = own[i - Len(queue)]
        <5>1. i \in (Len(queue) + 1)..(Len(queue) + Len(own))
          BY <2>3, <2>4, <3>1, <3>2
        <5> QED
          BY <2>1, <2>3, <2>4, <5>1, Concatenated
      <4> QED
        BY <2>3, <4>1, <4>2
    <3> QED
      BY <3>1, <3>2
  <2>6. TypeOK'
    BY <1>g, <1>s, <2>1, <2>2, <2>5 DEF TypeOK
  <2>7. \A i \in DOMAIN queue : queue[i][1] # p
    BY <1>g DEF QueueInv
  <2>8. QueueInv'
    <3>1. ASSUME NEW i \in DOMAIN queue'
          PROVE  project'[queue'[i][1]] = "running" /\ batch'[queue'[i][1]][queue'[i][2]] = "waiting"
      <4>1. CASE i \in DOMAIN queue
        BY <1>g, <2>2, <2>4, <2>5, <2>7, <4>1 DEF QueueInv
      <4>2. CASE i \notin DOMAIN queue
        <5>1. i - Len(queue) \in BatchIds /\ queue'[i] = <<p, i - Len(queue)>>
          BY <2>5, <4>2
        <5> QED
          BY <1>g, <1>n, <2>2, <5>1
      <4> QED
        BY <4>1, <4>2
    <3>2. ASSUME NEW i \in DOMAIN queue', NEW j \in DOMAIN queue', queue'[i] = queue'[j]
          PROVE  i = j
      <4>1. CASE i \in DOMAIN queue /\ j \in DOMAIN queue
        BY <2>5, <3>2, <4>1 DEF QueueInv
      <4>2. CASE i \notin DOMAIN queue /\ j \notin DOMAIN queue
        <5>1. i - Len(queue) = j - Len(queue)
          BY <2>5, <3>2, <4>2
        <5> QED
          BY <2>3, <2>4, <2>5, <5>1
      <4>3. CASE i \in DOMAIN queue /\ j \notin DOMAIN queue
        BY <2>5, <2>7, <3>2, <4>3
      <4>4. CASE i \notin DOMAIN queue /\ j \in DOMAIN queue
        BY <2>5, <2>7, <3>2, <4>4
      <4> QED
        BY <4>1, <4>2, <4>3, <4>4
    <3> QED
      BY <3>1, <3>2 DEF QueueInv
  <2>9. FinishedInv' /\ AnswerInv'
    BY <1>g, <1>s, <2>2 DEF FinishedInv, AnswerInv
  <2>10. ResultInv'
    BY <1>2, <1>g, <1>n, <1>s, <2>1, <2>2 DEF ResultInv
  <2>11. ProgressInv'
    <3> DEFINE e == Event("started", p, 0)
    <3>2. \A m \in Messages(BatchIds) : m \in Sent' <=> m \in Sent \/ m = e
      <4> TAKE m \in Messages(BatchIds)
      <4>1. /\ m = e <=> m.kind = "started" /\ m.project = p /\ m.batch = 0
            /\ m.kind \in {"started", "completed", "failed"} => m.batch = 0
        BY SameEvent, MessageIs
      <4>2. batch' = batch
        BY <1>g
      <4>3. CASE m.kind \in {"started", "completed", "failed"}
        BY <1>g, <1>n, <1>s, <2>2, <4>1, <4>3, SentAs
      <4>4. CASE m.kind \in {"begun", "ended"}
        BY <1>s, <4>1, <4>2, <4>4, SentAs
      <4> QED
        BY <1>s, <4>3, <4>4, SentAs
    <3>3. Sent' = Sent \cup {e}
      BY <1>e, <1>s, <3>2, OneSent
    <3> QED
      BY <1>e, <1>g, <1>s, <2>1, <3>3, SendOne
  <2> QED
    BY <2>6, <2>8, <2>9, <2>10, <2>11
<1> QED
  BY <1>1, <1>2

-----------------------------------------------------------------------------
(* Merging.                                                                *)

\* No two sections are for one ADR.
OneEach(sections) == \A i, j \in DOMAIN sections : sections[i].adr = sections[j].adr => i = j

\* The sections of a set that those of another leave.
Kept(old, new) == {x \in old : \A y \in new : y.adr # x.adr}

\* r has the sections of new, and those of s that they leave.
Replaces(r, s, new) == ToSet(r) = Kept(ToSet(s), new) \cup new

LEMMA UpsertTyped ==
  ASSUME NEW S, NEW s \in Seq(S), NEW x \in S
  PROVE  Upsert(s, x) \in Seq(S)
<1>1. CASE \E i \in DOMAIN s : s[i].adr = x.adr
  <2> PICK n : n = Len(s)
    OBVIOUS
  <2>1. n \in Nat /\ DOMAIN s = 1..n /\ \A i \in 1..n : s[i] \in S
    OBVIOUS
  <2>2. [i \in 1..n |-> IF s[i].adr = x.adr THEN x ELSE s[i]] \in Seq(S)
    BY <2>1
  <2> QED
    BY <1>1, <2>1, <2>2 DEF Upsert
<1>2. CASE ~\E i \in DOMAIN s : s[i].adr = x.adr
  BY <1>2 DEF Upsert
<1> QED
  BY <1>1, <1>2

LEMMA UpsertIs ==
  ASSUME NEW S, NEW s \in Seq(S), NEW x \in S, OneEach(s)
  PROVE  /\ OneEach(Upsert(s, x))
         /\ Replaces(Upsert(s, x), s, {x})
<1> USE DEF Replaces
<1>a. PICK r, n : r = Upsert(s, x) /\ n = Len(s)
  OBVIOUS
<1>1. n \in Nat /\ DOMAIN s = 1..n
  BY <1>a
<1>2. CASE \E i \in DOMAIN s : s[i].adr = x.adr
  <2>1. r = [i \in 1..n |-> IF s[i].adr = x.adr THEN x ELSE s[i]]
    BY <1>1, <1>2, <1>a DEF Upsert
  <2>2. DOMAIN r = 1..n /\ \A i \in 1..n : r[i].adr = s[i].adr
    BY <2>1
  <2>3. OneEach(r)
    BY <1>1, <2>2 DEF OneEach
  <2>4. PICK k \in 1..n : s[k].adr = x.adr
    BY <1>1, <1>2
  <2>5. r[k] = x
    BY <2>1, <2>4
  <2>6. ASSUME NEW y \in ToSet(r)
        PROVE  y \in Kept(ToSet(s), {x}) \cup {x}
    <3>1. PICK i \in 1..n : y = r[i]
      BY <2>2 DEF ToSet
    <3>2. y = x \/ (y = s[i] /\ y.adr # x.adr)
      BY <2>1, <3>1
    <3>3. s[i] \in ToSet(s)
      BY <1>1 DEF ToSet
    <3> QED
      BY <3>2, <3>3 DEF Kept
  <2>7. ASSUME NEW y \in ToSet(s), y.adr # x.adr
        PROVE  y \in ToSet(r)
    <3>1. PICK i \in 1..n : y = s[i]
      BY <1>1 DEF ToSet
    <3>2. r[i] = y
      BY <2>1, <2>7, <3>1
    <3> QED
      BY <2>2, <3>2 DEF ToSet
  <2>8. x \in ToSet(r)
    BY <2>2, <2>4, <2>5 DEF ToSet
  <2>9. ToSet(r) = Kept(ToSet(s), {x}) \cup {x}
    BY <2>6, <2>7, <2>8 DEF Kept
  <2> QED
    BY <1>a, <2>3, <2>9
<1>3. CASE ~\E i \in DOMAIN s : s[i].adr = x.adr
  <2>1. r = Append(s, x)
    BY <1>3, <1>a DEF Upsert
  <2>2. DOMAIN r = 1..(n + 1) /\ r[n + 1] = x /\ \A i \in 1..n : r[i] = s[i]
    BY <1>1, <1>a, <2>1
  <2>3. \A i \in 1..(n + 1) : i \in 1..n \/ i = n + 1
    BY <1>1
  <2>4. \A i \in 1..n : s[i].adr # x.adr
    BY <1>1, <1>3
  <2>5. OneEach(r)
    <3> SUFFICES ASSUME NEW i \in 1..(n + 1), NEW j \in 1..(n + 1), r[i].adr = r[j].adr
                 PROVE  i = j
      BY <2>2 DEF OneEach
    <3>1. CASE i \in 1..n /\ j \in 1..n
      BY <1>1, <2>2, <3>1 DEF OneEach
    <3>2. CASE i = n + 1 \/ j = n + 1
      BY <2>2, <2>3, <2>4, <3>2
    <3> QED
      BY <2>3, <3>1, <3>2
  <2>6. ASSUME NEW y \in ToSet(r)
        PROVE  y \in Kept(ToSet(s), {x}) \cup {x}
    <3>1. PICK i \in 1..(n + 1) : y = r[i]
      BY <2>2 DEF ToSet
    <3>2. y = x \/ (i \in 1..n /\ y = s[i])
      BY <2>2, <2>3, <3>1
    <3>3. i \in 1..n => s[i] \in ToSet(s) /\ s[i].adr # x.adr
      BY <1>1, <2>4 DEF ToSet
    <3> QED
      BY <3>2, <3>3 DEF Kept
  <2>7. ASSUME NEW y \in ToSet(s)
        PROVE  y \in ToSet(r)
    <3>1. PICK i \in 1..n : y = s[i]
      BY <1>1 DEF ToSet
    <3>2. i \in 1..(n + 1) /\ r[i] = y
      BY <1>1, <2>2, <3>1
    <3> QED
      BY <2>2, <3>2 DEF ToSet
  <2>8. x \in ToSet(r)
    <3>1. n + 1 \in 1..(n + 1)
      BY <1>1
    <3> QED
      BY <2>2, <3>1 DEF ToSet
  <2>9. ToSet(r) = Kept(ToSet(s), {x}) \cup {x}
    BY <2>6, <2>7, <2>8 DEF Kept
  <2> QED
    BY <1>a, <2>5, <2>9
<1> QED
  BY <1>2, <1>3

LEMMA KeptStep ==
  ASSUME NEW A, NEW B, NEW x, \A y \in B : y.adr # x.adr
  PROVE  Kept(Kept(A, B) \cup B, {x}) \cup {x} = Kept(A, B \cup {x}) \cup (B \cup {x})
  BY DEF Kept

\* Sections put in one after another.
IsUpserting(f, s, new, S) ==
  /\ f \in [0..Len(new) -> Seq(S)] /\ f[0] = s
  /\ \A n \in 1..Len(new) : f[n] = Upsert(f[n - 1], new[n])

LEMMA UpsertingIs ==
  ASSUME NEW S, NEW s \in Seq(S), NEW new \in Seq(S)
  PROVE  \E f : IsUpserting(f, s, new, S) /\ Upserted(s, new) = f[Len(new)]
<1>a. PICK T, L : T = Seq(S) /\ L = Len(new)
  OBVIOUS
<1> DEFINE step == [n \in 1..L |-> [x \in T |-> Upsert(x, new[n])]]
           Up(f) == f = [n \in 0..L |-> IF n = 0 THEN s ELSE Upsert(f[n - 1], new[n])]
<1>1. L \in Nat /\ s \in T /\ \A n \in 1..L : new[n] \in S
  BY <1>a
<1>2. \A n \in 1..L, x \in T : Upsert(x, new[n]) \in T
  BY <1>1, <1>a, UpsertTyped
<1>3. step \in [1..L -> [T -> T]] /\ \A n \in 1..L, x \in T : step[n][x] = Upsert(x, new[n])
  BY <1>2
<1> HIDE DEF step
<1>4. PICK f : /\ f \in [0..L -> T] /\ f[0] = s
               /\ \A n \in 1..L : f[n] = step[n][f[n - 1]]
  <2>1. PICK f : IsRun(f, s, L, step, T)
    BY <1>1, <1>3, Recursion
  <2> QED
    BY <2>1 DEF IsRun
<1>5. \A n \in 1..L : f[n] = Upsert(f[n - 1], new[n])
  <2> TAKE n \in 1..L
  <2>1. n - 1 \in 0..L
    BY <1>1
  <2>2. f[n - 1] \in T
    BY <1>4, <2>1
  <2> QED
    BY <1>3, <1>4, <2>2
<1>6. IsUpserting(f, s, new, S)
  BY <1>4, <1>5, <1>a DEF IsUpserting
<1>7. Up(f)
  <2> DEFINE F == [n \in 0..L |-> IF n = 0 THEN s ELSE Upsert(f[n - 1], new[n])]
  <2>1. ASSUME NEW n \in 0..L
        PROVE  f[n] = F[n]
    <3>1. CASE n = 0
      BY <1>4, <3>1
    <3>2. CASE n # 0
      <4>1. n \in 1..L
        BY <1>1, <3>2
      <4> QED
        BY <1>5, <3>2, <4>1
    <3> QED
      BY <3>1, <3>2
  <2>2. F = [n \in 0..L |-> F[n]]
    OBVIOUS
  <2> HIDE DEF F
  <2>3. f = F
    BY <1>4, <2>1, <2>2
  <2> QED
    BY <2>3 DEF F
<1>8. PICK g : g = CHOOSE h : Up(h)
  OBVIOUS
<1>9. Up(g)
  BY <1>7, <1>8
<1>10. g[0] = s /\ \A n \in 1..L : g[n] = Upsert(g[n - 1], new[n])
  <2>1. g = [n \in 0..L |-> IF n = 0 THEN s ELSE Upsert(g[n - 1], new[n])]
    BY <1>9
  <2>2. 0 \in 0..L /\ \A n \in 1..L : n \in 0..L /\ n # 0
    BY <1>1
  <2> QED
    BY <2>1, <2>2
<1>11. Upserted(s, new) = g[L]
  BY <1>8, <1>a DEF Upserted
<1> HIDE DEF Up
<1>12. g[L] = f[L]
  <2>1. Agree(g, f, L)
    BY <1>4, <1>5, <1>10 DEF Agree
  <2>2. L \in 0..L
    BY <1>1
  <2> QED
    BY <1>1, <2>1, <2>2, SameRun
<1> QED
  BY <1>6, <1>11, <1>12, <1>a

\* Sections merged into others: the new ones, and of the others those for other ADRs.
LEMMA UpsertedIs ==
  ASSUME NEW S, NEW s \in Seq(S), NEW new \in Seq(S), OneEach(s), OneEach(new)
  PROVE  /\ OneEach(Upserted(s, new))
         /\ Replaces(Upserted(s, new), s, ToSet(new))
<1>a. PICK L : L = Len(new)
  OBVIOUS
<1>1. L \in Nat /\ DOMAIN new = 1..L /\ \A n \in 1..L : new[n] \in S
  BY <1>a
<1>2. PICK f : IsUpserting(f, s, new, S) /\ Upserted(s, new) = f[L]
  BY <1>a, UpsertingIs
<1>3. f \in [0..L -> Seq(S)] /\ f[0] = s /\ \A n \in 1..L : f[n] = Upsert(f[n - 1], new[n])
  BY <1>2, <1>a DEF IsUpserting
<1> DEFINE First(n) == {new[i] : i \in 1..n}
           Good(n) == OneEach(f[n]) /\ ToSet(f[n]) = Kept(ToSet(s), First(n)) \cup First(n)
           M == {n \in Nat : n <= L => Good(n)}
<1> HIDE DEF First, Good
<1>4. 0 \in M
  <2>1. First(0) = {}
    <3>1. 1..0 = {}
      OBVIOUS
    <3> QED
      BY <3>1 DEF First
  <2>2. Kept(ToSet(s), First(0)) \cup First(0) = ToSet(s)
    BY <2>1 DEF Kept
  <2> QED
    BY <1>3, <2>2 DEF Good
<1>5. ASSUME NEW n \in M
      PROVE  n + 1 \in M
  <2>1. SUFFICES ASSUME n + 1 <= L
                 PROVE  Good(n + 1)
    OBVIOUS
  <2>2. n \in Nat /\ n + 1 \in 1..L /\ (n + 1) - 1 = n /\ n \in 0..L /\ Good(n)
    BY <1>1, <2>1
  <2>a. PICK m, x, p, q, A, B : /\ m = n + 1 /\ x = new[n + 1] /\ p = f[n] /\ q = f[n + 1]
                                /\ A = ToSet(s) /\ B = First(n)
    OBVIOUS
  <2>3. First(m) = B \cup {x}
    <3>1. 1..m = (1..n) \cup {m}
      BY <2>2, <2>a
    <3> QED
      BY <2>a, <3>1 DEF First
  <2>4. \A y \in B : y.adr # x.adr
    <3>1. \A i \in 1..n : i \in 1..L /\ i # n + 1
      BY <1>1, <2>2
    <3> QED
      BY <1>1, <2>2, <2>a, <3>1 DEF OneEach, First
  <2> HIDE DEF M
  <2>5. OneEach(p) /\ ToSet(p) = Kept(A, B) \cup B
    BY <2>2, <2>a DEF Good
  <2>6. p \in Seq(S) /\ x \in S /\ q = Upsert(p, x)
    BY <1>1, <1>3, <2>2, <2>a
  <2>7. OneEach(q) /\ ToSet(q) = Kept(ToSet(p), {x}) \cup {x}
    <3>1. OneEach(q) /\ Replaces(q, p, {x})
      BY <2>5, <2>6, UpsertIs
    <3> QED
      BY <3>1 DEF Replaces
  <2>8. ToSet(q) = Kept(A, B \cup {x}) \cup (B \cup {x})
    BY <2>4, <2>5, <2>7, KeptStep
  <2> QED
    <3>1. OneEach(f[m]) /\ ToSet(f[m]) = Kept(ToSet(s), First(m)) \cup First(m)
      BY <2>3, <2>7, <2>8, <2>a
    <3>2. Good(m)
      BY <3>1 DEF Good
    <3> QED
      BY <2>a, <3>2
<1>6. M = Nat
  <2>1. M \in SUBSET Nat
    OBVIOUS
  <2> HIDE DEF M
  <2> QED
    BY <1>4, <1>5, <2>1, NatSetInduction
<1>7. Good(L)
  <2>1. L \in Nat /\ L <= L
    BY <1>1
  <2>2. L \in M
    <3> HIDE DEF M
    <3> QED
      BY <1>6, <2>1
  <2> QED
    BY <2>1, <2>2
<1>8. First(L) = ToSet(new)
  BY <1>1 DEF ToSet, First
<1> QED
  BY <1>2, <1>7, <1>8 DEF Good, Replaces

\* The sections of a file, after those of one more output.
Taken(sections, new) == IF sections = <<>> THEN new ELSE Upserted(sections, new)

LEMMA TakenTyped ==
  ASSUME NEW S, NEW s \in Seq(S), NEW new \in Seq(S)
  PROVE  Taken(s, new) \in Seq(S)
<1>1. PICK f : IsUpserting(f, s, new, S) /\ Upserted(s, new) = f[Len(new)]
  BY UpsertingIs
<1>2. Len(new) \in 0..Len(new)
  OBVIOUS
<1>3. f[Len(new)] \in Seq(S)
  BY <1>1, <1>2 DEF IsUpserting
<1> QED
  BY <1>1, <1>3 DEF Taken

LEMMA TakenIs ==
  ASSUME NEW S, NEW s \in Seq(S), NEW new \in Seq(S), OneEach(s), OneEach(new)
  PROVE  OneEach(Taken(s, new)) /\ Replaces(Taken(s, new), s, ToSet(new))
<1>1. CASE s = <<>>
  <2>1. ToSet(s) = {}
    BY <1>1 DEF ToSet
  <2>2. Kept(ToSet(s), ToSet(new)) = {}
    BY <2>1 DEF Kept
  <2>3. Taken(s, new) = new
    BY <1>1 DEF Taken
  <2> QED
    BY <2>2, <2>3 DEF Replaces
<1>2. CASE s # <<>>
  BY <1>2, UpsertedIs DEF Taken
<1> QED
  BY <1>1, <1>2

\* Of what was said, set after set, the sections that nothing later is about.
Lasting(say, n) ==
  UNION {{x \in say[m] : \A k \in (m + 1)..n : \A y \in say[k] : y.adr # x.adr} : m \in 1..n}

LEMMA LastingStep ==
  ASSUME NEW say, NEW n \in Nat
  PROVE  Lasting(say, n + 1) = Kept(Lasting(say, n), say[n + 1]) \cup say[n + 1]
<1> DEFINE In(x, m, l) == x \in say[m] /\ \A k \in (m + 1)..l : \A y \in say[k] : y.adr # x.adr
<1>1. \A l : \A x : x \in Lasting(say, l) <=> \E m \in 1..l : In(x, m, l)
  BY DEF Lasting
<1>2. \A x : x \in Kept(Lasting(say, n), say[n + 1])
               <=> x \in Lasting(say, n) /\ \A y \in say[n + 1] : y.adr # x.adr
  BY DEF Kept
<1>3. ASSUME NEW x, NEW m \in 1..n
      PROVE  In(x, m, n + 1) <=> In(x, m, n) /\ \A y \in say[n + 1] : y.adr # x.adr
  <2>1. (m + 1)..(n + 1) = ((m + 1)..n) \cup {n + 1}
    OBVIOUS
  <2> QED
    BY <2>1
<1>4. \A x : In(x, n + 1, n + 1) <=> x \in say[n + 1]
  <2>1. ((n + 1) + 1)..(n + 1) = {}
    OBVIOUS
  <2> QED
    BY <2>1
<1> HIDE DEF In
<1>5. ASSUME NEW x
      PROVE  x \in Lasting(say, n + 1)
               <=> x \in Kept(Lasting(say, n), say[n + 1]) \/ x \in say[n + 1]
  <2>1. 1..(n + 1) = (1..n) \cup {n + 1}
    OBVIOUS
  <2>2. x \in Lasting(say, n + 1) <=> (\E m \in 1..n : In(x, m, n + 1)) \/ In(x, n + 1, n + 1)
    BY <1>1, <2>1
  <2>3. (\E m \in 1..n : In(x, m, n + 1))
          <=> x \in Lasting(say, n) /\ \A y \in say[n + 1] : y.adr # x.adr
    BY <1>1, <1>3
  <2> QED
    BY <1>2, <1>4, <2>2, <2>3
<1> QED
  BY <1>5

\* Outputs that have one section per ADR in the file at a path.
Mergeable(outputs, N, path, S) ==
  /\ N \in Nat /\ outputs = [n \in 1..N |-> outputs[n]]
  /\ \A n \in 1..N : Sections(outputs[n], path) \in Seq(S) /\ OneEach(Sections(outputs[n], path))

IsMerging(f, outputs, N, path, S) ==
  /\ f \in [0..N -> Seq(S)] /\ f[0] = <<>>
  /\ \A n \in 1..N : f[n] = Taken(f[n - 1], Sections(outputs[n], path))

LEMMA MergingIs ==
  ASSUME NEW S, NEW N, NEW outputs, NEW path, Mergeable(outputs, N, path, S)
  PROVE  \E f : IsMerging(f, outputs, N, path, S) /\ MergeSections(outputs, path) = f[N]
<1>a. PICK T : T = Seq(S)
  OBVIOUS
<1> DEFINE new == [n \in 1..N |-> Sections(outputs[n], path)]
           step == [n \in 1..N |-> [x \in T |-> Taken(x, new[n])]]
           Up(f) == f = [n \in 0..N |-> IF n = 0 THEN <<>>
                           ELSE LET added == Sections(outputs[n], path)
                                IN  IF f[n - 1] = <<>> THEN added ELSE Upserted(f[n - 1], added)]
<1>1. N \in Nat /\ <<>> \in T /\ \A n \in 1..N : new[n] \in T /\ new[n] = Sections(outputs[n], path)
  BY <1>a DEF Mergeable
<1>l. Len(outputs) = N
  <2>1. outputs \in [1..N -> {outputs[n] : n \in 1..N}]
    BY DEF Mergeable
  <2>2. outputs \in Seq({outputs[n] : n \in 1..N}) /\ DOMAIN outputs = 1..N
    BY <1>1, <2>1
  <2> QED
    BY <1>1, <2>2
<1> HIDE DEF new
<1>2. \A n \in 1..N, x \in T : Taken(x, new[n]) \in T
  BY <1>1, <1>a, TakenTyped
<1>3. step \in [1..N -> [T -> T]] /\ \A n \in 1..N, x \in T : step[n][x] = Taken(x, new[n])
  BY <1>2
<1> HIDE DEF step
<1>4. PICK f : /\ f \in [0..N -> T] /\ f[0] = <<>>
               /\ \A n \in 1..N : f[n] = step[n][f[n - 1]]
  <2>1. PICK f : IsRun(f, <<>>, N, step, T)
    BY <1>1, <1>3, Recursion
  <2> QED
    BY <2>1 DEF IsRun
<1>5. \A n \in 1..N : f[n] = Taken(f[n - 1], Sections(outputs[n], path))
  <2> TAKE n \in 1..N
  <2>1. n - 1 \in 0..N
    BY <1>1
  <2>2. f[n - 1] \in T
    BY <1>4, <2>1
  <2> QED
    BY <1>1, <1>3, <1>4, <2>2
<1>6. IsMerging(f, outputs, N, path, S)
  BY <1>4, <1>5, <1>a DEF IsMerging
<1>7. Up(f)
  <2> DEFINE F == [n \in 0..N |-> IF n = 0 THEN <<>>
                     ELSE LET added == Sections(outputs[n], path)
                          IN  IF f[n - 1] = <<>> THEN added ELSE Upserted(f[n - 1], added)]
  <2>1. ASSUME NEW n \in 0..N
        PROVE  f[n] = F[n]
    <3>1. CASE n = 0
      BY <1>4, <3>1
    <3>2. CASE n # 0
      <4>1. n \in 1..N
        BY <1>1, <3>2
      <4>2. F[n] = Taken(f[n - 1], Sections(outputs[n], path))
        BY <3>2 DEF Taken
      <4> QED
        BY <1>5, <4>1, <4>2
    <3> QED
      BY <3>1, <3>2
  <2>2. F = [n \in 0..N |-> F[n]]
    OBVIOUS
  <2> HIDE DEF F
  <2>3. f = F
    BY <1>4, <2>1, <2>2
  <2> QED
    BY <2>3 DEF F
<1>8. PICK g : g = CHOOSE h : Up(h)
  OBVIOUS
<1>9. Up(g)
  BY <1>7, <1>8
<1>10. g[0] = <<>> /\ \A n \in 1..N : g[n] = Taken(g[n - 1], Sections(outputs[n], path))
  <2>1. 0 \in 0..N /\ \A n \in 1..N : n \in 0..N /\ n # 0
    BY <1>1
  <2>2. g = [n \in 0..N |-> IF n = 0 THEN <<>>
               ELSE LET added == Sections(outputs[n], path)
                    IN  IF g[n - 1] = <<>> THEN added ELSE Upserted(g[n - 1], added)]
    BY <1>9
  <2> QED
    BY <2>1, <2>2 DEF Taken
<1>11. MergeSections(outputs, path) = g[N]
  BY <1>8, <1>l DEF MergeSections
<1> HIDE DEF Up
<1>12. g[N] = f[N]
  <2>1. Agree(g, f, N)
    BY <1>4, <1>5, <1>10 DEF Agree
  <2>2. N \in 0..N
    BY <1>1
  <2> QED
    BY <1>1, <2>1, <2>2, SameRun
<1> QED
  BY <1>6, <1>11, <1>12

\* What the outputs say about the file at a path, in their order.
Said(outputs, N, path) == [n \in 1..N |-> ToSet(Sections(outputs[n], path))]

\* The merged file has each ADR once, and says what the last output said of it.
Merged(sections, outputs, N, path) == ToSet(sections) = Lasting(Said(outputs, N, path), N)

LEMMA MergeSectionsIs ==
  ASSUME NEW S, NEW N, NEW outputs, NEW path, Mergeable(outputs, N, path, S)
  PROVE  /\ MergeSections(outputs, path) \in Seq(S) /\ OneEach(MergeSections(outputs, path))
         /\ Merged(MergeSections(outputs, path), outputs, N, path)
<1>1. /\ N \in Nat
      /\ \A n \in 1..N : Sections(outputs[n], path) \in Seq(S) /\ OneEach(Sections(outputs[n], path))
  BY DEF Mergeable
<1>2. PICK f : IsMerging(f, outputs, N, path, S) /\ MergeSections(outputs, path) = f[N]
  BY MergingIs
<1>3. /\ f \in [0..N -> Seq(S)] /\ f[0] = <<>>
      /\ \A n \in 1..N : f[n] = Taken(f[n - 1], Sections(outputs[n], path))
  BY <1>2 DEF IsMerging
<1>a. PICK say : say = Said(outputs, N, path)
  OBVIOUS
<1>4. \A n \in 1..N : say[n] = ToSet(Sections(outputs[n], path))
  BY <1>a DEF Said
<1> DEFINE Good(n) == OneEach(f[n]) /\ ToSet(f[n]) = Lasting(say, n)
           M == {n \in Nat : n <= N => Good(n)}
<1> HIDE DEF Good
<1>5. 0 \in M
  <2>1. ToSet(<<>>) = {} /\ OneEach(<<>>)
    BY DEF ToSet, OneEach
  <2>2. Lasting(say, 0) = {}
    <3>1. 1..0 = {}
      OBVIOUS
    <3> QED
      BY <3>1 DEF Lasting
  <2> QED
    BY <1>3, <2>1, <2>2 DEF Good
<1>6. ASSUME NEW n \in M
      PROVE  n + 1 \in M
  <2>1. SUFFICES ASSUME n + 1 <= N
                 PROVE  Good(n + 1)
    OBVIOUS
  <2>2. n \in Nat /\ n + 1 \in 1..N /\ (n + 1) - 1 = n /\ n \in 0..N /\ Good(n)
    BY <1>1, <2>1
  <2> HIDE DEF M
  <2>a. PICK m, p, q, new : m = n + 1 /\ p = f[n] /\ q = f[n + 1] /\ new = Sections(outputs[n + 1], path)
    OBVIOUS
  <2>3. OneEach(p) /\ ToSet(p) = Lasting(say, n)
    BY <2>2, <2>a DEF Good
  <2>4. p \in Seq(S) /\ q = Taken(p, new) /\ new \in Seq(S) /\ OneEach(new) /\ ToSet(new) = say[m]
    BY <1>1, <1>3, <1>4, <2>2, <2>a
  <2>5. OneEach(q) /\ ToSet(q) = Kept(ToSet(p), say[m]) \cup say[m]
    <3>1. OneEach(q) /\ Replaces(q, p, ToSet(new))
      BY <2>3, <2>4, TakenIs
    <3> QED
      BY <2>4, <3>1 DEF Replaces
  <2>6. Lasting(say, m) = Kept(Lasting(say, n), say[m]) \cup say[m]
    BY <2>2, <2>a, LastingStep
  <2> QED
    BY <2>3, <2>5, <2>6, <2>a DEF Good
<1>7. M = Nat
  <2>1. M \in SUBSET Nat
    OBVIOUS
  <2> HIDE DEF M
  <2> QED
    BY <1>5, <1>6, <2>1, NatSetInduction
<1>8. Good(N)
  <2>1. N \in Nat /\ N <= N
    BY <1>1
  <2>2. N \in M
    <3> HIDE DEF M
    <3> QED
      BY <1>7, <2>1
  <2> QED
    BY <2>1, <2>2
<1>9. f[N] \in Seq(S)
  BY <1>1, <1>3
<1> QED
  BY <1>2, <1>8, <1>9, <1>a DEF Good, Merged

\* The file at a path of merged outputs, if it has one.
LEMMA MergedFile ==
  ASSUME NEW S, NEW N, NEW outputs, NEW path, Mergeable(outputs, N, path, S)
  PROVE  /\ Sections(MergeOutputs(outputs), path) \in Seq(S)
         /\ OneEach(Sections(MergeOutputs(outputs), path))
         /\ Merged(Sections(MergeOutputs(outputs), path), outputs, N, path)
<1>1. DOMAIN outputs = 1..N /\ N \in Nat
  BY DEF Mergeable
<1> DEFINE paths == UNION {DOMAIN outputs[i].files : i \in DOMAIN outputs}
<1>a. PICK out : out = MergeOutputs(outputs)
  OBVIOUS
<1>2. out.files = [q \in paths |-> MergeSections(outputs, q)]
  BY <1>a DEF MergeOutputs
<1>3. path \in paths <=> \E n \in 1..N : path \in DOMAIN outputs[n].files
  BY <1>1
<1> HIDE DEF paths
<1>4. CASE path \in paths
  <2>1. Sections(out, path) = MergeSections(outputs, path)
    BY <1>2, <1>4 DEF Sections
  <2> QED
    BY <1>a, <2>1, MergeSectionsIs
<1>5. CASE path \notin paths
  <2>1. Sections(out, path) = <<>>
    BY <1>2, <1>5 DEF Sections
  <2>2. \A n \in 1..N : Sections(outputs[n], path) = <<>>
    BY <1>3, <1>5 DEF Sections
  <2>3. ToSet(<<>>) = {} /\ OneEach(<<>>) /\ <<>> \in Seq(S)
    BY DEF ToSet, OneEach
  <2>4. \A n \in 1..N : Said(outputs, N, path)[n] = {}
    BY <2>2, <2>3 DEF Said
  <2>5. Lasting(Said(outputs, N, path), N) = {}
    BY <2>4 DEF Lasting
  <2>6. Merged(<<>>, outputs, N, path)
    BY <2>3, <2>5 DEF Merged
  <2> QED
    BY <1>a, <2>1, <2>3, <2>6
<1> QED
  BY <1>4, <1>5

-----------------------------------------------------------------------------
(* A validated answer.                                                     *)

LEMMA ListOf ==
  ASSUME NEW S, NEW s \in Seq(S)
  PROVE  IsList(s) /\ ToSet(s) \subseteq S
<1>1. \A i \in 1..Len(s) : s[i] \in ToSet(s)
  BY DEF ToSet
<1>2. s \in [1..Len(s) -> ToSet(s)] /\ Len(s) \in Nat
  BY <1>1
<1> QED
  BY <1>2 DEF IsList, ToSet

\* Of several sections for one ADR, the last is kept.
LEMMA LastWinsKeeps ==
  ASSUME NEW S, NEW s \in Seq(S)
  PROVE  LET kept == LastWins(s)
         IN  /\ kept \in Seq(S) /\ DOMAIN kept = 1..Len(kept) /\ Len(kept) \in Nat
             /\ \A i \in DOMAIN kept : kept[i] \in ToSet(s)
             /\ \A i, j \in DOMAIN kept : kept[i].adr = kept[j].adr => i = j
<1> DEFINE I == {i \in DOMAIN s : \A j \in DOMAIN s : s[j].adr = s[i].adr => j <= i}
           kept == Picked(s, I)
<1>1. kept \in Seq(S) /\ IsPart(kept, s, I, Len(s)) /\ LastWins(s) = kept
  BY PickedIsPart DEF LastWins
<1>2. DOMAIN kept = 1..Len(kept) /\ Len(kept) \in Nat /\ Len(s) \in Nat /\ DOMAIN s = 1..Len(s)
  BY <1>1
<1> HIDE DEF kept
<1>3. PICK at \in [1..Len(kept) -> 1..Len(s)] :
        /\ \A j \in 1..Len(kept) : at[j] \in I /\ kept[j] = s[at[j]]
        /\ \A j, k \in 1..Len(kept) : j < k => at[j] < at[k]
  BY <1>1 DEF IsPart
<1>4. \A i \in DOMAIN kept : kept[i] \in ToSet(s)
  BY <1>2, <1>3 DEF ToSet
<1>5. ASSUME NEW i \in DOMAIN kept, NEW j \in DOMAIN kept, kept[i].adr = kept[j].adr
      PROVE  i = j
  <2>1. at[i] \in Nat /\ at[j] \in Nat /\ i \in Nat /\ j \in Nat
    BY <1>2, <1>3
  <2>2. s[at[i]].adr = s[at[j]].adr /\ at[i] \in I /\ at[j] \in I
    BY <1>2, <1>3, <1>5
  <2>3. at[i] <= at[j] /\ at[j] <= at[i]
    BY <2>2
  <2>4. at[i] = at[j]
    BY <2>1, <2>3
  <2>5. ~(i < j) /\ ~(j < i)
    BY <1>2, <1>3, <2>1, <2>4
  <2> QED
    BY <2>1, <2>5
<1> QED
  BY <1>1, <1>2, <1>4, <1>5

\* The batch's own sections of a file are of its ADRs, one of each.
LEMMA OwnSectionsAre ==
  ASSUME NEW s, NEW ids, IsList(s)
  PROVE  /\ OwnSections(s, ids) \in Seq(ToSet(s)) /\ OneEach(OwnSections(s, ids))
         /\ \A x \in ToSet(OwnSections(s, ids)) : x.adr \in ids
<1> DEFINE mine == Picked(s, {i \in DOMAIN s : s[i].adr \in ids})
           kept == LastWins(mine)
<1>1. s \in Seq(ToSet(s)) /\ OwnSections(s, ids) = kept
  BY DEF IsList, OwnSections
<1>2. mine \in Seq(ToSet(s)) /\ \A i \in DOMAIN mine : mine[i].adr \in ids
  <2>1. /\ mine \in Seq(ToSet(s))
        /\ IsPart(mine, s, {i \in DOMAIN s : s[i].adr \in ids}, Len(s))
    BY <1>1, PickedIsPart
  <2>2. DOMAIN mine = 1..Len(mine)
    BY <2>1
  <2> HIDE DEF mine
  <2>3. \A j \in 1..Len(mine) : \E i \in 1..Len(s) : s[i].adr \in ids /\ mine[j] = s[i]
    BY <2>1, PartStays
  <2> QED
    BY <2>1, <2>2, <2>3
<1> HIDE DEF mine
<1>3. /\ kept \in Seq(ToSet(s)) /\ \A i \in DOMAIN kept : kept[i] \in ToSet(mine)
      /\ \A i, j \in DOMAIN kept : kept[i].adr = kept[j].adr => i = j
  BY <1>2, LastWinsKeeps
<1> HIDE DEF kept
<1>4. \A i \in DOMAIN kept : kept[i].adr \in ids
  BY <1>2, <1>3 DEF ToSet
<1> QED
  BY <1>1, <1>3, <1>4 DEF OneEach, ToSet

\* A validated answer has, of each path, sections of the batch's ADRs, one of
\* each, although the runner may have named the path more than once.
LEMMA FilteredIsOwn ==
  ASSUME NEW raw, NEW ids, IsList(raw.files),
         \A i \in DOMAIN raw.files : IsList(raw.files[i].sections)
  PROVE  IsOwn(Filtered(raw, ids), ids)
<1> DEFINE output == Filtered(raw, ids)
<1> SUFFICES ASSUME NEW path \in DOMAIN output.files
             PROVE  LET sections == output.files[path]
                    IN  /\ IsList(sections)
                        /\ \A i \in DOMAIN sections : sections[i].adr \in ids
                        /\ \A i, j \in DOMAIN sections : sections[i].adr = sections[j].adr => i = j
  BY DEF IsOwn
<1>a. PICK N, outs : N = Len(raw.files) /\ outs = [i \in DOMAIN raw.files |-> OwnFile(raw.files[i], ids)]
  OBVIOUS
<1>1. N \in Nat /\ DOMAIN raw.files = 1..N
  BY <1>a DEF IsList
<1> DEFINE S == {x \in UNION {ToSet(raw.files[i].sections) : i \in 1..N} : x.adr \in ids}
<1>2. ASSUME NEW n \in 1..N
      PROVE  Sections(outs[n], path) \in Seq(S) /\ OneEach(Sections(outs[n], path))
  <2>a. PICK own, s : s = raw.files[n].sections /\ own = OwnSections(s, ids)
    OBVIOUS
  <2>1. own \in Seq(ToSet(s)) /\ OneEach(own) /\ \A x \in ToSet(own) : x.adr \in ids
    BY <1>1, <2>a, OwnSectionsAre
  <2>2. own \in Seq(S)
    <3>1. ToSet(own) \subseteq S
      BY <2>1, <2>a, ListOf
    <3>2. own \in Seq(ToSet(own))
      BY <2>1, ListOf DEF IsList
    <3> HIDE DEF S
    <3> QED
      BY <3>1, <3>2
  <2>3. Sections(outs[n], path) = own \/ Sections(outs[n], path) = <<>>
    BY <1>1, <1>a, <2>a DEF OwnFile, Sections
  <2>4. <<>> \in Seq(S) /\ OneEach(<<>>)
    BY DEF OneEach
  <2> QED
    BY <2>1, <2>2, <2>3, <2>4
<1> HIDE DEF S
<1>3. Mergeable(outs, N, path, S)
  BY <1>1, <1>2, <1>a DEF Mergeable
<1>4. /\ Sections(MergeOutputs(outs), path) \in Seq(S)
      /\ OneEach(Sections(MergeOutputs(outs), path))
  BY <1>3, MergedFile
<1>5. output.files = MergeOutputs(outs).files
  BY <1>a DEF Filtered
<1> HIDE DEF output
<1>6. PICK sections : sections = output.files[path] /\ sections = Sections(MergeOutputs(outs), path)
  BY <1>5 DEF Sections
<1>7. sections \in Seq(S) /\ IsList(sections)
  BY <1>4, <1>6, ListOf
<1>8. \A i \in DOMAIN sections : sections[i].adr \in ids
  BY <1>7 DEF S
<1> QED
  BY <1>4, <1>6, <1>7, <1>8 DEF OneEach

-----------------------------------------------------------------------------
(* A batch that ends.                                                      *)

\* A list of distinct batches as long as they are many has them all.
LEMMA AllListed ==
  ASSUME NEW n \in Nat, NEW s \in Seq(1..n), Len(s) = n,
         \A i, j \in DOMAIN s : s[i] = s[j] => i = j
  PROVE  ToSet(s) = 1..n
<1>1. IsFiniteSet(1..n) /\ s \in [1..n -> 1..n]
  BY FS_Interval
<1>2. s \in Injection(1..n, 1..n)
  BY <1>1 DEF Injection, IsInjective
<1>3. s \in Surjection(1..n, 1..n)
  BY <1>1, <1>2, FS_Injection
<1>4. \A x \in 1..n : \E i \in 1..n : s[i] = x
  BY <1>3 DEF Surjection
<1>5. DOMAIN s = 1..n /\ \A i \in 1..n : s[i] \in 1..n
  BY <1>1
<1>6. \A x : x \in ToSet(s) <=> \E i \in 1..n : x = s[i]
  BY <1>5 DEF ToSet
<1>7. ToSet(s) \subseteq 1..n
  BY <1>5, <1>6
<1>8. 1..n \subseteq ToSet(s)
  BY <1>4, <1>6
<1> QED
  BY <1>7, <1>8, Zenon

\* What BatchDone does to one batch, and what that makes of the others.
LEMMA BatchDoneWork ==
  ASSUME IInv, NEW p \in Projects, NEW b \in BatchIds, BatchDone(p, b)
  PROVE  /\ batch'[p][b] = "done"
         /\ \A q \in Projects, c \in BatchIds : <<q, c>> # <<p, b>> => batch'[q][c] = batch[q][c]
         /\ batch' \in [Projects -> [BatchIds -> {"waiting", "first", "second", "done"}]]
         /\ finished' \in [Projects -> Seq(BatchIds)]
         /\ \A q \in Projects : q # p => finished'[q] = finished[q]
         /\ finished'[p] = Append(finished[p], b)
         /\ \A q \in Projects :
              /\ ToSet(finished'[q]) = {c \in BatchIds : batch'[q][c] = "done"}
              /\ \A i, j \in DOMAIN finished'[q] : finished'[q][i] = finished'[q][j] => i = j
         /\ Len(finished'[p]) = Len(batches) => \A c \in BatchIds : batch'[p][c] = "done"
<1> USE DEF IInv
<1>1. /\ batch[p][b] \in {"first", "second"}
      /\ batch' = [batch EXCEPT ![p][b] = "done"]
      /\ finished' = [finished EXCEPT ![p] = Append(@, b)]
  BY DEF BatchDone, Calling
<1>2. /\ batch'[p][b] = "done"
      /\ \A q \in Projects, c \in BatchIds : <<q, c>> # <<p, b>> => batch'[q][c] = batch[q][c]
      /\ batch' \in [Projects -> [BatchIds -> {"waiting", "first", "second", "done"}]]
  BY <1>1 DEF TypeOK
<1>3. /\ finished' \in [Projects -> Seq(BatchIds)]
      /\ \A q \in Projects : q # p => finished'[q] = finished[q]
      /\ finished'[p] = Append(finished[p], b) /\ finished[p] \in Seq(BatchIds)
  BY <1>1 DEF TypeOK
<1>4. /\ ToSet(finished'[p]) = ToSet(finished[p]) \cup {b}
      /\ b \notin ToSet(finished[p])
  <2>1. b \notin ToSet(finished[p])
    BY <1>1 DEF FinishedInv
  <2> PICK s : s = finished[p]
    OBVIOUS
  <2>2. s \in Seq(BatchIds) /\ Len(s) \in Nat /\ DOMAIN s = 1..Len(s)
    BY <1>3
  <2>3. /\ DOMAIN Append(s, b) = 1..(Len(s) + 1) /\ Append(s, b)[Len(s) + 1] = b
        /\ \A i \in 1..Len(s) : Append(s, b)[i] = s[i]
    BY <2>2
  <2>4. /\ \A i \in 1..(Len(s) + 1) : i \in 1..Len(s) \/ i = Len(s) + 1
        /\ \A i \in 1..Len(s) : i \in 1..(Len(s) + 1)
        /\ Len(s) + 1 \in 1..(Len(s) + 1)
    BY <2>2
  <2>5. /\ \A x : x \in ToSet(Append(s, b)) <=> \E i \in 1..(Len(s) + 1) : x = Append(s, b)[i]
        /\ \A x : x \in ToSet(s) <=> \E i \in 1..Len(s) : x = s[i]
    BY <2>2, <2>3 DEF ToSet
  <2>6. ToSet(Append(s, b)) = ToSet(s) \cup {b}
    BY <2>3, <2>4, <2>5
  <2> QED
    BY <1>3, <2>1, <2>6
<1>5. ASSUME NEW q \in Projects
      PROVE  /\ ToSet(finished'[q]) = {c \in BatchIds : batch'[q][c] = "done"}
             /\ \A i, j \in DOMAIN finished'[q] : finished'[q][i] = finished'[q][j] => i = j
  <2>0. /\ ToSet(finished[q]) = {c \in BatchIds : batch[q][c] = "done"}
        /\ \A i, j \in DOMAIN finished[q] : finished[q][i] = finished[q][j] => i = j
    BY DEF FinishedInv
  <2>1. CASE q # p
    BY <1>2, <1>3, <2>0, <2>1
  <2>2. CASE q = p
    <3>1. \A c \in BatchIds : batch'[p][c] = "done" <=> c = b \/ batch[p][c] = "done"
      BY <1>2
    <3>2. ToSet(finished'[p]) = {c \in BatchIds : batch'[p][c] = "done"}
      BY <1>4, <2>0, <2>2, <3>1
    <3>3. \A i, j \in DOMAIN finished'[p] : finished'[p][i] = finished'[p][j] => i = j
      <4> PICK s : s = finished[p]
        OBVIOUS
      <4>1. /\ s \in Seq(BatchIds) /\ Len(s) \in Nat /\ DOMAIN s = 1..Len(s)
            /\ DOMAIN Append(s, b) = 1..(Len(s) + 1) /\ Append(s, b)[Len(s) + 1] = b
            /\ \A i \in 1..Len(s) : Append(s, b)[i] = s[i]
        BY <1>3
      <4>2. \A i \in 1..(Len(s) + 1) : i \in 1..Len(s) \/ i = Len(s) + 1
        BY <4>1
      <4>3. \A i \in 1..Len(s) : s[i] # b
        BY <1>4, <4>1 DEF ToSet
      <4>4. \A i, j \in 1..Len(s) : s[i] = s[j] => i = j
        BY <2>0, <2>2, <4>1
      <4> HIDE DEF IInv
      <4>5. \A i, j \in 1..(Len(s) + 1) : Append(s, b)[i] = Append(s, b)[j] => i = j
        BY <4>1, <4>2, <4>3, <4>4
      <4>6. finished'[p] = Append(s, b)
        BY <1>3
      <4>7. \A i, j \in DOMAIN Append(s, b) : Append(s, b)[i] = Append(s, b)[j] => i = j
        BY <4>1, <4>5
      <4> QED
        BY <4>6, <4>7
    <3> QED
      BY <2>2, <3>2, <3>3
  <2> QED
    BY <2>1, <2>2
<1>6. ASSUME Len(finished'[p]) = Len(batches)
      PROVE  \A c \in BatchIds : batch'[p][c] = "done"
  <2>1. BatchIds = 1..Len(batches) /\ Len(batches) \in Nat /\ finished'[p] \in Seq(BatchIds)
    BY <1>3, GivenFacts
  <2>2. ToSet(finished'[p]) = BatchIds
    BY <1>5, <1>6, <2>1, AllListed
  <2> QED
    BY <1>5, <2>2
<1> QED
  BY <1>2, <1>3, <1>5, <1>6

\* What BatchDone does to the projects, the result and the channel.
LEMMA BatchDoneEnds ==
  ASSUME IInv, NEW p \in Projects, NEW b \in BatchIds, BatchDone(p, b)
  PROVE  /\ \A q \in Projects : q # p => project'[q] = project[q]
         /\ project[p] = "running" /\ project'[p] \in {"running", "done"}
         /\ project' \in [Projects -> {"new", "running", "done", "failed", "dropped"}]
         /\ project'[p] = "done" => Len(finished'[p]) = Len(batches)
         /\ result = "none" /\ result' \in {"none", "ok"}
         /\ result' = "ok" => \A q \in Projects : project'[q] = "done"
         /\ project'[p] = "done" =>
              events' = Append(Append(events, Event("ended", p, b)), Event("completed", p, 0))
         /\ project'[p] # "done" => events' = Append(events, Event("ended", p, b))
<1>1. /\ project[p] = "running" /\ result = "none"
      /\ Ending(p, finished'[p])
      /\ events' = Append(events, Event("ended", p, b)) \o
                   (IF project'[p] = "done" THEN <<Event("completed", p, 0)>> ELSE <<>>)
  BY DEF BatchDone, Polled, Calling
<1>2. Append(events, Event("ended", p, b)) \in Seq(Messages(BatchIds))
  <2>1. events \in Seq(Messages(BatchIds)) /\ Event("ended", p, b) \in Messages(BatchIds)
    BY IsMessage DEF IInv, ProgressInv, InOrder
  <2> QED
    BY <2>1
<1>3. /\ project'[p] = "done" =>
           events' = Append(Append(events, Event("ended", p, b)), Event("completed", p, 0))
      /\ project'[p] # "done" => events' = Append(events, Event("ended", p, b))
  <2>1. /\ \A s \in Seq(Messages(BatchIds)) : s \o <<>> = s
        /\ \A s \in Seq(Messages(BatchIds)), x \in Messages(BatchIds) : s \o <<x>> = Append(s, x)
    OBVIOUS
  <2>2. Event("completed", p, 0) \in Messages(BatchIds)
    BY IsMessage
  <2> QED
    BY <1>1, <1>2, <2>1, <2>2
<1>4. CASE Len(finished'[p]) = Len(batches)
  <2>1. /\ project' = [project EXCEPT ![p] = "done"]
        /\ result' = IF \A q \in Projects \ {p} : project[q] = "done" THEN "ok" ELSE result
    BY <1>1, <1>4 DEF Ending
  <2>2. /\ project'[p] = "done" /\ \A q \in Projects : q # p => project'[q] = project[q]
        /\ project' \in [Projects -> {"new", "running", "done", "failed", "dropped"}]
    BY <2>1 DEF IInv, TypeOK
  <2> QED
    BY <1>1, <1>3, <1>4, <2>1, <2>2
<1>5. CASE Len(finished'[p]) # Len(batches)
  <2>1. project' = project /\ result' = result
    BY <1>1, <1>5 DEF Ending
  <2>2. project \in [Projects -> {"new", "running", "done", "failed", "dropped"}]
    BY DEF IInv, TypeOK
  <2> QED
    BY <1>1, <1>3, <1>5, <2>1, <2>2
<1> QED
  BY <1>4, <1>5

\* The output a batch leaves is its own.
LEMMA BatchDoneAnswers ==
  ASSUME IInv, NEW p \in Projects, NEW b \in BatchIds, BatchDone(p, b)
  PROVE  AnswerInv' /\ answer' = [q \in Projects |-> [c \in BatchIds |-> answer'[q][c]]]
<1>1. PICK raw \in Answers(p, batches[b]) : answer' = [answer EXCEPT ![p][b] = Filtered(raw, Ids(b))]
  BY DEF BatchDone
<1>2. PICK r \in Runs : adrs = r.adrs
  BY DEF IInv, TypeOK
<1>3. batches[b] \in ToSet(CreateBatches(r.adrs, BatchSize))
  <2>1. batches = CreateBatches(r.adrs, BatchSize) /\ b \in DOMAIN batches
    BY <1>2, GivenFacts DEF IInv, TypeOK
  <2> QED
    BY <2>1 DEF ToSet
<1>4. IsOwn(Filtered(raw, Ids(b)), Ids(b))
  <2>1. IsList(raw.files) /\ \A i \in DOMAIN raw.files : IsList(raw.files[i].sections)
    BY <1>1, <1>3, AnswersAssumption
  <2> PICK ids : ids = Ids(b)
    OBVIOUS
  <2> QED
    BY <2>1, FilteredIsOwn
<1>5. answer = [q \in Projects |-> [c \in BatchIds |-> answer[q][c]]]
  BY DEF IInv, TypeOK
<1> PICK new : new = Filtered(raw, Ids(b))
  OBVIOUS
<1>6. /\ answer'[p][b] = new
      /\ \A q \in Projects, c \in BatchIds : <<q, c>> # <<p, b>> => answer'[q][c] = answer[q][c]
      /\ answer' = [q \in Projects |-> [c \in BatchIds |-> answer'[q][c]]]
  <2>1. answer' = [q \in Projects |-> [c \in BatchIds |->
                     IF q = p /\ c = b THEN new ELSE answer[q][c]]]
    BY <1>1, <1>5
  <2> QED
    BY <2>1
<1>7. UNCHANGED given /\ BatchIds' = BatchIds /\ \A c : Ids(c)' = Ids(c)
  BY GivenStays DEF BatchDone
<1>8. ASSUME NEW q \in Projects, NEW c \in BatchIds, batch'[q][c] = "done"
      PROVE  IsOwn(answer'[q][c], Ids(c))
  <2>1. CASE q = p /\ c = b
    BY <1>4, <1>6, <2>1
  <2>2. CASE ~(q = p /\ c = b)
    BY <1>6, <1>8, <2>2, BatchDoneWork DEF IInv, AnswerInv
  <2> QED
    BY <2>1, <2>2
<1> QED
  BY <1>6, <1>7, <1>8 DEF AnswerInv

LEMMA BatchDoneInv ==
  ASSUME IInv, NEW p \in Projects, NEW b \in BatchIds, BatchDone(p, b)
  PROVE  IInv'
<1> USE DEF IInv
<1>g. /\ \A q \in Projects : project[q] # "new"
      /\ batch[p][b] \in {"first", "second"} /\ permits' = permits + 1
      /\ UNCHANGED <<given, queue, screen, outcome>>
  BY DEF BatchDone, Polled, Calling
<1>s. /\ BatchIds' = BatchIds /\ UNCHANGED <<adrs, batches, limit, view, completed>>
      /\ \A c : Ids(c)' = Ids(c)
  BY <1>g, GivenStays DEF given, screen
<1>w. /\ batch'[p][b] = "done"
      /\ \A q \in Projects, c \in BatchIds : <<q, c>> # <<p, b>> => batch'[q][c] = batch[q][c]
      /\ batch' \in [Projects -> [BatchIds -> {"waiting", "first", "second", "done"}]]
      /\ finished' \in [Projects -> Seq(BatchIds)]
      /\ \A q \in Projects :
           /\ ToSet(finished'[q]) = {c \in BatchIds : batch'[q][c] = "done"}
           /\ \A i, j \in DOMAIN finished'[q] : finished'[q][i] = finished'[q][j] => i = j
  BY BatchDoneWork
<1>p. /\ \A q \in Projects : q # p => project'[q] = project[q]
      /\ project[p] = "running" /\ project'[p] \in {"running", "done"}
      /\ project' \in [Projects -> {"new", "running", "done", "failed", "dropped"}]
      /\ result = "none" /\ result' \in {"none", "ok"}
      /\ result' = "ok" => \A q \in Projects : project'[q] = "done"
  BY BatchDoneEnds
<1>d. project'[p] = "done" => \A c \in BatchIds : batch'[p][c] = "done"
  BY BatchDoneEnds, BatchDoneWork
<1>1. \A q \in Projects : project'[q] \in {"running", "done"}
  BY <1>g, <1>p DEF ResultInv
<1>2. TypeOK'
  <2>1. permits' \in Nat
    BY <1>g DEF TypeOK
  <2>2. answer' = [q \in Projects |-> [c \in BatchIds |-> answer'[q][c]]]
    BY BatchDoneAnswers
  <2> QED
    BY <1>g, <1>s, <1>w, <1>p, <2>1, <2>2 DEF TypeOK, Outcomes
<1>3. QueueInv'
  <2>1. ASSUME NEW i \in DOMAIN queue
        PROVE  project'[queue[i][1]] = "running" /\ batch'[queue[i][1]][queue[i][2]] = "waiting"
    <3>1. queue[i][1] \in Projects /\ queue[i][2] \in BatchIds
      BY DEF TypeOK
    <3>2. project[queue[i][1]] = "running" /\ batch[queue[i][1]][queue[i][2]] = "waiting"
      BY DEF QueueInv
    <3> PICK q \in Projects, c \in BatchIds : q = queue[i][1] /\ c = queue[i][2]
      BY <3>1
    <3>3. batch[q][c] = "waiting" /\ <<q, c>> # <<p, b>>
      BY <1>g, <3>2
    <3>4. batch'[q][c] = "waiting"
      BY <1>w, <3>3
    <3>5. project'[q] = "running"
      BY <1>d, <1>p, <3>2, <3>4
    <3> QED
      BY <3>4, <3>5
  <2> QED
    BY <1>g, <2>1 DEF QueueInv
<1>4. FinishedInv'
  <2>1. ASSUME NEW q \in Projects, project'[q] = "done"
        PROVE  \A c \in BatchIds : batch'[q][c] = "done"
    <3>1. CASE q = p
      BY <1>d, <2>1, <3>1
    <3>2. CASE q # p
      BY <1>p, <1>w, <2>1, <3>2 DEF FinishedInv
    <3> QED
      BY <3>1, <3>2
  <2> QED
    BY <1>s, <1>w, <1>1, <2>1 DEF FinishedInv
<1>5. ResultInv'
  <2>1. BatchIds # {}
    OBVIOUS
  <2> QED
    BY <1>p, <1>s, <1>1, <2>1 DEF ResultInv
<1>6. AnswerInv'
  BY BatchDoneAnswers
<1>7. ProgressInv'
  <2> DEFINE e == Event("ended", p, b)
             last == Event("completed", p, 0)
  <2>1. e \in Messages(BatchIds) /\ e \notin Sent /\ last \in Messages(BatchIds) /\ last \notin Sent
    BY <1>g, <1>p, IsMessage, SentIs
  <2>2. \A m \in Messages(BatchIds) :
          m \in Sent' <=> m \in Sent \/ m = e \/ (m = last /\ project'[p] = "done")
    <3> TAKE m \in Messages(BatchIds)
    <3>1. /\ m = e <=> m.kind = "ended" /\ m.project = p /\ m.batch = b
          /\ m = last <=> m.kind = "completed" /\ m.project = p /\ m.batch = 0
          /\ m.kind = "completed" => m.batch = 0
      BY SameEvent, MessageIs
    <3>2. CASE m.kind = "ended"
      BY <1>s, <1>w, <3>1, <3>2, SentAs
    <3>3. CASE m.kind = "begun"
      <4>1. batch[p][b] # "waiting" /\ batch'[p][b] # "waiting"
        BY <1>g, <1>w
      <4>2. \A q \in Projects, c \in BatchIds : batch'[q][c] = "waiting" <=> batch[q][c] = "waiting"
        BY <1>w, <4>1
      <4> QED
        BY <1>s, <3>1, <3>3, <4>2, SentAs
    <3>4. CASE m.kind = "completed"
      BY <1>p, <1>s, <3>1, <3>4, SentAs
    <3>5. CASE m.kind \in {"started", "failed"}
      <4>1. \A q \in Projects : /\ project[q] = "new" <=> project'[q] = "new"
                                /\ project[q] = "failed" <=> project'[q] = "failed"
        BY <1>p
      <4> QED
        BY <1>s, <3>1, <3>5, <4>1, SentAs
    <3> QED
      BY <1>s, <3>2, <3>3, <3>4, <3>5, SentAs
  <2>3. Sent' \subseteq Messages(BatchIds) /\ Sent \subseteq Messages(BatchIds)
    BY <1>s DEF Sent
  <2>4. Before(e, BatchIds) \subseteq Sent
    BY <1>g, <1>p, SentIs, BeforeIs
  <2>5. CASE project'[p] = "done"
    <3>1. Sent' = (Sent \cup {e}) \cup {last}
      BY <2>1, <2>2, <2>3, <2>5
    <3>2. Before(last, BatchIds) \subseteq Sent \cup {e}
      <4> SUFFICES ASSUME NEW f \in Before(last, BatchIds)
                   PROVE  f \in Sent \cup {e}
        OBVIOUS
      <4>1. f = Event("started", p, 0) \/ \E c \in BatchIds : f = Event("ended", p, c)
        BY BeforeIs
      <4>2. CASE f = Event("started", p, 0)
        BY <1>p, <4>2, SentIs
      <4>3. ASSUME NEW c \in BatchIds, f = Event("ended", p, c)
            PROVE  f \in Sent \cup {e}
        <5>1. CASE c = b
          BY <4>3, <5>1
        <5>2. CASE c # b
          BY <1>d, <1>w, <2>5, <4>3, <5>2, SentIs
        <5> QED
          BY <5>1, <5>2
      <4> QED
        BY <4>1, <4>2, <4>3
    <3>3. events' = Append(Append(events, e), last)
      BY <2>5, BatchDoneEnds
    <3> QED
      BY <1>g, <1>p, <1>s, <2>1, <2>4, <3>1, <3>2, <3>3, SendTwo
  <2>6. CASE project'[p] # "done"
    <3>1. Sent' = Sent \cup {e}
      BY <2>1, <2>2, <2>3, <2>6
    <3>2. events' = Append(events, e)
      BY <2>6, BatchDoneEnds
    <3> QED
      BY <1>g, <1>p, <1>s, <2>1, <2>4, <3>1, <3>2, SendOne
  <2> QED
    BY <2>5, <2>6
<1> QED
  BY <1>2, <1>3, <1>4, <1>5, <1>6, <1>7

LEMMA NextIInv ==
  ASSUME IInv, [Next]_vars
  PROVE  IInv'
<1>1. ASSUME NEW p \in Projects, Timeout(p)
      PROVE  IInv'
  BY <1>1, StopInv DEF Timeout, Polled
<1>2. ASSUME NEW p \in Projects, NEW b \in BatchIds, Fail(p, b)
      PROVE  IInv'
  BY <1>2, StopInv DEF Fail, Polled, Calling
<1>3. CASE UNCHANGED vars
  <2>1. UNCHANGED <<given, work, events, screen, outcome>>
    BY <1>3 DEF vars
  <2>2. /\ Sent' = Sent /\ BatchIds' = BatchIds /\ UNCHANGED view
        /\ QueueInv' /\ FinishedInv' /\ ResultInv' /\ AnswerInv'
    BY <2>1, WorkStays DEF screen
  <2>3. ProgressInv'
    BY <2>1, <2>2, SendNone DEF IInv
  <2>4. TypeOK'
    BY <2>1, <2>2 DEF IInv, TypeOK, given, work, screen
  <2> QED
    BY <2>2, <2>3, <2>4 DEF IInv
<1> QED
  BY <1>1, <1>2, <1>3, StartInv, GrantInv, RetryInv, BatchDoneInv, ApplyInv, EndInv DEF Next

\* Whatever the projects, the ADRs, the answers and the order of the calls, the
\* queue, the finished batches, the result and the events stay in agreement
\* (tailoring/concurrent.rs).
THEOREM Inductive == Spec => []IInv
<1>1. Init => IInv
  BY InitIInv
<1>2. IInv /\ [Next]_vars => IInv'
  BY NextIInv
<1> QED
  BY <1>1, <1>2, PTL DEF Spec

-----------------------------------------------------------------------------
(* The progress that is shown.                                             *)

\* What has been shown before an event, by the kind of the event.
LEMMA ShownBefore ==
  ASSUME NEW ids, NEW v \in Views(ids), NEW e \in Messages(ids),
         e \notin ShownIn(v, ids), Before(e, ids) \subseteq ShownIn(v, ids),
         v[e.project].status \in {"absent", "running"}
  PROVE  /\ e.kind = "started" => v[e.project].status = "absent"
         /\ e.kind # "started" => v[e.project].status = "running"
         /\ e.kind = "begun" => e.batch \in ids /\ e.batch \notin v[e.project].begun
         /\ e.kind = "ended" => /\ e.batch \in ids
                                /\ e.batch \in v[e.project].begun
                                /\ e.batch \notin v[e.project].ended
         /\ e.kind = "completed" => v[e.project].ended = ids
<1> PICK p : p = e.project
  OBVIOUS
<1>1. /\ p \in Projects /\ e = Event(e.kind, p, e.batch)
      /\ \/ e.kind \in {"started", "completed", "failed"} /\ e.batch = 0
         \/ e.kind \in {"begun", "ended"} /\ e.batch \in ids
  BY MessageIs
<1>2. v[p].begun \subseteq ids /\ v[p].ended \subseteq ids
  BY <1>1 DEF Views
<1>3. /\ \A kind \in {"started", "completed", "failed"} : Event(kind, p, 0) \in Messages(ids)
      /\ \A kind \in {"begun", "ended"}, b \in ids : Event(kind, p, b) \in Messages(ids)
  BY <1>1, IsMessage
<1>4. ASSUME e.kind # "started"
      PROVE  v[p].status = "running"
  <2>1. Event("started", p, 0) \in Before(e, ids)
    BY <1>3, <1>4, EventFields DEF Before
  <2>2. v[p].status # "absent"
    BY <2>1, EventFields DEF ShownIn
  <2> QED
    BY <2>2
<1>5. ASSUME e.kind = "ended"
      PROVE  e.batch \in v[p].begun
  <2>1. Event("begun", p, e.batch) \in Before(e, ids)
    BY <1>1, <1>3, <1>5, EventFields DEF Before
  <2> QED
    BY <2>1, EventFields DEF ShownIn
<1>6. ASSUME e.kind = "completed", NEW c \in ids
      PROVE  c \in v[p].ended
  <2>1. Event("ended", p, c) \in Before(e, ids)
    BY <1>3, <1>6, EventFields DEF Before
  <2> QED
    BY <2>1, EventFields DEF ShownIn
<1>7. /\ e.kind = "started" => v[p].status = "absent"
      /\ e.kind = "begun" => e.batch \notin v[p].begun
      /\ e.kind = "ended" => e.batch \notin v[p].ended
  BY DEF ShownIn
<1> QED
  BY <1>1, <1>2, <1>4, <1>5, <1>6, <1>7

\* One more event is shown.
LEMMA ApplyShows ==
  ASSUME IInv, Apply
  PROVE  [Progress!Show \/ Progress!End]_(Progress!shownVars)
<1> DEFINE ids == BatchIds
<1> PICK e : e = Head(events)
  OBVIOUS
<1> PICK p : p = e.project
  OBVIOUS
<1>1. /\ events # <<>> /\ outcome = "none"
      /\ view' = [view EXCEPT ![p] = Shown(@, e)]
      /\ completed' = IF e.kind = "completed" THEN completed + 1 ELSE completed
      /\ UNCHANGED <<given, work, outcome>>
  BY DEF Apply
<1>2. view \in Views(ids) /\ InOrder(events, Sent, view, ids)
  BY GivenFacts DEF IInv, ProgressInv
<1>3. /\ e \in Messages(ids) /\ e \in Sent /\ e \notin ShownIn(view, ids)
      /\ Before(e, ids) \subseteq ShownIn(view, ids)
      /\ view[p].status \in {"absent", "running"}
  BY <1>1, <1>2, ShowKeepsOrder
<1>4. /\ p \in Projects
      /\ e.kind \in {"started", "begun", "ended", "completed", "failed"}
  BY <1>3, MessageIs
<1>5. /\ e.kind = "started" => view[p].status = "absent"
      /\ e.kind # "started" => view[p].status = "running"
      /\ e.kind = "begun" => e.batch \in ids /\ e.batch \notin view[p].begun
      /\ e.kind = "ended" => e.batch \in ids /\ e.batch \in view[p].begun \ view[p].ended
      /\ e.kind = "completed" => view[p].ended = ids
  BY <1>2, <1>3, ShownBefore
<1>6. /\ Len(batches)' = Len(batches) /\ outcome' = outcome /\ ids = 1..Len(batches)
  BY <1>1, GivenStays DEF BatchIds
<1>7. view \in [Projects -> [status : Statuses, begun : SUBSET ids, ended : SUBSET ids]]
  BY <1>2 DEF Views
<1> DEFINE status == [q \in Projects |-> view[q].status]
           begun == [q \in Projects |-> view[q].begun]
           ended == [q \in Projects |-> view[q].ended]
<1>8. /\ view'[p] = Shown(view[p], e)
      /\ \A q \in Projects : q # p => view'[q] = view[q]
      /\ view[p] \in [status : Statuses, begun : SUBSET ids, ended : SUBSET ids]
  BY <1>1, <1>4, <1>7
<1>9. CASE e.kind = "started"
  <2>1. view'[p] = [view[p] EXCEPT !.status = "running"]
    BY <1>8, <1>9 DEF Shown
  <2>2. status' = [status EXCEPT ![p] = "running"] /\ begun' = begun /\ ended' = ended
    BY <1>4, <1>8, <2>1
  <2>3. Progress!Begin(p)
    BY <1>1, <1>4, <1>5, <1>9, <2>2 DEF Progress!Begin
  <2> QED
    BY <1>1, <1>4, <1>6, <2>3 DEF Progress!Show
<1>10. CASE e.kind = "begun"
  <2>1. view'[p] = [view[p] EXCEPT !.begun = @ \cup {e.batch}]
    BY <1>8, <1>10 DEF Shown
  <2> PICK more : more = view[p].begun \cup {e.batch}
    OBVIOUS
  <2>a. /\ view'[p].begun = more /\ view'[p].status = view[p].status
        /\ view'[p].ended = view[p].ended /\ begun[p] = view[p].begun
    BY <1>4, <1>8, <2>1
  <2>b. status' = status /\ ended' = ended
    BY <1>4, <1>8, <2>a
  <2>c. begun' = [begun EXCEPT ![p] = more]
    BY <1>4, <1>8, <2>a
  <2>2. begun' = [begun EXCEPT ![p] = @ \cup {e.batch}] /\ status' = status /\ ended' = ended
    BY <1>4, <2>a, <2>b, <2>c
  <2>3. Progress!BeginBatch(p, e.batch)
    BY <1>1, <1>4, <1>5, <1>10, <2>2 DEF Progress!BeginBatch
  <2> QED
    BY <1>1, <1>4, <1>5, <1>6, <1>10, <2>3 DEF Progress!Show
<1>11. CASE e.kind = "ended"
  <2>1. view'[p] = [view[p] EXCEPT !.ended = @ \cup {e.batch}]
    BY <1>8, <1>11 DEF Shown
  <2> PICK more : more = view[p].ended \cup {e.batch}
    OBVIOUS
  <2>a. /\ view'[p].ended = more /\ view'[p].status = view[p].status
        /\ view'[p].begun = view[p].begun /\ ended[p] = view[p].ended
    BY <1>4, <1>8, <2>1
  <2>b. status' = status /\ begun' = begun
    BY <1>4, <1>8, <2>a
  <2>c. ended' = [ended EXCEPT ![p] = more]
    BY <1>4, <1>8, <2>a
  <2>2. ended' = [ended EXCEPT ![p] = @ \cup {e.batch}] /\ status' = status /\ begun' = begun
    BY <1>4, <2>a, <2>b, <2>c
  <2>3. Progress!EndBatch(p, e.batch)
    BY <1>1, <1>4, <1>5, <1>11, <2>2 DEF Progress!EndBatch
  <2> QED
    BY <1>1, <1>4, <1>5, <1>6, <1>11, <2>3 DEF Progress!Show
<1>12. CASE e.kind = "completed"
  <2>1. view'[p] = [view[p] EXCEPT !.status = "done"]
    BY <1>8, <1>12 DEF Shown
  <2>2. status' = [status EXCEPT ![p] = "done"] /\ begun' = begun /\ ended' = ended
    BY <1>4, <1>8, <2>1
  <2>3. Progress!Complete(p)
    BY <1>1, <1>4, <1>5, <1>6, <1>12, <2>2 DEF Progress!Complete
  <2> QED
    BY <1>1, <1>4, <1>6, <2>3 DEF Progress!Show
<1>13. CASE e.kind = "failed"
  <2>1. view'[p] = [view[p] EXCEPT !.status = "failed"]
    BY <1>8, <1>13 DEF Shown
  <2>2. status' = [status EXCEPT ![p] = "failed"] /\ begun' = begun /\ ended' = ended
    BY <1>4, <1>8, <2>1
  <2>3. ASSUME NEW q \in Projects, view[q].status = "failed"
        PROVE  FALSE
    <3>1. Event("failed", q, 0) \in ShownIn(view, ids)
      BY <2>3, IsMessage, EventFields DEF ShownIn
    <3>2. Event("failed", q, 0) \in Sent /\ e = Event("failed", p, 0)
      BY <1>2, <1>3, <1>13, <3>1, MessageIs DEF InOrder
    <3>3. project[q] = "failed" /\ project[p] = "failed"
      BY <1>3, <1>4, <3>2, SentIs
    <3>4. q = p
      BY <1>4, <3>3 DEF IInv, ResultInv
    <3> QED
      BY <1>3, <3>1, <3>2, <3>4
  <2>4. Progress!Break(p)
    BY <1>1, <1>4, <1>5, <1>13, <2>2, <2>3 DEF Progress!Break
  <2> QED
    BY <1>1, <1>4, <1>6, <2>4 DEF Progress!Show
<1> QED
  BY <1>4, <1>9, <1>10, <1>11, <1>12, <1>13

\* A run that returns has shown what it returns.
LEMMA ReturnEnds ==
  ASSUME IInv, Return \/ Cancel
  PROVE  [Progress!Show \/ Progress!End]_(Progress!shownVars)
<1>1. /\ outcome = "none" /\ UNCHANGED <<given, work, events, screen>>
      /\ UNCHANGED <<view, completed>> /\ Len(batches)' = Len(batches)
  BY GivenStays DEF Return, Cancel, screen
<1>2. CASE Cancel
  BY <1>1, <1>2 DEF Cancel, Progress!End
<1>3. CASE Return
  <2>1. events = <<>> /\ outcome' = result /\ result \in {"ok", "error"}
    BY <1>3 DEF Return, IInv, TypeOK, Outcomes
  <2>2. Sent = ShownIn(view, BatchIds)
    <3>1. ToSet(events) = {}
      BY <2>1 DEF ToSet
    <3> QED
      BY <3>1 DEF IInv, ProgressInv, InOrder
  <2>3. \A p \in Projects : /\ project[p] = "done" => view[p].status = "done"
                            /\ project[p] = "failed" => view[p].status = "failed"
    <3> TAKE p \in Projects
    <3>1. /\ project[p] = "done" => Event("completed", p, 0) \in ShownIn(view, BatchIds)
          /\ project[p] = "failed" => Event("failed", p, 0) \in ShownIn(view, BatchIds)
      BY <2>2, SentIs
    <3> QED
      BY <3>1, EventFields DEF ShownIn
  <2>4. /\ result = "ok" => \A p \in Projects : view[p].status = "done"
        /\ result = "error" => \E p \in Projects : view[p].status = "failed"
    BY <2>3 DEF IInv, ResultInv
  <2> QED
    BY <1>1, <2>1, <2>4 DEF Progress!End
<1> QED
  BY <1>2, <1>3

LEMMA NextShows ==
  ASSUME IInv, [Next]_vars
  PROVE  [Progress!Show \/ Progress!End]_(Progress!shownVars)
<1>1. CASE Apply
  BY <1>1, ApplyShows
<1>2. CASE Return \/ Cancel
  BY <1>2, ReturnEnds
<1>3. CASE ~(Apply \/ Return \/ Cancel)
  <2>1. UNCHANGED <<given, screen, outcome>>
    <3>1. ASSUME NEW p \in Projects, Start(p) \/ Timeout(p)
          PROVE  UNCHANGED <<given, screen, outcome>>
      BY <3>1 DEF Start, Timeout, Stop
    <3>2. ASSUME NEW p \in Projects, NEW b \in BatchIds, Retry(p, b) \/ BatchDone(p, b) \/ Fail(p, b)
          PROVE  UNCHANGED <<given, screen, outcome>>
      BY <3>2 DEF Retry, BatchDone, Fail, Stop
    <3>3. CASE Grant
      BY <3>3 DEF Grant
    <3>4. CASE UNCHANGED vars
      BY <3>4 DEF vars
    <3> QED
      BY <1>3, <3>1, <3>2, <3>3, <3>4 DEF Next
  <2>2. UNCHANGED <<view, completed, outcome>> /\ Len(batches)' = Len(batches)
    BY <2>1, GivenStays DEF screen
  <2> QED
    BY <2>2 DEF Progress!shownVars
<1> QED
  BY <1>1, <1>2, <1>3

\* The progress the user sees is one TailoringProgress allows: nothing ends before it
\* begins, an error names the one project that failed, and a success has shown every
\* project done (cli/commands/sync/pipeline.rs, run_tailoring_with_cancel).
THEOREM ShowsProgress == Spec => ImplementsProgress
<1>1. Init => Progress!Init
  <2> SUFFICES ASSUME Init PROVE Progress!Init
    OBVIOUS
  <2>1. IInv
    BY InitIInv
  <2>2. Len(batches) \in Nat
    BY <2>1, GivenFacts DEF IInv
  <2>3. \A p \in Projects : view[p] = [status |-> "absent", begun |-> {}, ended |-> {}]
    BY DEF Init
  <2> QED
    BY <2>2, <2>3 DEF Init, Progress!Init
<1>2. IInv /\ [Next]_vars => [Progress!Show \/ Progress!End]_(Progress!shownVars)
  BY NextShows
<1> QED
  BY <1>1, <1>2, Inductive, PTL DEF Spec, ImplementsProgress, Progress!Spec

-----------------------------------------------------------------------------
(* Outputs.                                                                *)

LEMMA ContentIs ==
  ASSUME NEW output, NEW t
  PROVE  t \in Content(output) <=>
           \E path : \E x \in ToSet(Sections(output, path)) : t = <<path, x.adr, x.text>>
<1>1. ToSet(<<>>) = {}
  BY DEF ToSet
<1>2. ASSUME NEW path, NEW x \in ToSet(Sections(output, path))
      PROVE  path \in DOMAIN output.files /\ x \in ToSet(output.files[path])
  BY <1>1, <1>2 DEF Sections
<1>3. ASSUME NEW path \in DOMAIN output.files
      PROVE  Sections(output, path) = output.files[path]
  BY DEF Sections
<1> QED
  BY <1>2, <1>3 DEF Content

LEMMA LengthIs ==
  ASSUME NEW S, NEW s \in Seq(S), OneEach(s)
  PROVE  Len(s) = Cardinality({x.adr : x \in ToSet(s)})
<1>a. PICK n, A : n = Len(s) /\ A = {x.adr : x \in ToSet(s)}
  OBVIOUS
<1>1. n \in Nat /\ DOMAIN s = 1..n
  BY <1>a
<1> DEFINE f == [i \in 1..n |-> s[i].adr]
<1>2. f \in [1..n -> A]
  BY <1>1, <1>a DEF ToSet
<1>3. \A i, j \in 1..n : f[i] = f[j] => i = j
  BY <1>1 DEF OneEach
<1>4. \A a \in A : \E i \in 1..n : f[i] = a
  BY <1>1, <1>a DEF ToSet
<1> HIDE DEF f
<1>5. f \in Bijection(1..n, A)
  BY <1>2, <1>3, <1>4 DEF Bijection, Injection, Surjection, IsInjective
<1>6. ExistsBijection(1..n, A)
  BY <1>5 DEF ExistsBijection
<1>7. Cardinality(A) = n
  BY <1>1, <1>6, FS_CountingElements
<1> QED
  BY <1>7, <1>a

-----------------------------------------------------------------------------
(* The batches of a run.                                                   *)

LEMMA AdrsAre ==
  ASSUME TypeOK
  PROVE  /\ IsCatalog(adrs) /\ batches = CreateBatches(adrs, BatchSize) /\ BatchSize \in Nat \ {0}
         /\ batches \in Seq(Seq(ToSet(adrs))) /\ BatchIds = DOMAIN batches
<1>1. PICK r \in Runs : adrs = r.adrs
  BY DEF TypeOK
<1>2. IsCatalog(adrs)
  BY <1>1, AdrsAssumption, DistinctAssumption DEF IsCatalog
<1>3. batches = CreateBatches(adrs, BatchSize) /\ BatchSize \in Nat \ {0}
  BY TailoringAssumption DEF TypeOK
<1>4. batches \in Seq(Seq(ToSet(adrs)))
  BY <1>2, <1>3, BatchesAre
<1>5. BatchIds = DOMAIN batches
  <2>1. PICK T : T = Seq(ToSet(adrs))
    OBVIOUS
  <2>2. batches \in Seq(T)
    BY <1>4, <2>1
  <2> QED
    BY <2>2 DEF BatchIds
<1> QED
  BY <1>2, <1>3, <1>4, <1>5

LEMMA TypedAreSound ==
  ASSUME TypeOK
  PROVE  BatchesAreSound
<1>1. /\ IsCatalog(adrs) /\ batches = CreateBatches(adrs, BatchSize) /\ BatchSize \in Nat \ {0}
      /\ BatchIds = DOMAIN batches
  BY AdrsAre
<1>2. /\ FlattenSeq(batches) = FlattenSeq(Groups(adrs))
      /\ SoundBatches(batches, ToSet(Categories(adrs)), SmallCategories(adrs, BatchSize), BatchSize)
  BY <1>1, BatchesAre
<1> DEFINE Of(c) == {b \in BatchIds : \E a \in ToSet(batches[b]) : a.category = c}
<1>3. ASSUME NEW c \in ToSet(Categories(adrs)), Len(InCategory(adrs, c)) <= BatchSize
      PROVE  Cardinality(Of(c)) = 1
  <2>1. c \in ToSet(Categories(adrs)) \cap SmallCategories(adrs, BatchSize)
    BY <1>3 DEF SmallCategories
  <2>2. \A k \in ToSet(Categories(adrs)) \cap SmallCategories(adrs, BatchSize) :
          \E b \in DOMAIN batches : \A d \in DOMAIN batches : Holds(batches[d], k) <=> d = b
    BY <1>2 DEF SoundBatches
  <2>3. PICK b \in DOMAIN batches : \A d \in DOMAIN batches : Holds(batches[d], c) <=> d = b
    BY <2>1, <2>2
  <2>4. Of(c) = {b}
    BY <1>1, <2>3 DEF Holds
  <2> HIDE DEF Of
  <2> QED
    BY <2>4, FS_Singleton
<1>4. \A b \in BatchIds : Len(batches[b]) \in 1..BatchSize
  BY <1>1, <1>2 DEF SoundBatches
<1> QED
  BY <1>2, <1>3, <1>4 DEF BatchesAreSound, Groups

\* No ADR is in two batches.
LEMMA BatchesApart ==
  ASSUME TypeOK, NEW b \in BatchIds, NEW c \in BatchIds, NEW id \in Ids(b), id \in Ids(c)
  PROVE  b = c
<1>1. /\ IsCatalog(adrs) /\ batches = CreateBatches(adrs, BatchSize) /\ BatchSize \in Nat \ {0}
      /\ batches \in Seq(Seq(ToSet(adrs))) /\ BatchIds = DOMAIN batches
  BY AdrsAre
<1>2. PICK x \in ToSet(batches[b]), y \in ToSet(batches[c]) : x.id = id /\ y.id = id
  BY DEF Ids
<1>3. \A d \in DOMAIN batches : ToSet(batches[d]) \subseteq ToSet(adrs)
  <2> TAKE d \in DOMAIN batches
  <2>1. PICK T : T = Seq(ToSet(adrs))
    OBVIOUS
  <2>2. batches \in Seq(T)
    BY <1>1, <2>1
  <2>3. batches[d] \in T
    BY <2>2
  <2>4. \A i \in DOMAIN batches[d] : batches[d][i] \in ToSet(adrs)
    BY <2>1, <2>3
  <2> QED
    BY <2>4 DEF ToSet
<1>4. x \in ToSet(adrs) /\ y \in ToSet(adrs)
  BY <1>1, <1>2, <1>3
<1>5. x = y
  <2>1. PICK i \in DOMAIN adrs, j \in DOMAIN adrs : x = adrs[i] /\ y = adrs[j]
    BY <1>4 DEF ToSet
  <2> QED
    BY <1>1, <1>2, <2>1 DEF IsCatalog
<1>6. SoundBatches(batches, ToSet(Categories(adrs)), SmallCategories(adrs, BatchSize), BatchSize)
  BY <1>1, BatchesAre
<1>7. \A d, e \in DOMAIN batches : \A z \in ToSet(batches[d]) : z \in ToSet(batches[e]) => d = e
  BY <1>6 DEF SoundBatches
<1> QED
  BY <1>1, <1>2, <1>5, <1>7

-----------------------------------------------------------------------------
(* What the output says.                                                   *)

\* What the answers for project p say about the file at a path.
ProjectSays(p, path) == UNION {ToSet(Sections(answer[p][b], path)) : b \in BatchIds}

AllSections(path) == UNION {ProjectSays(p, path) : p \in Projects}

AllDone == \A p \in Projects, b \in BatchIds : batch[p][b] = "done"

\* The file sections say what says holds.
Holding(sections, says) == ToSet(sections) = says

LEMMA ListIn ==
  ASSUME NEW S, NEW s, IsList(s), ToSet(s) \subseteq S
  PROVE  s \in Seq(S)
<1>a. PICK n : n = Len(s)
  OBVIOUS
<1>1. n \in Nat /\ DOMAIN s = 1..n /\ s = [i \in 1..n |-> s[i]]
  BY <1>a DEF IsList
<1>2. \A i \in 1..n : s[i] \in S
  BY <1>1 DEF ToSet
<1>3. s \in [1..n -> S]
  BY <1>1, <1>2
<1> QED
  BY <1>1, <1>3

LEMMA AnswerFile ==
  ASSUME AnswerInv, AllDone, NEW p \in Projects, NEW b \in BatchIds, NEW path
  PROVE  /\ Sections(answer[p][b], path) \in Seq(AllSections(path))
         /\ OneEach(Sections(answer[p][b], path))
         /\ \A x \in ToSet(Sections(answer[p][b], path)) : x.adr \in Ids(b)
<1>a. PICK s : s = Sections(answer[p][b], path)
  OBVIOUS
<1>1. IsOwn(answer[p][b], Ids(b))
  BY DEF AnswerInv, AllDone
<1>2. ToSet(s) \subseteq AllSections(path)
  BY <1>a DEF AllSections, ProjectSays
<1>3. CASE path \in DOMAIN answer[p][b].files
  <2>1. s = answer[p][b].files[path]
    BY <1>3, <1>a DEF Sections
  <2>a. PICK output, ids : output = answer[p][b] /\ ids = Ids(b)
    OBVIOUS
  <2>b. /\ IsList(output.files[path])
        /\ \A i \in DOMAIN output.files[path] : output.files[path][i].adr \in ids
        /\ \A i, j \in DOMAIN output.files[path] :
             output.files[path][i].adr = output.files[path][j].adr => i = j
    BY <1>1, <1>3, <2>a DEF IsOwn
  <2>2. /\ IsList(s) /\ \A i \in DOMAIN s : s[i].adr \in Ids(b)
        /\ \A i, j \in DOMAIN s : s[i].adr = s[j].adr => i = j
    BY <2>1, <2>a, <2>b
  <2>3. s \in Seq(AllSections(path))
    BY <1>2, <2>2, ListIn
  <2> QED
    BY <1>a, <2>2, <2>3 DEF OneEach, ToSet
<1>4. CASE path \notin DOMAIN answer[p][b].files
  <2>1. s = <<>>
    BY <1>4, <1>a DEF Sections
  <2> QED
    BY <1>a, <2>1 DEF OneEach, ToSet
<1> QED
  BY <1>3, <1>4

\* Nothing is replaced where no two say something about the same ADR.
LEMMA LastingAll ==
  ASSUME NEW say, NEW N \in Nat,
         \A m, k \in 1..N : m < k => \A x \in say[m], y \in say[k] : y.adr # x.adr
  PROVE  Lasting(say, N) = UNION {say[m] : m \in 1..N}
<1>1. ASSUME NEW m \in 1..N, NEW x \in say[m], NEW k \in (m + 1)..N
      PROVE  \A y \in say[k] : y.adr # x.adr
  <2>1. k \in 1..N /\ m < k
    OBVIOUS
  <2> QED
    BY <2>1
<1> QED
  BY <1>1 DEF Lasting

LEMMA ProjectFile ==
  ASSUME IInv, AllDone, NEW p \in Projects, NEW path
  PROVE  /\ Sections(ProjectOutput(p), path) \in Seq(AllSections(path))
         /\ OneEach(Sections(ProjectOutput(p), path))
         /\ Holding(Sections(ProjectOutput(p), path), ProjectSays(p, path))
<1>0. TypeOK /\ FinishedInv /\ AnswerInv
  BY DEF IInv
<1>a. PICK S, F, N, outputs :
        /\ S = AllSections(path) /\ F = finished[p] /\ N = Len(F)
        /\ outputs = [i \in DOMAIN F |-> answer[p][F[i]]]
  OBVIOUS
<1>1. F \in Seq(BatchIds) /\ N \in Nat /\ DOMAIN F = 1..N /\ \A i \in 1..N : F[i] \in BatchIds
  <2>1. F \in Seq(BatchIds)
    BY <1>0, <1>a DEF TypeOK
  <2> QED
    BY <1>a, <2>1
<1>2. ToSet(F) = BatchIds /\ \A i, j \in 1..N : F[i] = F[j] => i = j
  <2>1. ToSet(F) = {b \in BatchIds : batch[p][b] = "done"}
    BY <1>0, <1>a DEF FinishedInv
  <2>2. \A i, j \in 1..N : F[i] = F[j] => i = j
    BY <1>0, <1>1, <1>a DEF FinishedInv
  <2> QED
    BY <2>1, <2>2 DEF AllDone
<1>3. outputs = [i \in 1..N |-> answer[p][F[i]]]
  BY <1>1, <1>a
<1>4. \A i \in 1..N : /\ outputs[i] = answer[p][F[i]]
                      /\ Sections(outputs[i], path) \in Seq(S) /\ OneEach(Sections(outputs[i], path))
                      /\ \A x \in ToSet(Sections(outputs[i], path)) : x.adr \in Ids(F[i])
  BY <1>0, <1>1, <1>3, <1>a, AnswerFile
<1>5. Mergeable(outputs, N, path, S)
  BY <1>1, <1>3, <1>4 DEF Mergeable
<1>6. ProjectOutput(p) = MergeOutputs(outputs)
  BY <1>a DEF ProjectOutput
<1>7. /\ Sections(ProjectOutput(p), path) \in Seq(S)
      /\ OneEach(Sections(ProjectOutput(p), path))
      /\ Merged(Sections(ProjectOutput(p), path), outputs, N, path)
  BY <1>5, <1>6, MergedFile
<1>b. PICK say : say = Said(outputs, N, path)
  OBVIOUS
<1>8. \A i \in 1..N : say[i] = ToSet(Sections(outputs[i], path))
  BY <1>b DEF Said
<1>9. ASSUME NEW m \in 1..N, NEW k \in 1..N, m < k, NEW x \in say[m], NEW y \in say[k]
      PROVE  y.adr # x.adr
  <2>1. x.adr \in Ids(F[m]) /\ y.adr \in Ids(F[k])
    BY <1>4, <1>8
  <2>2. F[m] # F[k] /\ F[m] \in BatchIds /\ F[k] \in BatchIds
    BY <1>1, <1>2, <1>9
  <2> QED
    BY <1>0, <2>1, <2>2, BatchesApart
<1>10. Lasting(say, N) = UNION {say[m] : m \in 1..N}
  BY <1>1, <1>9, LastingAll
<1>11. UNION {say[m] : m \in 1..N} = ProjectSays(p, path)
  <2>1. \A b \in BatchIds : \E i \in 1..N : F[i] = b
    BY <1>1, <1>2 DEF ToSet
  <2>2. \A i \in 1..N : F[i] \in BatchIds /\ say[i] = ToSet(Sections(answer[p][F[i]], path))
    BY <1>1, <1>4, <1>8
  <2> QED
    BY <2>1, <2>2 DEF ProjectSays
<1>12. ToSet(Sections(ProjectOutput(p), path)) = ProjectSays(p, path)
  BY <1>7, <1>10, <1>11, <1>b DEF Merged
<1> QED
  BY <1>7, <1>12, <1>a DEF Holding

\* The file at a path says what the last project with a word on an ADR says of it.
LEMMA OutputFile ==
  ASSUME IInv, AllDone, NEW path
  PROVE  /\ Sections(Output, path) \in Seq(AllSections(path)) /\ OneEach(Sections(Output, path))
         /\ Holding(Sections(Output, path),
                    Lasting([p \in Projects |-> ProjectSays(p, path)], NumProjects))
<1>a. PICK S, N, outputs : /\ S = AllSections(path) /\ N = NumProjects
                           /\ outputs = [p \in Projects |-> ProjectOutput(p)]
  OBVIOUS
<1>1. N \in Nat /\ Projects = 1..N
  BY <1>a, TailoringAssumption DEF Projects
<1>2. \A p \in 1..N : /\ outputs[p] = ProjectOutput(p)
                      /\ Sections(outputs[p], path) \in Seq(S) /\ OneEach(Sections(outputs[p], path))
                      /\ Holding(Sections(outputs[p], path), ProjectSays(p, path))
  BY <1>1, <1>a, ProjectFile
<1>3. outputs = [p \in 1..N |-> outputs[p]]
  BY <1>1, <1>a
<1>4. Mergeable(outputs, N, path, S)
  BY <1>1, <1>2, <1>3 DEF Mergeable
<1>5. Output = MergeOutputs(outputs)
  BY <1>a DEF Output
<1>6. /\ Sections(Output, path) \in Seq(S) /\ OneEach(Sections(Output, path))
      /\ Merged(Sections(Output, path), outputs, N, path)
  BY <1>4, <1>5, MergedFile
<1>7. Said(outputs, N, path) = [p \in Projects |-> ProjectSays(p, path)]
  BY <1>1, <1>2 DEF Said, Holding
<1> QED
  BY <1>6, <1>7, <1>a DEF Merged, Holding

LEMMA DoneIsAll ==
  ASSUME IInv, result = "ok"
  PROVE  AllDone
  BY DEF IInv, ResultInv, FinishedInv, AllDone

\* What the answers for a project say, over all files.
Told(p) == UNION {Content(answer[p][b]) : b \in BatchIds}

LEMMA ToldIs ==
  ASSUME NEW p, NEW t
  PROVE  t \in Told(p) <=> \E path : \E x \in ProjectSays(p, path) : t = <<path, x.adr, x.text>>
<1>1. t \in Told(p) <=> \E b \in BatchIds : t \in Content(answer[p][b])
  BY DEF Told
<1>2. \A b \in BatchIds : t \in Content(answer[p][b]) <=>
        \E path : \E x \in ToSet(Sections(answer[p][b], path)) : t = <<path, x.adr, x.text>>
  BY ContentIs
<1>3. \A path, x : x \in ProjectSays(p, path)
                     <=> \E b \in BatchIds : x \in ToSet(Sections(answer[p][b], path))
  BY DEF ProjectSays
<1> QED
  BY <1>1, <1>2, <1>3

LEMMA OutputSays ==
  ASSUME IInv, AllDone
  PROVE  Content(Output) = Expected
<1> DEFINE Latest(p, path, x) == /\ x \in ProjectSays(p, path)
                                 /\ \A q \in (p + 1)..NumProjects :
                                      \A y \in ProjectSays(q, path) : y.adr # x.adr
<1>0. Projects = 1..NumProjects /\ NumProjects \in Nat
  BY TailoringAssumption DEF Projects
<1>1. \A path, x : x \in ToSet(Sections(Output, path)) <=> \E p \in Projects : Latest(p, path, x)
  <2> SUFFICES ASSUME NEW path, NEW x
               PROVE  x \in ToSet(Sections(Output, path)) <=> \E p \in Projects : Latest(p, path, x)
    OBVIOUS
  <2>a. PICK say : say = [p \in Projects |-> ProjectSays(p, path)]
    OBVIOUS
  <2>1. ToSet(Sections(Output, path)) = Lasting(say, NumProjects)
    BY <2>a, OutputFile DEF Holding
  <2>2. \A p \in Projects : say[p] = ProjectSays(p, path)
    BY <2>a
  <2>3. \A p \in Projects : \A q \in (p + 1)..NumProjects : q \in Projects
    BY <1>0
  <2>4. x \in Lasting(say, NumProjects) <=>
          \E p \in Projects : /\ x \in say[p]
                              /\ \A q \in (p + 1)..NumProjects : \A y \in say[q] : y.adr # x.adr
    BY <1>0 DEF Lasting
  <2> QED
    BY <2>1, <2>2, <2>3, <2>4
<1> DEFINE Names(t, path, x) == t = <<path, x.adr, x.text>>
<1>2. \A t : t \in Content(Output) <=>
        \E path : \E x : \E p \in Projects : Latest(p, path, x) /\ Names(t, path, x)
  <2> TAKE t
  <2>1. t \in Content(Output) <=>
          \E path : \E x \in ToSet(Sections(Output, path)) : Names(t, path, x)
    BY ContentIs
  <2> HIDE DEF Latest, Names
  <2> QED
    BY <1>1, <2>1
<1> DEFINE Unsaid(t, p) == \A q \in (p + 1)..NumProjects :
                             \A s \in Told(q) : <<s[1], s[2]>> # <<t[1], t[2]>>
<1>3. \A t : t \in Expected <=> \E p \in Projects : t \in Told(p) /\ Unsaid(t, p)
  <2>1. PICK said : said = [p \in Projects |-> Told(p)]
    OBVIOUS
  <2>2. Expected = UNION {{t \in said[p] : \A q \in (p + 1)..NumProjects :
                             \A s \in said[q] : <<s[1], s[2]>> # <<t[1], t[2]>>} :
                            p \in Projects}
    BY <2>1 DEF Expected, Told
  <2>3. \A p \in Projects : /\ said[p] = Told(p)
                            /\ \A q \in (p + 1)..NumProjects : said[q] = Told(q)
    <3>1. \A p \in Projects : \A q \in (p + 1)..NumProjects : q \in Projects
      BY <1>0
    <3> QED
      BY <2>1, <3>1
  <2>4. \A p \in Projects : \A t :
          (\A q \in (p + 1)..NumProjects : \A s \in said[q] : <<s[1], s[2]>> # <<t[1], t[2]>>)
            <=> Unsaid(t, p)
    BY <2>3
  <2> HIDE DEF Unsaid
  <2>5. \A t : t \in Expected <=>
          \E p \in Projects : /\ t \in said[p]
                             /\ \A q \in (p + 1)..NumProjects :
                                  \A s \in said[q] : <<s[1], s[2]>> # <<t[1], t[2]>>
    BY <2>2
  <2> QED
    BY <2>3, <2>4, <2>5
<1>4. ASSUME NEW p \in Projects, NEW path, NEW x, NEW t, Names(t, path, x)
      PROVE  Unsaid(t, p) <=> \A q \in (p + 1)..NumProjects : \A y \in ProjectSays(q, path) : y.adr # x.adr
  <2>1. t[1] = path /\ t[2] = x.adr
    BY <1>4
  <2>2. ASSUME NEW q
        PROVE  (\A s \in Told(q) : <<s[1], s[2]>> # <<t[1], t[2]>>)
                 <=> \A y \in ProjectSays(q, path) : y.adr # x.adr
    <3>1. ASSUME NEW s \in Told(q), <<s[1], s[2]>> = <<t[1], t[2]>>
          PROVE  \E y \in ProjectSays(q, path) : y.adr = x.adr
      <4>1. PICK path2, y : y \in ProjectSays(q, path2) /\ s = <<path2, y.adr, y.text>>
        BY <3>1, ToldIs
      <4>2. s[1] = path2 /\ s[2] = y.adr
        BY <4>1
      <4>3. path2 = path /\ y.adr = x.adr
        BY <2>1, <3>1, <4>2
      <4> QED
        BY <4>1, <4>3
    <3>2. ASSUME NEW y \in ProjectSays(q, path), y.adr = x.adr
          PROVE  \E s \in Told(q) : <<s[1], s[2]>> = <<t[1], t[2]>>
      <4>1. PICK s : s = <<path, y.adr, y.text>>
        OBVIOUS
      <4>2. s \in Told(q)
        BY <4>1, ToldIs
      <4>3. s[1] = path /\ s[2] = y.adr
        BY <4>1
      <4> QED
        BY <2>1, <3>2, <4>2, <4>3
    <3> QED
      BY <3>1, <3>2
  <2> QED
    BY <2>2
<1>5. \A p, t : t \in Told(p) <=> \E path : \E x \in ProjectSays(p, path) : Names(t, path, x)
  BY ToldIs
<1>6. ASSUME NEW t \in Content(Output)
      PROVE  t \in Expected
  <2>1. PICK path, x, p : p \in Projects /\ Latest(p, path, x) /\ Names(t, path, x)
    BY <1>2
  <2>2. t \in Told(p)
    BY <1>5, <2>1
  <2>3. Unsaid(t, p)
    <3> HIDE DEF Names, Unsaid
    <3> QED
      BY <1>4, <2>1
  <2> HIDE DEF Unsaid
  <2> QED
    BY <1>3, <2>1, <2>2, <2>3
<1>7. ASSUME NEW t \in Expected
      PROVE  t \in Content(Output)
  <2> HIDE DEF Unsaid, Names
  <2>1. PICK p \in Projects : t \in Told(p) /\ Unsaid(t, p)
    BY <1>3
  <2>2. PICK path, x : x \in ProjectSays(p, path) /\ Names(t, path, x)
    BY <1>5, <2>1
  <2>3. Latest(p, path, x)
    BY <1>4, <2>1, <2>2
  <2> QED
    BY <1>2, <2>2, <2>3
<1> QED
  BY <1>6, <1>7

LEMMA OrderIs ==
  ASSUME IInv
  PROVE  OrderDoesNotMatter
<1> SUFFICES ASSUME result = "ok"
             PROVE  /\ \A p \in Projects, b \in BatchIds : batch[p][b] = "done"
                    /\ Content(Output) = Expected
                    /\ \A path \in DOMAIN Output.files :
                         Len(Output.files[path]) = Cardinality({s.adr : s \in ToSet(Output.files[path])})
  BY DEF OrderDoesNotMatter
<1>1. AllDone
  BY DoneIsAll
<1>2. Content(Output) = Expected
  BY <1>1, OutputSays
<1>3. ASSUME NEW path \in DOMAIN Output.files
      PROVE  Len(Output.files[path]) = Cardinality({s.adr : s \in ToSet(Output.files[path])})
  <2>1. Sections(Output, path) = Output.files[path]
    BY DEF Sections
  <2>2. Output.files[path] \in Seq(AllSections(path)) /\ OneEach(Output.files[path])
    BY <1>1, <2>1, OutputFile
  <2> QED
    BY <2>2, LengthIs
<1> QED
  BY <1>1, <1>2, <1>3 DEF AllDone

\* The batches of every run hold the ADRs category by category, each once and in its
\* order; none is empty or larger than the batch size, and a category that fits in
\* one batch is in one (tailoring/batch.rs, create_batches).
THEOREM BatchesHold == Spec => []BatchesAreSound
<1>1. IInv => BatchesAreSound
  BY TypedAreSound DEF IInv
<1> QED
  BY <1>1, Inductive, PTL

\* A run that succeeds has every batch, and its output says what the answers say and
\* each ADR once per file, in whatever order the calls ended
\* (tailoring/concurrent.rs, batch_outputs and merge_outputs).
THEOREM OutputHolds == Spec => []OrderDoesNotMatter
<1>1. IInv => OrderDoesNotMatter
  BY OrderIs
<1> QED
  BY <1>1, Inductive, PTL
=============================================================================
