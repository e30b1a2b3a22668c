------------------------------ MODULE SyncProofs ------------------------------
(***************************************************************************)
(* Proofs about Sync: while no two syncs write the same file at once, the  *)
(* author's text survives and a file says what was agreed on, whatever the *)
(* files, the ADRs and the tailoring.                                      *)
(***************************************************************************)
EXTENDS Sync, SelectionProofs, FiniteSetTheorems

\* What the budget admits is some of the sections, in their order.
LEMMA BudgetIsPart ==
  ASSUME NEW S, NEW items \in Seq(S), NEW budget
  PROVE  /\ WithinBudget(items, budget) \in Seq(S)
         /\ \E I : IsPart(WithinBudget(items, budget), items, I, Len(items))
<1> PICK L : L = Len(items)
  OBVIOUS
<1> DEFINE Fits1(x, n) == items[n] = Governance \/ ItemSize(items[n]) <= budget - Length(x)
           Next1(x, n) == IF Fits1(x, n) THEN Append(x, items[n]) ELSE x
           step == [n \in 1..L |-> [x \in Seq(S) |-> Next1(x, n)]]
           Up(f) == f = [n \in 0..L |-> IF n = 0 THEN <<>>
                           ELSE IF Fits1(f[n - 1], n) THEN Append(f[n - 1], items[n]) ELSE f[n - 1]]
<1>0. L \in Nat /\ \A n \in 1..L : items[n] \in S
  OBVIOUS
<1>1. step \in [1..L -> [Seq(S) -> Seq(S)]] /\ <<>> \in Seq(S) /\ L \in Nat
  <2>1. \A n \in 1..L, x \in Seq(S) : Next1(x, n) \in Seq(S)
    BY <1>0
  <2> HIDE DEF Next1
  <2> QED
    BY <1>0, <2>1
<1>2. PICK f \in [0..L -> Seq(S)] : f[0] = <<>> /\ \A n \in 1..L : f[n] = step[n][f[n - 1]]
  <2> HIDE DEF step
  <2>1. PICK f : IsRun(f, <<>>, L, step, Seq(S))
    BY <1>1, Recursion
  <2> QED
    BY <2>1 DEF IsRun
<1>3. \A n \in 1..L : f[n] = IF Fits1(f[n - 1], n) THEN Append(f[n - 1], items[n]) ELSE f[n - 1]
  <2> TAKE n \in 1..L
  <2>1. f[n - 1] \in Seq(S)
    BY <1>1, <1>2
  <2> QED
    BY <1>2, <2>1
<1>4. Up(f)
  <2> DEFINE F == [n \in 0..L |-> IF n = 0 THEN <<>>
                      ELSE IF Fits1(f[n - 1], n) THEN Append(f[n - 1], items[n]) ELSE f[n - 1]]
  <2>1. ASSUME NEW n \in 0..L
        PROVE  f[n] = F[n]
    <3>1. CASE n = 0
      BY <1>2, <3>1
    <3>2. CASE n # 0
      <4>1. n \in 1..L
        BY <1>1, <3>2
      <4> QED
        BY <1>3, <3>2, <4>1
    <3> QED
      BY <3>1, <3>2
  <2> HIDE DEF F
  <2>2. f = F
    <3>1. F = [n \in 0..L |-> F[n]]
      BY DEF F
    <3> QED
      BY <1>2, <2>1, <3>1
  <2> QED
    BY <2>2 DEF F
<1>5. PICK g : g = CHOOSE h : Up(h)
  OBVIOUS
<1>6. Up(g)
  BY <1>4, <1>5
<1>7. g[0] = <<>> /\ \A n \in 1..L : g[n] = IF Fits1(g[n - 1], n) THEN Append(g[n - 1], items[n]) ELSE g[n - 1]
  <2>1. g = [n \in 0..L |-> IF n = 0 THEN <<>>
                ELSE IF Fits1(g[n - 1], n) THEN Append(g[n - 1], items[n]) ELSE g[n - 1]]
    BY <1>6
  <2>2. 0 \in 0..L /\ \A n \in 1..L : n \in 0..L /\ n # 0
    BY <1>1
  <2>3. g[0] = <<>>
    BY <2>1, <2>2
  <2>4. ASSUME NEW n \in 1..L
        PROVE  g[n] = IF Fits1(g[n - 1], n) THEN Append(g[n - 1], items[n]) ELSE g[n - 1]
    BY <2>1, <2>2
  <2> QED
    BY <2>3, <2>4
<1>8. \A n \in 0..L : g[n] = f[n]
  <2> DEFINE P == {n \in Nat : n <= L => g[n] = f[n]}
  <2>1. 0 \in P
    BY <1>2, <1>7
  <2>2. ASSUME NEW n \in P
        PROVE  n + 1 \in P
    <3>1. SUFFICES ASSUME n + 1 <= L
                   PROVE  g[n + 1] = f[n + 1]
      OBVIOUS
    <3>2. n + 1 \in 1..L /\ (n + 1) - 1 = n /\ g[n] = f[n]
      BY <1>1, <3>1
    <3> QED
      BY <1>3, <1>7, <3>2
  <2>3. P = Nat
    <3>1. P \in SUBSET Nat
      OBVIOUS
    <3> HIDE DEF P
    <3> QED
      BY <2>1, <2>2, <3>1, NatSetInduction
  <2> QED
    BY <1>1, <2>3
<1>9. WithinBudget(items, budget) = f[L]
  <2>1. WithinBudget(items, budget) = g[L]
    BY <1>5 DEF WithinBudget
  <2> QED
    BY <1>1, <1>8, <2>1
<1>10. Grows(f, items, {n \in 1..L : Fits1(f[n - 1], n)}, S)
  BY <1>2, <1>3 DEF Grows
<1> QED
  BY <1>1, <1>2, <1>9, <1>10, GrownPart

\* No two sections of a part are of one ADR if no two of the whole are.
LEMMA PartDistinct ==
  ASSUME NEW S, NEW items \in Seq(S), NEW part \in Seq(S), NEW I,
         IsPart(part, items, I, Len(items)), Distinct(items)
  PROVE  Distinct(part)
<1>1. PICK at \in [1..Len(part) -> 1..Len(items)] :
        /\ \A j \in 1..Len(part) : at[j] \in I /\ part[j] = items[at[j]]
        /\ \A j, k \in 1..Len(part) : j < k => at[j] < at[k]
  BY DEF IsPart
<1> SUFFICES ASSUME NEW j \in 1..Len(part), NEW k \in 1..Len(part), part[j].adr = part[k].adr
             PROVE  j = k
  BY DEF Distinct
<1>2. at[j] = at[k]
  BY <1>1 DEF Distinct
<1>3. ~(at[j] < at[k]) /\ ~(at[k] < at[j])
  BY <1>1, <1>2
<1> QED
  BY <1>1, <1>3

\* The part of items at the indices of I, which are those from a to b.
IsWithoutGaps(S, part, items, I, a, b) ==
  /\ items \in Seq(S) /\ part \in Seq(S) /\ IsPart(part, items, I, Len(items))
  /\ a \in Nat \ {0} /\ b \in 0..Len(items) /\ a <= b + 1
  /\ \A i \in 1..Len(items) : i \in I <=> i \in a..b

\* A part without gaps is a stretch.
LEMMA PartIsStretch ==
  ASSUME NEW S, NEW part, NEW items, NEW I, NEW a, NEW b, IsWithoutGaps(S, part, items, I, a, b)
  PROVE  part = SubSeq(items, a, b)
<1>s. /\ items \in Seq(S) /\ part \in Seq(S) /\ IsPart(part, items, I, Len(items))
      /\ a \in Nat \ {0} /\ b \in 0..Len(items) /\ a <= b + 1
      /\ \A i \in 1..Len(items) : i \in I <=> i \in a..b
  BY DEF IsWithoutGaps
<1> PICK l, m : l = Len(part) /\ m = Len(items)
  OBVIOUS
<1>0. l \in Nat /\ m \in Nat /\ a \in Nat /\ a >= 1 /\ b \in Nat /\ b <= m /\ a <= b + 1
  BY <1>s
<1>p. IsPart(part, items, I, m) /\ \A i \in 1..m : i \in I <=> i \in a..b
  BY <1>s
<1>1. PICK at \in [1..l -> 1..m] :
        /\ \A j \in 1..l : at[j] \in I /\ part[j] = items[at[j]]
        /\ \A j, k \in 1..l : j < k => at[j] < at[k]
        /\ \A i \in 1..m : i \in I => \E j \in 1..l : at[j] = i
  BY <1>p DEF IsPart
<1>2. \A j \in 1..l : at[j] \in a..b
  BY <1>s, <1>1
<1> DEFINE P == {j \in Nat : j + 1 <= l => at[j + 1] = a + j}
<1>3. 0 \in P
  <2> SUFFICES ASSUME 1 <= l
               PROVE  at[1] = a
    BY <1>0
  <2>1. 1 \in 1..l /\ at[1] \in a..b
    BY <1>0, <1>2
  <2>2. a \in 1..m /\ a \in a..b
    BY <1>0, <2>1
  <2>3. PICK k \in 1..l : at[k] = a
    BY <1>1, <1>p, <2>2
  <2>4. ~(1 < k)
    BY <1>0, <1>1, <2>1, <2>3
  <2>5. k = 1
    BY <1>0, <2>4
  <2> QED
    BY <2>3, <2>5
<1>4. ASSUME NEW j \in P
      PROVE  j + 1 \in P
  <2>0. j \in Nat
    OBVIOUS
  <2> SUFFICES ASSUME j + 2 <= l
               PROVE  at[j + 2] = a + j + 1
    BY <1>0, <2>0
  <2>1. j + 1 \in 1..l /\ j + 2 \in 1..l /\ at[j + 1] = a + j
    BY <1>0, <2>0
  <2>2. at[j + 2] \in a..b /\ at[j + 1] < at[j + 2]
    BY <1>1, <1>2, <2>0, <2>1
  <2>3. a + j + 1 \in 1..m /\ a + j + 1 \in a..b /\ a + j + 1 <= at[j + 2]
    BY <1>0, <2>0, <2>1, <2>2
  <2>4. PICK k \in 1..l : at[k] = a + j + 1
    BY <1>1, <1>p, <2>3
  <2>5. ~(k < j + 1) /\ k # j + 1
    <3>1. CASE k < j + 1
      <4>1. at[k] < at[j + 1]
        BY <1>1, <2>1, <3>1
      <4> QED
        BY <1>0, <2>0, <2>1, <2>4, <4>1
    <3>2. CASE k = j + 1
      BY <1>0, <2>0, <2>1, <2>4, <3>2
    <3> QED
      BY <3>1, <3>2
  <2>6. ~(j + 2 < k)
    <3> SUFFICES ASSUME j + 2 < k
                 PROVE  FALSE
      OBVIOUS
    <3>1. at[j + 2] < at[k]
      BY <1>1, <2>1
    <3> QED
      <4> PICK x, y : x = at[j + 2] /\ y = at[k]
        OBVIOUS
      <4>1. x \in Int /\ y \in Int /\ x < y /\ a + j + 1 <= x /\ y = a + j + 1
        BY <1>0, <2>2, <2>3, <2>4, <3>1
      <4> QED
        BY <4>1
  <2>7. k = j + 2
    BY <1>0, <2>0, <2>5, <2>6
  <2> QED
    BY <2>4, <2>7
<1>5. \A j \in Nat : j + 1 <= l => at[j + 1] = a + j
  <2>1. P \in SUBSET Nat
    OBVIOUS
  <2> HIDE DEF P
  <2>2. P = Nat
    BY <1>3, <1>4, <2>1, NatSetInduction
  <2> QED
    BY <2>2 DEF P
<1>6. \A j \in 1..l : at[j] = a + j - 1
  <2> TAKE j \in 1..l
  <2>1. j - 1 \in Nat /\ (j - 1) + 1 = j /\ j <= l
    BY <1>0
  <2>2. at[(j - 1) + 1] = a + (j - 1)
    BY <1>5, <2>1
  <2> QED
    BY <1>0, <2>1, <2>2
<1>7. l = b + 1 - a
  <2>1. CASE a <= b
    <3>1. b \in 1..m /\ b \in a..b
      BY <1>0, <2>1
    <3>2. PICK k \in 1..l : at[k] = b
      BY <1>1, <1>p, <3>1
    <3>3. k = b + 1 - a
      BY <1>0, <1>6, <3>2
    <3>4. l \in 1..l /\ at[l] = a + l - 1 /\ at[l] <= b
      BY <1>0, <1>2, <1>6, <3>2
    <3> QED
      BY <1>0, <3>3, <3>4
  <2>2. CASE a = b + 1
    <3>1. l = 0
      <4> SUFFICES ASSUME l # 0
                   PROVE  FALSE
        OBVIOUS
      <4>1. 1 \in 1..l
        BY <1>0
      <4> QED
        BY <1>0, <1>2, <2>2, <4>1
    <3> QED
      BY <1>0, <2>2, <3>1
  <2> QED
    BY <1>0, <2>1, <2>2
<1>8. Len(SubSeq(items, a, b)) = l /\ SubSeq(items, a, b) \in Seq(S)
  BY <1>s, <1>0, <1>7
<1>9. \A j \in 1..l : SubSeq(items, a, b)[j] = part[j]
  <2> TAKE j \in 1..l
  <2>1. at[j] = a + j - 1 /\ part[j] = items[at[j]]
    BY <1>1, <1>6
  <2>2. SubSeq(items, a, b)[j] = items[a + j - 1]
    BY <1>s, <1>0, <1>7
  <2> QED
    BY <2>1, <2>2
<1> QED
  BY <1>s, <1>8, <1>9, SameItems

\* The sections of a file in which they have no gaps.
LEMMA SectionsAre ==
  ASSUME NEW items \in Seq(Item), NEW a \in Nat \ {0}, NEW b \in 0..Len(items), a <= b + 1,
         \A i \in 1..Len(items) : "adr" \in DOMAIN items[i] <=> i \in a..b
  PROVE  Sections(items) = SubSeq(items, a, b)
<1> PICK I : I = {i \in DOMAIN items : "adr" \in DOMAIN items[i]}
  OBVIOUS
<1>1. Sections(items) \in Seq(Item) /\ IsPart(Sections(items), items, I, Len(items))
  BY PickedIsPart DEF Sections
<1>2. \A i \in 1..Len(items) : i \in I <=> i \in a..b
  OBVIOUS
<1>3. IsWithoutGaps(Item, Sections(items), items, I, a, b)
  BY <1>1, <1>2 DEF IsWithoutGaps
<1> QED
  BY <1>3, PartIsStretch

LEMMA LeastIs ==
  ASSUME NEW I \in SUBSET Nat, NEW x \in I, \A y \in I : x <= y
  PROVE  Min(I) = x
<1> DEFINE Q(y) == y \in I /\ \A z \in I : y <= z
<1>1. Q(x) /\ \A y : Q(y) => y = x
  <2>1. ASSUME NEW y, Q(y)
        PROVE  y = x
    <3>1. y \in Nat /\ x \in Nat /\ y <= x /\ x <= y
      BY <2>1
    <3> QED
      BY <3>1
  <2> QED
    BY <2>1
<1>2. Min(I) = CHOOSE y : Q(y)
  BY DEF Min
<1> HIDE DEF Q
<1>3. Q(CHOOSE y : Q(y))
  BY <1>1
<1> QED
  BY <1>1, <1>2, <1>3

LEMMA Retyped ==
  ASSUME NEW S, NEW T, NEW s \in Seq(S), \A i \in 1..Len(s) : s[i] \in T
  PROVE  s \in Seq(T)
  OBVIOUS

LEMMA Stretch ==
  ASSUME NEW S, NEW s \in Seq(S), NEW a \in Nat \ {0}, NEW b \in 0..Len(s), a <= b + 1
  PROVE  /\ SubSeq(s, a, b) \in Seq(S) /\ Len(SubSeq(s, a, b)) = b + 1 - a
         /\ \A i \in 1..(b + 1 - a) : SubSeq(s, a, b)[i] = s[a + i - 1]
  OBVIOUS

\* The items from a to b.
IsStretch(S, sub, s, a, b) ==
  /\ s \in Seq(S) /\ a \in Nat \ {0} /\ b \in 0..Len(s) /\ a <= b + 1
  /\ sub = SubSeq(s, a, b)

LEMMA StretchItems ==
  ASSUME NEW S, NEW sub, NEW s, NEW a, NEW b, IsStretch(S, sub, s, a, b)
  PROVE  /\ sub \in Seq(S) /\ Len(sub) = b + 1 - a
         /\ \A i \in 1..(b + 1 - a) : sub[i] = s[a + i - 1]
  BY Stretch DEF IsStretch

\* The first l items.
IsTop(sub, s, l) == l \in 0..Len(s) /\ sub = SubSeq(s, 1, l)

LEMMA PrefixItems ==
  ASSUME NEW S, NEW s \in Seq(S), NEW sub, NEW l, IsTop(sub, s, l)
  PROVE  /\ sub \in Seq(S) /\ Len(sub) = l
         /\ \A i \in 1..l : sub[i] = s[i]
  BY DEF IsTop

\* A stretch that is somewhere else in another sequence.
LEMMA MovedStretch ==
  ASSUME NEW S, NEW s \in Seq(S), NEW new \in Seq(S),
         NEW a \in Nat \ {0}, NEW z \in 0..Len(s), a <= z + 1, NEW k \in Nat, k + z <= Len(new),
         \A i \in a..z : new[k + i] = s[i]
  PROVE  SubSeq(new, k + a, k + z) = SubSeq(s, a, z)
<1>0. a \in Nat /\ z \in Nat /\ 1 <= a /\ k \in Nat /\ z <= Len(s) /\ Len(s) \in Nat /\ Len(new) \in Nat
  OBVIOUS
<1>1. /\ SubSeq(s, a, z) \in Seq(S) /\ Len(SubSeq(s, a, z)) = z + 1 - a
      /\ \A i \in 1..(z + 1 - a) : SubSeq(s, a, z)[i] = s[a + i - 1]
  BY Stretch
<1>2. /\ SubSeq(new, k + a, k + z) \in Seq(S) /\ Len(SubSeq(new, k + a, k + z)) = z + 1 - a
      /\ \A i \in 1..(z + 1 - a) : SubSeq(new, k + a, k + z)[i] = new[(k + a) + i - 1]
  <2>1. /\ k + a \in Nat \ {0} /\ k + z \in 0..Len(new) /\ k + a <= (k + z) + 1
        /\ (k + z) + 1 - (k + a) = z + 1 - a
    BY <1>0
  <2> QED
    BY <2>1, Stretch
<1>3. \A i \in 1..(z + 1 - a) : SubSeq(new, k + a, k + z)[i] = SubSeq(s, a, z)[i]
  <2> TAKE i \in 1..(z + 1 - a)
  <2>1. a + i - 1 \in a..z /\ (k + a) + i - 1 = k + (a + i - 1)
    BY <1>0
  <2>2. new[k + (a + i - 1)] = s[a + i - 1]
    BY <2>1
  <2> QED
    BY <1>1, <1>2, <2>1, <2>2
<1> QED
  BY <1>1, <1>2, <1>3, SameItems

\* The index of the first section of an ADR.
LEMMA OfIsThere ==
  ASSUME NEW S, NEW sections \in Seq(S), NEW adr \in Ids(sections)
  PROVE  \E i \in 1..Len(sections) : sections[i].adr = adr /\ Of(sections, adr) = sections[i]
<1> DEFINE I == {i \in 1..Len(sections) : sections[i].adr = adr}
<1>1. I # {} /\ I \in SUBSET Nat
  BY DEF Ids
<1>2. PICK x \in I : \A y \in I : x <= y
  BY <1>1, LeastNatural
<1>3. Min(I) = x
  BY <1>1, <1>2, LeastIs
<1>4. SelectInSeq(sections, LAMBDA s : s.adr = adr) = x
  BY <1>1, <1>3 DEF SelectInSeq
<1> QED
  BY <1>2, <1>4 DEF Of

LEMMA DistinctOf ==
  ASSUME NEW S, NEW sections \in Seq(S), Distinct(sections), NEW i \in 1..Len(sections)
  PROVE  Of(sections, sections[i].adr) = sections[i]
<1>1. sections[i].adr \in Ids(sections)
  BY DEF Ids
<1>2. PICK j \in 1..Len(sections) :
        sections[j].adr = sections[i].adr /\ Of(sections, sections[i].adr) = sections[j]
  BY <1>1, OfIsThere
<1> QED
  BY <1>2 DEF Distinct

\* As many sections as ADRs.
LEMMA DistinctLength ==
  ASSUME NEW S, NEW sections \in Seq(S), Distinct(sections)
  PROVE  Cardinality(Ids(sections)) = Len(sections)
<1> DEFINE f == [i \in 1..Len(sections) |-> sections[i].adr]
<1>1. f \in Bijection(1..Len(sections), Ids(sections))
  BY DEF Bijection, Injection, Surjection, IsInjective, Ids, Distinct
<1> QED
  BY <1>1, FS_CountingElements DEF ExistsBijection

\* An item is in one place.
LEMMA OnceIsOne ==
  ASSUME NEW file, NEW x, NEW b \in DOMAIN file, \A i \in DOMAIN file : file[i] = x <=> i = b
  PROVE  Cardinality({i \in DOMAIN file : file[i] = x}) = 1
<1>1. {i \in DOMAIN file : file[i] = x} = {b}
  OBVIOUS
<1> QED
  BY <1>1, FS_Singleton

-----------------------------------------------------------------------------
(* What a file is made of.                                                 *)

LEMMA TextItems ==
  ASSUME NEW x \in [text : Texts]
  PROVE  /\ x # Start /\ x # End /\ x # Header /\ "adr" \notin DOMAIN x
         /\ x = Text(x.text) /\ x \in Item
<1>1. x = [text |-> x.text] /\ x.text \in Texts
  OBVIOUS
<1>2. DOMAIN x = {"text"}
  BY <1>1
<1>3. DOMAIN Start = {"mark"} /\ DOMAIN End = {"mark"} /\ DOMAIN Header = {"mark"}
  BY DEF Start, End, Header
<1> QED
  BY <1>1, <1>2, <1>3 DEF Item, Text

LEMMA SectionItems ==
  ASSUME NEW x \in ASection
  PROVE  /\ x # Start /\ x # End /\ x # Header /\ "adr" \in DOMAIN x
         /\ x \notin [text : Texts] /\ x \in Item
<1>1. DOMAIN x = {"adr", "says"}
  BY DEF ASection
<1>2. DOMAIN Start = {"mark"} /\ DOMAIN End = {"mark"} /\ DOMAIN Header = {"mark"}
  BY DEF Start, End, Header
<1>3. \A y \in [text : Texts] : DOMAIN y = {"text"}
  OBVIOUS
<1> QED
  BY <1>1, <1>2, <1>3 DEF Item

LEMMA VersionItems ==
  ASSUME NEW x \in [version : Nat]
  PROVE  /\ x # Start /\ x # End /\ x # Header /\ "adr" \notin DOMAIN x
         /\ x \notin [text : Texts] /\ x \in Item
<1>1. DOMAIN x = {"version"}
  OBVIOUS
<1>2. DOMAIN Start = {"mark"} /\ DOMAIN End = {"mark"} /\ DOMAIN Header = {"mark"}
  BY DEF Start, End, Header
<1>3. \A y \in [text : Texts] : DOMAIN y = {"text"}
  OBVIOUS
<1> QED
  BY <1>1, <1>2, <1>3 DEF Item

LEMMA MarkItems ==
  /\ Start # End /\ Start # Header /\ End # Header
  /\ \A x \in {Start, End, Header} :
       "adr" \notin DOMAIN x /\ x \notin [text : Texts] /\ x \in Item /\ x \notin ASection
<1>1. \A x \in {Start, End, Header} : DOMAIN x = {"mark"}
  BY DEF Start, End, Header
<1>2. \A y \in [text : Texts] : DOMAIN y = {"text"}
  OBVIOUS
<1>3. \A y \in ASection : DOMAIN y = {"adr", "says"}
  BY DEF ASection
<1>4. Start.mark = "start" /\ End.mark = "end" /\ Header.mark = "header"
  BY DEF Start, End, Header
<1>5. \A x \in {Start, End, Header} : x \in Item
  BY DEF Start, End, Header, Item
<1> QED
  BY <1>1, <1>2, <1>3, <1>4, <1>5

LEMMA PositionIs ==
  ASSUME NEW file \in Seq(Item), NEW x, NEW b \in 1..Len(file), file[b] = x,
         \A i \in 1..Len(file) : file[i] = x => b <= i
  PROVE  Position(file, x) = b
<1> DEFINE I == {i \in 1..Len(file) : file[i] = x}
<1>1. I \in SUBSET Nat /\ b \in I /\ \A i \in I : b <= i
  OBVIOUS
<1>2. Min(I) = b
  BY <1>1, LeastIs
<1>3. SelectInSeq(file, LAMBDA i : i = x) = b
  BY <1>1, <1>2 DEF SelectInSeq
<1> QED
  BY <1>3 DEF Position

LEMMA PositionNone ==
  ASSUME NEW file \in Seq(Item), NEW x, \A i \in 1..Len(file) : file[i] # x
  PROVE  Position(file, x) = 0
<1> DEFINE I == {i \in 1..Len(file) : file[i] = x}
<1>1. I = {}
  OBVIOUS
<1>2. SelectInSeq(file, LAMBDA i : i = x) = 0
  BY <1>1 DEF SelectInSeq
<1> QED
  BY <1>2 DEF Position

\* The kinds of the items of a file with a block.
LEMMA FramedItems ==
  ASSUME NEW file \in Seq(Item), NEW b \in 1..Len(file), NEW e \in 1..Len(file),
         IsFramedAt(file, b, e)
  PROVE  /\ b + 2 \in Nat /\ b + 1 < e /\ e <= Len(file)
         /\ \A i \in 1..Len(file) :
              /\ file[i] = Start <=> i = b
              /\ file[i] = End <=> i = e
              /\ "adr" \in DOMAIN file[i] <=> i \in (b + 2)..(e - 1)
<1>0. b \in Nat /\ e \in Nat /\ Len(file) \in Nat /\ b + 1 < e /\ e <= Len(file)
  BY DEF IsFramedAt
<1>1. ASSUME NEW i \in 1..Len(file)
      PROVE  /\ file[i] = Start <=> i = b
             /\ file[i] = End <=> i = e
             /\ "adr" \in DOMAIN file[i] <=> i \in (b + 2)..(e - 1)
  <2>1. i \in 1..(b - 1) \/ i = b \/ i = b + 1 \/ i \in (b + 2)..(e - 1) \/ i = e
          \/ i \in (e + 1)..Len(file)
    BY <1>0
  <2>2. CASE i \in 1..(b - 1)
    <3>1. file[i] \in [text : Texts] \cup {Header}
      BY <2>2 DEF IsFramedAt
    <3>2. file[i] # Start /\ file[i] # End /\ "adr" \notin DOMAIN file[i]
      BY <3>1, TextItems, MarkItems
    <3> QED
      BY <1>0, <2>2, <3>2
  <2>3. CASE i = b
    <3>1. file[i] = Start
      BY <2>3 DEF IsFramedAt
    <3> QED
      BY <1>0, <2>3, <3>1, MarkItems
  <2>4. CASE i = b + 1
    <3>1. file[i] \in [version : Nat]
      BY <2>4 DEF IsFramedAt
    <3> QED
      BY <1>0, <2>4, <3>1, VersionItems
  <2>5. CASE i \in (b + 2)..(e - 1)
    <3>1. file[i] \in ASection
      BY <2>5 DEF IsFramedAt
    <3> QED
      BY <1>0, <2>5, <3>1, SectionItems
  <2>6. CASE i = e
    <3>1. file[i] = End
      BY <2>6 DEF IsFramedAt
    <3> QED
      BY <1>0, <2>6, <3>1, MarkItems
  <2>7. CASE i \in (e + 1)..Len(file)
    <3>1. file[i] \in [text : Texts]
      BY <2>7 DEF IsFramedAt
    <3> QED
      BY <1>0, <2>7, <3>1, TextItems
  <2> QED
    BY <2>1, <2>2, <2>3, <2>4, <2>5, <2>6, <2>7
<1> QED
  BY <1>0, <1>1

\* What reading such a file finds.
LEMMA FramedReads ==
  ASSUME NEW file \in Seq(Item), NEW b \in 1..Len(file), NEW e \in 1..Len(file),
         IsFramedAt(file, b, e)
  PROVE  /\ Position(file, Start) = b /\ Position(file, End) = e /\ HasBlock(file)
         /\ SubSeq(file, b + 2, e - 1) \in Seq(ASection)
         /\ Sections(file) = SubSeq(file, b + 2, e - 1)
         /\ Sections(Block(file)) = SubSeq(file, b + 2, e - 1)
<1>0. b \in Nat /\ e \in Nat /\ Len(file) \in Nat /\ b + 1 < e /\ e <= Len(file)
  BY DEF IsFramedAt
<1>1. /\ \A i \in 1..Len(file) : file[i] = Start <=> i = b
      /\ \A i \in 1..Len(file) : file[i] = End <=> i = e
      /\ \A i \in 1..Len(file) : "adr" \in DOMAIN file[i] <=> i \in (b + 2)..(e - 1)
  BY FramedItems
<1>2. Position(file, Start) = b
  BY <1>0, <1>1, PositionIs
<1>3. Position(file, End) = e
  BY <1>0, <1>1, PositionIs
<1>4. HasBlock(file)
  BY <1>0, <1>2, <1>3 DEF HasBlock
<1> PICK block, inner : /\ block = SubSeq(file, b + 1, e - 1)
                        /\ inner = SubSeq(file, b + 2, e - 1)
  OBVIOUS
<1>5. Block(file) = block
  BY <1>2, <1>3, <1>4 DEF Block
<1>6. /\ block \in Seq(Item) /\ Len(block) = e - 1 - b
      /\ \A i \in 1..(e - 1 - b) : block[i] = file[b + i]
  <2>1. b + 1 \in Nat \ {0} /\ e - 1 \in 0..Len(file) /\ b + 1 <= (e - 1) + 1
    BY <1>0
  <2>2. /\ block \in Seq(Item) /\ Len(block) = (e - 1) + 1 - (b + 1)
        /\ \A i \in 1..((e - 1) + 1 - (b + 1)) : block[i] = file[(b + 1) + i - 1]
    BY <2>1, Stretch
  <2>3. (e - 1) + 1 - (b + 1) = e - 1 - b /\ \A i \in Int : (b + 1) + i - 1 = b + i
    BY <1>0
  <2> QED
    BY <1>0, <2>2, <2>3
<1>7. /\ inner \in Seq(Item) /\ Len(inner) = e - 2 - b
      /\ \A i \in 1..(e - 2 - b) : inner[i] = file[b + 1 + i]
  <2>1. b + 2 \in Nat \ {0} /\ e - 1 \in 0..Len(file) /\ b + 2 <= (e - 1) + 1
    BY <1>0
  <2>2. /\ inner \in Seq(Item) /\ Len(inner) = (e - 1) + 1 - (b + 2)
        /\ \A i \in 1..((e - 1) + 1 - (b + 2)) : inner[i] = file[(b + 2) + i - 1]
    BY <2>1, Stretch
  <2>3. (e - 1) + 1 - (b + 2) = e - 2 - b /\ \A i \in Int : (b + 2) + i - 1 = b + 1 + i
    BY <1>0
  <2> QED
    BY <1>0, <2>2, <2>3
<1>8. inner \in Seq(ASection)
  <2>1. \A i \in 1..Len(inner) : inner[i] \in ASection
    <3> TAKE i \in 1..Len(inner)
    <3>1. i \in 1..(e - 2 - b)
      BY <1>7
    <3>2. b + 1 + i \in (b + 2)..(e - 1)
      BY <1>0, <3>1
    <3>3. inner[i] = file[b + 1 + i]
      BY <1>7, <3>1
    <3> QED
      BY <3>2, <3>3 DEF IsFramedAt
  <2> QED
    BY <1>7, <2>1, Retyped
<1>9. Sections(file) = inner
  <2>1. b + 2 \in Nat \ {0} /\ e - 1 \in 0..Len(file) /\ b + 2 <= (e - 1) + 1
    BY <1>0
  <2> QED
    BY <1>1, <2>1, SectionsAre
<1>10. Sections(block) = inner
  <2>2. \A i \in 1..Len(block) : "adr" \in DOMAIN block[i] <=> i \in 2..(e - 1 - b)
    <3> TAKE i \in 1..Len(block)
    <3>0. i \in 1..(e - 1 - b)
      BY <1>6
    <3>a. b + i \in 1..Len(file)
      BY <1>0, <3>0
    <3>b. block[i] = file[b + i]
      BY <1>6, <3>0
    <3>1. b + i \in 1..Len(file) /\ block[i] = file[b + i]
      BY <3>a, <3>b
    <3>2. "adr" \in DOMAIN block[i] <=> b + i \in (b + 2)..(e - 1)
      BY <1>1, <3>1
    <3> QED
      BY <1>0, <1>6, <3>2
  <2>3. 2 \in Nat \ {0} /\ e - 1 - b \in 0..Len(block) /\ 2 <= (e - 1 - b) + 1
    BY <1>0, <1>6
  <2>4. Sections(block) = SubSeq(block, 2, e - 1 - b)
    BY <1>6, <2>2, <2>3, SectionsAre
  <2> PICK sub, l : sub = SubSeq(block, 2, l) /\ l = e - 1 - b
    OBVIOUS
  <2>5. /\ sub \in Seq(Item) /\ Len(sub) = l + 1 - 2
        /\ \A i \in 1..(l + 1 - 2) : sub[i] = block[2 + i - 1]
    BY <1>6, <2>3, Stretch
  <2>6. \A i \in 1..(e - 2 - b) : sub[i] = inner[i]
    <3> TAKE i \in 1..(e - 2 - b)
    <3>1. /\ i \in 1..(l + 1 - 2) /\ 2 + i - 1 \in 1..(e - 1 - b) /\ b + (2 + i - 1) = b + 1 + i
      BY <1>0
    <3>2. sub[i] = block[2 + i - 1]
      BY <2>5, <3>1
    <3>3. block[2 + i - 1] = file[b + (2 + i - 1)]
      BY <1>6, <3>1
    <3> QED
      BY <1>7, <3>1, <3>2, <3>3
  <2>7. Len(sub) = e - 2 - b
    BY <1>0, <2>5
  <2> QED
    BY <1>7, <2>4, <2>5, <2>6, <2>7, SameItems
<1> QED
  BY <1>2, <1>3, <1>4, <1>5, <1>8, <1>9, <1>10

LEMMA Joined ==
  ASSUME NEW S, NEW s \in Seq(S), NEW t \in Seq(S)
  PROVE  /\ s \o t \in Seq(S) /\ Len(s \o t) = Len(s) + Len(t)
         /\ \A i \in 1..Len(s) : (s \o t)[i] = s[i]
         /\ \A i \in 1..Len(t) : (s \o t)[Len(s) + i] = t[i]
  OBVIOUS

IsJoin(S, whole, s, t) == s \in Seq(S) /\ t \in Seq(S) /\ whole = s \o t

LEMMA JoinItems ==
  ASSUME NEW S, NEW whole, NEW s, NEW t, IsJoin(S, whole, s, t)
  PROVE  /\ whole \in Seq(S) /\ Len(whole) = Len(s) + Len(t)
         /\ \A i \in 1..Len(s) : whole[i] = s[i]
         /\ \A i \in 1..Len(t) : whole[Len(s) + i] = t[i]
  BY Joined DEF IsJoin

\* What reading a file without a block finds.
LEMMA PlainReads ==
  ASSUME NEW file \in Seq(Item), IsPlain(file)
  PROVE  /\ ~HasBlock(file) /\ Block(file) = <<>>
         /\ \A i \in 1..Len(file) : file[i] # Start /\ file[i] # End
<1>1. \A i \in 1..Len(file) : file[i] # Start /\ file[i] # End
  BY TextItems DEF IsPlain
<1>2. Position(file, Start) = 0
  BY <1>1, PositionNone
<1>3. ~HasBlock(file)
  BY <1>2 DEF HasBlock
<1> QED
  BY <1>1, <1>3 DEF Block

LEMMA WrappedItems ==
  ASSUME NEW secs \in Seq(ASection), NEW n \in Nat
  PROVE  /\ Wrapped(secs, n) \in Seq(Item) /\ Len(Wrapped(secs, n)) = Len(secs) + 3
         /\ Wrapped(secs, n)[1] = Start /\ Wrapped(secs, n)[2] = [version |-> n]
         /\ \A i \in 1..Len(secs) : Wrapped(secs, n)[i + 2] = secs[i]
         /\ Wrapped(secs, n)[Len(secs) + 3] = End
<1> PICK top, l : top = <<Start, Version(n)>> /\ l = Len(secs)
  OBVIOUS
<1>1. /\ top \in Seq(Item) /\ Len(top) = 2 /\ top[1] = Start /\ top[2] = [version |-> n]
      /\ <<End>> \in Seq(Item) /\ Len(<<End>>) = 1 /\ l \in Nat
  <2>1. Start \in Item /\ End \in Item
    BY MarkItems
  <2>2. Version(n) = [version |-> n] /\ Version(n) \in Item
    BY DEF Version, Item
  <2> QED
    BY <2>1, <2>2
<1>2. secs \in Seq(Item)
  <2>1. \A i \in 1..Len(secs) : secs[i] \in Item
    <3>1. \A i \in 1..Len(secs) : secs[i] \in ASection
      OBVIOUS
    <3> QED
      BY <3>1, SectionItems
  <2> QED
    BY <2>1, Retyped
<1> PICK up : up = top \o secs
  OBVIOUS
<1>3. /\ up \in Seq(Item) /\ Len(up) = 2 + l /\ up[1] = Start /\ up[2] = [version |-> n]
      /\ \A i \in 1..l : up[2 + i] = secs[i]
  <2>1. /\ up \in Seq(Item) /\ Len(up) = Len(top) + Len(secs)
        /\ \A i \in 1..Len(top) : up[i] = top[i]
        /\ \A i \in 1..Len(secs) : up[Len(top) + i] = secs[i]
    BY <1>1, <1>2, Joined
  <2>2. 1 \in 1..Len(top) /\ 2 \in 1..Len(top)
    BY <1>1
  <2> QED
    BY <1>1, <2>1, <2>2
<1>4. /\ up \o <<End>> \in Seq(Item) /\ Len(up \o <<End>>) = (2 + l) + 1
      /\ \A i \in 1..(2 + l) : (up \o <<End>>)[i] = up[i]
      /\ (up \o <<End>>)[(2 + l) + 1] = End
  BY <1>1, <1>3
<1>5. Wrapped(secs, n) = up \o <<End>>
  BY DEF Wrapped
<1> PICK w : w = up \o <<End>>
  OBVIOUS
<1>6. w \in Seq(Item) /\ Len(w) = l + 3 /\ w[l + 3] = End
  BY <1>1, <1>4
<1>7. w[1] = Start /\ w[2] = [version |-> n]
  BY <1>1, <1>3, <1>4
<1>8. \A i \in 1..l : w[i + 2] = secs[i]
  <2> TAKE i \in 1..l
  <2>1. i + 2 \in 1..(2 + l) /\ i + 2 = 2 + i
    BY <1>1
  <2>2. w[2 + i] = up[2 + i]
    BY <1>4, <2>1
  <2> QED
    BY <1>3, <2>1, <2>2
<1> QED
  BY <1>5, <1>6, <1>7, <1>8

\* A file put together from what stands above a block, the block and what
\* stands below it.
IsBuilt(file, u, secs, n, v) ==
  /\ u \in Seq(Item) /\ \A i \in 1..Len(u) : u[i] \in [text : Texts] \cup {Header}
  /\ v \in Seq(Item) /\ \A i \in 1..Len(v) : v[i] \in [text : Texts]
  /\ secs \in Seq(ASection) /\ Distinct(secs) /\ n \in Nat
  /\ file = u \o Wrapped(secs, n) \o v

\* Where its block is and what stands where.
IsFrame(file, u, secs, v, b, e) ==
  /\ file \in Seq(Item) /\ b \in 1..Len(file) /\ e \in 1..Len(file) /\ b = Len(u) + 1
  /\ IsFramedAt(file, b, e) /\ SubSeq(file, b + 2, e - 1) = secs
  /\ \A i \in 1..(b - 1) : file[i] = u[i]
  /\ Len(file) = e + Len(v) /\ \A i \in 1..Len(v) : file[e + i] = v[i]

IsPlace(b, e, u, secs) == b = Len(u) + 1 /\ e = Len(u) + Len(secs) + 3

LEMMA FrameBuilt ==
  ASSUME NEW file, NEW u, NEW secs, NEW n, NEW v, IsBuilt(file, u, secs, n, v)
  PROVE  \E b, e : IsFrame(file, u, secs, v, b, e)
<1> PICK b, e : IsPlace(b, e, u, secs)
  BY DEF IsPlace
<1>1. /\ u \in Seq(Item) /\ \A i \in 1..Len(u) : u[i] \in [text : Texts] \cup {Header}
      /\ v \in Seq(Item) /\ \A i \in 1..Len(v) : v[i] \in [text : Texts]
      /\ secs \in Seq(ASection) /\ Distinct(secs) /\ n \in Nat
      /\ file = u \o Wrapped(secs, n) \o v
  BY DEF IsBuilt
<1> PICK w : w = Wrapped(secs, n)
  OBVIOUS
<1>w. /\ w \in Seq(Item) /\ Len(w) = Len(secs) + 3 /\ w[1] = Start /\ w[2] = [version |-> n]
      /\ \A i \in 1..Len(secs) : w[i + 2] = secs[i]
      /\ w[Len(secs) + 3] = End
  BY <1>1, WrappedItems
<1>j. PICK uw : IsJoin(Item, uw, u, w)
  BY <1>1, <1>w DEF IsJoin
<1>k. IsJoin(Item, file, uw, v)
  BY <1>1, <1>j DEF IsJoin
<1>a. /\ uw \in Seq(Item) /\ Len(uw) = Len(u) + Len(w)
      /\ \A i \in 1..Len(u) : uw[i] = u[i]
      /\ \A i \in 1..Len(w) : uw[Len(u) + i] = w[i]
  BY <1>j, JoinItems
<1>b. /\ file \in Seq(Item) /\ Len(file) = Len(uw) + Len(v)
      /\ \A i \in 1..Len(uw) : file[i] = uw[i]
      /\ \A i \in 1..Len(v) : file[Len(uw) + i] = v[i]
  BY <1>k, JoinItems
<1>s. PICK sub : IsStretch(Item, sub, file, b + 2, e - 1)
  <2>1. Len(u) \in Nat /\ Len(secs) \in Nat /\ Len(v) \in Nat
    BY <1>1
  <2>2. b = Len(u) + 1 /\ e = Len(u) + Len(secs) + 3 /\ Len(file) = e + Len(v)
    BY <1>a, <1>b, <1>w, <2>1 DEF IsPlace
  <2>3. b + 2 \in Nat \ {0} /\ e - 1 \in 0..Len(file) /\ b + 2 <= (e - 1) + 1
    BY <2>1, <2>2
  <2> QED
    BY <1>b, <2>3 DEF IsStretch
<1>t. /\ sub \in Seq(Item) /\ Len(sub) = (e - 1) + 1 - (b + 2)
      /\ \A i \in 1..((e - 1) + 1 - (b + 2)) : sub[i] = file[(b + 2) + i - 1]
  BY <1>s, StretchItems
<1> PICK ku, kv, l : ku = Len(u) /\ kv = Len(v) /\ l = Len(secs)
  OBVIOUS
<1>2. /\ w \in Seq(Item) /\ Len(w) = l + 3 /\ w[1] = Start /\ w[2] = [version |-> n]
      /\ \A i \in 1..l : w[i + 2] = secs[i]
      /\ w[l + 3] = End
  BY <1>w
<1>3. ku \in Nat /\ kv \in Nat /\ l \in Nat /\ b = ku + 1 /\ e = ku + l + 3
  BY <1>1 DEF IsPlace
<1>4. /\ uw \in Seq(Item) /\ Len(uw) = e
      /\ \A i \in 1..ku : uw[i] = u[i]
      /\ \A i \in 1..(l + 3) : uw[ku + i] = w[i]
  BY <1>2, <1>3, <1>a
<1>5. /\ file \in Seq(Item) /\ Len(file) = e + kv
      /\ \A i \in 1..e : file[i] = uw[i]
      /\ \A i \in 1..kv : file[e + i] = v[i]
  BY <1>4, <1>b
<1>6. b \in 1..Len(file) /\ e \in 1..Len(file) /\ b + 1 < e
  BY <1>3, <1>5
<1>7. \A i \in 1..(b - 1) : file[i] = u[i]
  BY <1>3, <1>4, <1>5
<1>8. \A i \in 1..(l + 3) : file[ku + i] = w[i]
  <2> TAKE i \in 1..(l + 3)
  <2>1. ku + i \in 1..e
    BY <1>3
  <2> QED
    BY <1>4, <1>5, <2>1
<1>9. file[b] = Start /\ file[b + 1] = [version |-> n] /\ file[e] = End
  <2>1. 1 \in 1..(l + 3) /\ 2 \in 1..(l + 3) /\ l + 3 \in 1..(l + 3)
    BY <1>3
  <2>2. file[ku + 1] = w[1] /\ file[ku + 2] = w[2] /\ file[ku + (l + 3)] = w[l + 3]
    BY <1>8, <2>1
  <2>3. ku + 1 = b /\ ku + 2 = b + 1 /\ ku + (l + 3) = e
    BY <1>3
  <2> QED
    BY <1>2, <2>2, <2>3
<1>10. \A i \in 1..l : file[b + 1 + i] = secs[i]
  <2> TAKE i \in 1..l
  <2>1. i + 2 \in 1..(l + 3) /\ ku + (i + 2) = b + 1 + i
    BY <1>3
  <2>2. file[ku + (i + 2)] = w[i + 2] /\ w[i + 2] = secs[i]
    BY <1>2, <1>8, <2>1
  <2> QED
    BY <2>1, <2>2
<1>11. /\ sub \in Seq(Item) /\ Len(sub) = l
       /\ \A i \in 1..l : sub[i] = file[b + 1 + i]
  <2>3. (e - 1) + 1 - (b + 2) = l /\ \A i \in Int : (b + 2) + i - 1 = b + 1 + i
    BY <1>3
  <2>4. \A i \in 1..l : sub[i] = file[b + 1 + i]
    <3> TAKE i \in 1..l
    <3>1. sub[i] = file[(b + 2) + i - 1] /\ (b + 2) + i - 1 = b + 1 + i
      BY <1>3, <1>t, <2>3
    <3> QED
      BY <3>1
  <2> QED
    BY <1>t, <2>3, <2>4
<1>12. sub = secs
  <2>1. \A i \in 1..Len(sub) : sub[i] = secs[i]
    <3> TAKE i \in 1..Len(sub)
    <3>1. i \in 1..l
      BY <1>11
    <3>2. sub[i] = file[b + 1 + i] /\ file[b + 1 + i] = secs[i]
      BY <1>10, <1>11, <3>1
    <3> QED
      BY <3>2
  <2>2. \A i \in 1..Len(sub) : sub[i] \in ASection
    <3>1. \A i \in 1..l : secs[i] \in ASection
      BY <1>1
    <3> QED
      BY <1>11, <2>1, <3>1
  <2>3. sub \in Seq(ASection)
    BY <1>11, <2>2, Retyped
  <2> QED
    BY <1>1, <1>11, <2>1, <2>3, SameItems
<1>13. IsFramedAt(file, b, e)
  <2>1. \A i \in 1..(b - 1) : file[i] \in [text : Texts] \cup {Header}
    BY <1>1, <1>3, <1>7
  <2>2. \A i \in (b + 2)..(e - 1) : file[i] \in ASection
    <3> TAKE i \in (b + 2)..(e - 1)
    <3>1. i - b - 1 \in 1..l /\ b + 1 + (i - b - 1) = i
      BY <1>3
    <3>2. secs[i - b - 1] \in ASection
      BY <1>1, <3>1
    <3> QED
      BY <1>10, <3>1, <3>2
  <2>3. \A i \in (e + 1)..Len(file) : file[i] \in [text : Texts]
    <3> TAKE i \in (e + 1)..Len(file)
    <3>1. i - e \in 1..kv /\ e + (i - e) = i
      BY <1>3, <1>5
    <3>2. v[i - e] \in [text : Texts]
      BY <1>1, <3>1
    <3> QED
      BY <1>5, <3>1, <3>2
  <2>4. Distinct(SubSeq(file, b + 2, e - 1))
    BY <1>1, <1>12, <1>s DEF IsStretch
  <2>5. [version |-> n] \in [version : Nat]
    BY <1>1
  <2> QED
    BY <1>6, <1>9, <2>1, <2>2, <2>3, <2>4, <2>5 DEF IsFramedAt
<1>14. IsFrame(file, u, secs, v, b, e)
  <2>1. SubSeq(file, b + 2, e - 1) = secs
    BY <1>12, <1>s DEF IsStretch
  <2>2. b = Len(u) + 1 /\ Len(file) = e + Len(v) /\ \A i \in 1..Len(v) : file[e + i] = v[i]
    BY <1>3, <1>5
  <2>3. file \in Seq(Item) /\ b \in 1..Len(file) /\ e \in 1..Len(file)
    BY <1>5, <1>6
  <2> QED
    BY <1>7, <1>13, <2>1, <2>2, <2>3 DEF IsFrame
<1> QED
  BY <1>14

-----------------------------------------------------------------------------
(* What a file says, and the texts in it.                                  *)

\* The part of Says that is about the sections alone.
Tells(has, sections) ==
  /\ Len(has) = Len(sections) /\ Ids(has) = Ids(sections)
  /\ \A i \in DOMAIN has :
       LET said == Of(sections, has[i].adr).says
       IN  has[i].says = said \/ <<has[i].says, said>> \in Similar

LEMMA FramedSays ==
  ASSUME NEW file \in Seq(Item), NEW b \in 1..Len(file), NEW e \in 1..Len(file),
         IsFramedAt(file, b, e), NEW sections
  PROVE  Says(file, sections) <=> Tells(SubSeq(file, b + 2, e - 1), sections)
<1>1. HasBlock(file) /\ Sections(file) = SubSeq(file, b + 2, e - 1)
  BY FramedReads
<1>2. \A m \in {Start, End} : Cardinality({i \in DOMAIN file : file[i] = m}) = 1
  <2>1. \A i \in DOMAIN file : (file[i] = Start <=> i = b) /\ (file[i] = End <=> i = e)
    BY FramedItems
  <2>2. b \in DOMAIN file /\ e \in DOMAIN file
    OBVIOUS
  <2>3. Cardinality({i \in DOMAIN file : file[i] = Start}) = 1
    BY <2>1, <2>2, OnceIsOne
  <2>4. Cardinality({i \in DOMAIN file : file[i] = End}) = 1
    BY <2>1, <2>2, OnceIsOne
  <2> QED
    BY <2>3, <2>4
<1> QED
  BY <1>1, <1>2 DEF Says, Tells

\* A file that says something has a block.
LEMMA WhatSaysIsFramed ==
  ASSUME NEW file \in Seq(Item), IsPlain(file) \/ IsFramed(file), HasBlock(file)
  PROVE  \E b, e \in 1..Len(file) : IsFramedAt(file, b, e)
<1>1. ~IsPlain(file)
  BY PlainReads
<1> QED
  BY <1>1 DEF IsFramed

\* Texts that stay where they are above a block and below it.
SameAround(file, b, e, new, d) ==
  /\ b \in 1..Len(file) /\ e \in 1..Len(file) /\ IsFramedAt(file, b, e)
  /\ b \in 1..Len(new) /\ d \in 1..Len(new) /\ IsFramedAt(new, b, d)
  /\ \A i \in 1..(b - 1) : new[i] = file[i]
  /\ Len(new) - d = Len(file) - e
  /\ \A i \in 1..(Len(file) - e) : new[d + i] = file[e + i]

\* An item of a framed file that is a text is above or below the block.
LEMMA TextsAreAround ==
  ASSUME NEW file \in Seq(Item), NEW b \in 1..Len(file), NEW e \in 1..Len(file),
         IsFramedAt(file, b, e), NEW i \in 1..Len(file), NEW t \in Texts, file[i] = Text(t)
  PROVE  b < e /\ (i < b \/ e < i)
<1>0. b \in Nat /\ e \in Nat /\ b + 1 < e /\ i \in Nat
  BY DEF IsFramedAt
<1>1. file[i] \in [text : Texts]
  BY DEF Text
<1>2. i # b /\ i # e
  BY <1>1, TextItems DEF IsFramedAt
<1>3. i # b + 1
  BY <1>1, VersionItems DEF IsFramedAt
<1>4. i \notin (b + 2)..(e - 1)
  BY <1>1, SectionItems DEF IsFramedAt
<1> QED
  BY <1>0, <1>2, <1>3, <1>4

LEMMA OnceStays ==
  ASSUME NEW file \in Seq(Item), NEW new \in Seq(Item), NEW b, NEW e, NEW d,
         SameAround(file, b, e, new, d), NEW t \in Texts, Once(file, t)
  PROVE  Once(new, t)
<1>1. /\ b \in 1..Len(file) /\ e \in 1..Len(file) /\ IsFramedAt(file, b, e)
      /\ b \in 1..Len(new) /\ d \in 1..Len(new) /\ IsFramedAt(new, b, d)
      /\ \A i \in 1..(b - 1) : new[i] = file[i]
      /\ Len(new) - d = Len(file) - e
      /\ \A i \in 1..(Len(file) - e) : new[d + i] = file[e + i]
  BY DEF SameAround
<1> PICK L, M : L = Len(file) /\ M = Len(new)
  OBVIOUS
<1>2. /\ b \in Nat /\ e \in Nat /\ d \in Nat /\ L \in Nat /\ M \in Nat
      /\ 1 <= b /\ b < e /\ b < d /\ e <= L /\ d <= M /\ M - d = L - e
  BY <1>1 DEF IsFramedAt
<1>3. PICK i \in 1..L : \A j \in 1..L : file[j] = Text(t) <=> j = i
  BY DEF Once
<1>4. i < b \/ e < i
  BY <1>1, <1>3, TextsAreAround
<1>5. ASSUME NEW j \in 1..M, new[j] = Text(t)
      PROVE  j < b \/ d < j
  BY <1>1, <1>5, TextsAreAround
<1>6. CASE i < b
  <2>1. ASSUME NEW j \in 1..M
        PROVE  new[j] = Text(t) <=> j = i
    <3>1. CASE j < b
      <4>1. j \in 1..(b - 1) /\ j \in 1..L
        BY <1>2, <3>1
      <4> QED
        BY <1>1, <1>3, <4>1
    <3>2. CASE d < j
      <4>1. j - d \in 1..(L - e) /\ d + (j - d) = j /\ e + (j - d) \in 1..L /\ e + (j - d) # i
        BY <1>2, <1>6, <3>2
      <4>2. new[j] = file[e + (j - d)]
        BY <1>1, <4>1
      <4> QED
        BY <1>2, <1>3, <1>6, <3>2, <4>1, <4>2
    <3>3. CASE ~(j < b) /\ ~(d < j)
      BY <1>5, <1>6, <3>3
    <3> QED
      BY <3>1, <3>2, <3>3
  <2>2. i \in 1..M
    BY <1>2, <1>6
  <2> QED
    BY <2>1, <2>2 DEF Once
<1>7. CASE e < i
  <2> PICK k : k = d + (i - e)
    OBVIOUS
  <2>1. k \in 1..M /\ d < k
    BY <1>2, <1>7
  <2>2. ASSUME NEW j \in 1..M
        PROVE  new[j] = Text(t) <=> j = k
    <3>1. CASE j < b
      <4>1. j \in 1..(b - 1) /\ j \in 1..L /\ j # i
        BY <1>2, <1>7, <3>1
      <4>2. new[j] # Text(t)
        BY <1>1, <1>3, <4>1
      <4> QED
        BY <1>2, <2>1, <3>1, <4>2
    <3>2. CASE d < j
      <4>1. j - d \in 1..(L - e) /\ d + (j - d) = j /\ e + (j - d) \in 1..L
        BY <1>2, <3>2
      <4>2. new[j] = file[e + (j - d)]
        BY <1>1, <4>1
      <4>3. new[j] = Text(t) <=> e + (j - d) = i
        BY <1>3, <4>1, <4>2
      <4>4. e + (j - d) = i <=> j = k
        BY <1>2
      <4> QED
        BY <4>3, <4>4
    <3>3. CASE ~(j < b) /\ ~(d < j)
      BY <1>5, <2>1, <3>3
    <3> QED
      BY <3>1, <3>2, <3>3
  <2> QED
    BY <2>1, <2>2 DEF Once
<1> QED
  BY <1>4, <1>6, <1>7

\* A block below the text of a file that had none.
LEMMA OnceAbove ==
  ASSUME NEW file \in Seq(Item), NEW new \in Seq(Item), NEW b \in 1..Len(new),
         NEW e \in 1..Len(new), IsFramedAt(new, b, e), b = Len(file) + 1, e = Len(new),
         \A i \in 1..(b - 1) : new[i] = file[i], NEW t \in Texts, Once(file, t)
  PROVE  Once(new, t)
<1>2. b \in Nat /\ e \in Nat /\ Len(file) \in Nat /\ Len(new) \in Nat /\ b < e
  BY DEF IsFramedAt
<1>3. PICK i \in 1..Len(file) : \A j \in 1..Len(file) : file[j] = Text(t) <=> j = i
  BY DEF Once
<1>4. ASSUME NEW j \in 1..Len(new)
      PROVE  new[j] = Text(t) <=> j = i
  <2>1. CASE j < b
    <3>1. j \in 1..(b - 1) /\ j \in 1..Len(file)
      BY <1>2, <2>1
    <3> QED
      BY <1>3, <3>1
  <2>2. CASE ~(j < b)
    <3>1. new[j] # Text(t)
      <4> SUFFICES ASSUME new[j] = Text(t)
                   PROVE  FALSE
        OBVIOUS
      <4>1. j < b \/ e < j
        BY TextsAreAround
      <4> QED
        BY <1>2, <2>2, <4>1
    <3>2. j # i
      BY <1>2, <1>3, <2>2
    <3> QED
      BY <3>1, <3>2
  <2> QED
    BY <2>1, <2>2
<1>5. i \in 1..Len(new)
  BY <1>2, <1>3
<1>6. \E k \in 1..Len(new) : \A j \in 1..Len(new) : new[j] = Text(t) <=> j = k
  BY <1>4, <1>5
<1> QED
  BY <1>6 DEF Once

-----------------------------------------------------------------------------
(* The author adds a text.                                                 *)

\* The file new is the file with the text t at h, its items moved by k.
IsTyped(file, new, k, h, t) ==
  /\ new \in Seq(Item) /\ Len(new) = Len(file) + 1
  /\ (k = 1 /\ h = 1) \/ (k = 0 /\ h = Len(file) + 1)
  /\ new[h] = Text(t)
  /\ \A i \in 1..Len(file) : new[k + i] = file[i]

LEMMA SurroundingIsTyped ==
  ASSUME NEW file \in Seq(Item), NEW t \in Texts, NEW new \in Surrounding(file, t)
  PROVE  \E k, h : IsTyped(file, new, k, h, t)
<1> PICK x : x = Text(t)
  OBVIOUS
<1>0. x \in Item
  BY DEF Text, Item
<1>1. CASE new = Append(file, x)
  <2>1. IsTyped(file, new, 0, Len(file) + 1, t)
    BY <1>0, <1>1 DEF IsTyped
  <2> QED
    BY <2>1
<1>2. CASE new = <<x>> \o file
  <2>1. <<x>> \in Seq(Item) /\ Len(<<x>>) = 1 /\ <<x>>[1] = x
    BY <1>0
  <2>2. /\ new \in Seq(Item) /\ Len(new) = 1 + Len(file) /\ new[1] = x
        /\ \A i \in 1..Len(file) : new[1 + i] = file[i]
    BY <1>2, <2>1
  <2>3. IsTyped(file, new, 1, 1, t)
    BY <2>2 DEF IsTyped
  <2> QED
    BY <2>3
<1> QED
  BY <1>1, <1>2 DEF Surrounding

LEMMA TypedItems ==
  ASSUME NEW file \in Seq(Item), NEW new, NEW k, NEW h, NEW t \in Texts,
         IsTyped(file, new, k, h, t)
  PROVE  /\ k \in {0, 1} /\ h \in 1..Len(new) /\ new \in Seq(Item) /\ Len(new) = Len(file) + 1
         /\ (k = 1 /\ h = 1) \/ (k = 0 /\ h = Len(file) + 1)
         /\ new[h] = Text(t) /\ Text(t) \in [text : Texts]
         /\ \A j \in 1..Len(new) : j # h => j - k \in 1..Len(file) /\ new[j] = file[j - k]
         /\ \A i \in 1..Len(file) : k + i \in 1..Len(new) /\ k + i # h /\ new[k + i] = file[i]
<1>1. /\ new \in Seq(Item) /\ Len(new) = Len(file) + 1
      /\ (k = 1 /\ h = 1) \/ (k = 0 /\ h = Len(file) + 1)
      /\ new[h] = Text(t)
      /\ \A i \in 1..Len(file) : new[k + i] = file[i]
  BY DEF IsTyped
<1>2. Text(t) \in [text : Texts]
  BY DEF Text
<1>3. k \in {0, 1} /\ h \in 1..Len(new)
  BY <1>1
<1>4. \A i \in 1..Len(file) : k + i \in 1..Len(new) /\ k + i # h
  BY <1>1
<1>5. ASSUME NEW j \in 1..Len(new), j # h
      PROVE  j - k \in 1..Len(file) /\ new[j] = file[j - k]
  <2>1. j - k \in 1..Len(file) /\ k + (j - k) = j
    BY <1>1, <1>5
  <2>2. new[k + (j - k)] = file[j - k]
    BY <1>1, <2>1
  <2> QED
    BY <2>1, <2>2
<1> QED
  BY <1>1, <1>2, <1>3, <1>4, <1>5

LEMMA TypedPlain ==
  ASSUME NEW file \in Seq(Item), NEW new, NEW k, NEW h, NEW t \in Texts,
         IsTyped(file, new, k, h, t), IsPlain(file)
  PROVE  IsPlain(new)
<1>1. new \in Seq(Item)
  BY TypedItems
<1> SUFFICES ASSUME NEW j \in 1..Len(new)
             PROVE  new[j] \in [text : Texts]
  BY <1>1 DEF IsPlain
<1>2. CASE j = h
  BY <1>2, TypedItems
<1>3. CASE j # h
  <2>1. j - k \in 1..Len(file) /\ new[j] = file[j - k]
    BY <1>3, TypedItems
  <2> QED
    BY <2>1 DEF IsPlain
<1> QED
  BY <1>2, <1>3

LEMMA TypedFrame ==
  ASSUME NEW file \in Seq(Item), NEW new, NEW k, NEW h, NEW t \in Texts,
         IsTyped(file, new, k, h, t),
         NEW b \in 1..Len(file), NEW e \in 1..Len(file), IsFramedAt(file, b, e)
  PROVE  /\ b + k \in 1..Len(new) /\ e + k \in 1..Len(new) /\ IsFramedAt(new, b + k, e + k)
         /\ SubSeq(new, b + k + 2, (e + k) - 1) = SubSeq(file, b + 2, e - 1)
<1>0. /\ k \in {0, 1} /\ h \in 1..Len(new) /\ new \in Seq(Item) /\ Len(new) = Len(file) + 1
      /\ (k = 1 /\ h = 1) \/ (k = 0 /\ h = Len(file) + 1)
      /\ new[h] = Text(t) /\ Text(t) \in [text : Texts]
      /\ \A j \in 1..Len(new) : j # h => j - k \in 1..Len(file) /\ new[j] = file[j - k]
      /\ \A i \in 1..Len(file) : k + i \in 1..Len(new) /\ k + i # h /\ new[k + i] = file[i]
  BY TypedItems
<1> PICK L, M : L = Len(file) /\ M = Len(new)
  OBVIOUS
<1>1. /\ k \in {0, 1} /\ h \in 1..M /\ new \in Seq(Item) /\ M = L + 1 /\ L \in Nat
      /\ (k = 1 /\ h = 1) \/ (k = 0 /\ h = L + 1)
      /\ new[h] = Text(t) /\ Text(t) \in [text : Texts]
      /\ \A j \in 1..M : j # h => j - k \in 1..L /\ new[j] = file[j - k]
      /\ \A i \in 1..L : k + i \in 1..M /\ k + i # h /\ new[k + i] = file[i]
  BY <1>0
<1>2. /\ file[b] = Start /\ file[e] = End
      /\ b + 1 < e /\ file[b + 1] \in [version : Nat]
      /\ \A i \in 1..(b - 1) : file[i] \in [text : Texts] \cup {Header}
      /\ \A i \in (b + 2)..(e - 1) : file[i] \in ASection
      /\ \A i \in (e + 1)..L : file[i] \in [text : Texts]
      /\ Distinct(SubSeq(file, b + 2, e - 1))
  BY DEF IsFramedAt
<1> PICK B, E : B = b + k /\ E = e + k
  OBVIOUS
<1>3. /\ b \in Nat /\ e \in Nat /\ 1 <= b /\ e <= L /\ k \in Nat /\ b + 1 < e
      /\ B \in Nat /\ E \in Nat /\ 1 <= B /\ E <= M /\ B + 1 < E /\ M \in Nat
  <2>1. k \in Nat /\ L \in Nat /\ M = L + 1 /\ k <= 1
    BY <1>1
  <2>2. b \in Nat /\ e \in Nat /\ 1 <= b /\ e <= L
    OBVIOUS
  <2>3. b + 1 < e
    BY <1>2
  <2> QED
    BY <2>1, <2>2, <2>3
<1>4. new[B] = Start /\ new[E] = End /\ new[B + 1] \in [version : Nat]
  <2>1. b \in 1..L /\ e \in 1..L /\ b + 1 \in 1..L
    BY <1>3
  <2>2. new[k + b] = file[b] /\ new[k + e] = file[e] /\ new[k + (b + 1)] = file[b + 1]
    BY <1>1, <2>1
  <2>3. k + b = B /\ k + e = E /\ k + (b + 1) = B + 1
    BY <1>3
  <2> QED
    BY <1>2, <2>2, <2>3
<1>5. ASSUME NEW j \in 1..(B - 1)
      PROVE  new[j] \in [text : Texts] \cup {Header}
  <2>1. CASE j = h
    BY <1>1, <2>1
  <2>2. CASE j # h
    <3>1. j \in 1..M
      BY <1>3
    <3>2. j - k \in 1..L /\ new[j] = file[j - k]
      BY <1>1, <2>2, <3>1
    <3>3. j - k \in 1..(b - 1)
      BY <1>3, <3>2
    <3> QED
      BY <1>2, <3>2, <3>3
  <2> QED
    BY <2>1, <2>2
<1>6. ASSUME NEW j \in (E + 1)..M
      PROVE  new[j] \in [text : Texts]
  <2>1. CASE j = h
    BY <1>1, <2>1
  <2>2. CASE j # h
    <3>1. j \in 1..M
      BY <1>3
    <3>2. j - k \in 1..L /\ new[j] = file[j - k]
      BY <1>1, <2>2, <3>1
    <3>3. j - k \in (e + 1)..L
      BY <1>3, <3>2
    <3> QED
      BY <1>2, <3>2, <3>3
  <2> QED
    BY <2>1, <2>2
<1>7. ASSUME NEW i \in (b + 2)..(e - 1)
      PROVE  new[k + i] = file[i]
  <2>1. i \in 1..L
    BY <1>3
  <2> QED
    BY <1>1, <2>1
<1>8. ASSUME NEW j \in (B + 2)..(E - 1)
      PROVE  new[j] \in ASection
  <2>1. j - k \in (b + 2)..(e - 1) /\ k + (j - k) = j
    BY <1>3
  <2>2. new[k + (j - k)] = file[j - k]
    BY <1>7, <2>1
  <2> QED
    BY <1>2, <2>1, <2>2
<1>12. SubSeq(new, B + 2, E - 1) = SubSeq(file, b + 2, e - 1)
  <2>1. new \in Seq(Item) /\ Len(new) = M
    BY <1>1
  <2>2. b + 2 \in Nat \ {0} /\ e - 1 \in 0..Len(file) /\ b + 2 <= (e - 1) + 1
    BY <1>3
  <2>3. k \in Nat /\ k + (e - 1) <= Len(new)
    BY <1>3, <2>1
  <2>4. SubSeq(new, k + (b + 2), k + (e - 1)) = SubSeq(file, b + 2, e - 1)
    BY <1>7, <2>1, <2>2, <2>3, MovedStretch
  <2>5. k + (b + 2) = B + 2 /\ k + (e - 1) = E - 1
    BY <1>3
  <2> QED
    BY <2>4, <2>5
<1>13. B \in 1..M /\ E \in 1..M
  BY <1>3
<1>14. IsFramedAt(new, B, E)
  <2>1. Distinct(SubSeq(new, B + 2, E - 1))
    <3>1. Distinct(SubSeq(file, b + 2, e - 1))
      BY <1>2
    <3> QED
      BY <1>12, <3>1, Zenon
  <2>2. \A j \in (E + 1)..Len(new) : new[j] \in [text : Texts]
    BY <1>6
  <2> QED
    BY <1>3, <1>4, <1>5, <1>8, <2>1, <2>2 DEF IsFramedAt
<1> QED
  BY <1>12, <1>13, <1>14

LEMMA TypedOnce ==
  ASSUME NEW file \in Seq(Item), NEW new, NEW k, NEW h, NEW t \in Texts,
         IsTyped(file, new, k, h, t), t \notin TextsIn(file)
  PROVE  /\ Once(new, t)
         /\ \A s \in Texts : Once(file, s) => Once(new, s)
<1>0. /\ k \in {0, 1} /\ h \in 1..Len(new) /\ new \in Seq(Item) /\ Len(new) = Len(file) + 1
      /\ (k = 1 /\ h = 1) \/ (k = 0 /\ h = Len(file) + 1)
      /\ new[h] = Text(t) /\ Text(t) \in [text : Texts]
      /\ \A j \in 1..Len(new) : j # h => j - k \in 1..Len(file) /\ new[j] = file[j - k]
      /\ \A i \in 1..Len(file) : k + i \in 1..Len(new) /\ k + i # h /\ new[k + i] = file[i]
  BY TypedItems
<1> PICK L, M : L = Len(file) /\ M = Len(new)
  OBVIOUS
<1>1. /\ k \in {0, 1} /\ h \in 1..M /\ new[h] = Text(t) /\ L \in Nat
      /\ \A j \in 1..M : j # h => j - k \in 1..L /\ new[j] = file[j - k]
      /\ \A i \in 1..L : k + i \in 1..M /\ k + i # h /\ new[k + i] = file[i]
  BY <1>0
<1>2. \A i \in 1..L : file[i] # Text(t)
  <2> SUFFICES ASSUME NEW i \in 1..L, file[i] = Text(t)
               PROVE  FALSE
    OBVIOUS
  <2>1. "text" \in DOMAIN file[i] /\ file[i].text = t
    BY DEF Text
  <2> QED
    BY <2>1 DEF TextsIn
<1>3. Once(new, t)
  <2>1. ASSUME NEW j \in 1..M
        PROVE  new[j] = Text(t) <=> j = h
    <3>1. CASE j = h
      BY <1>1, <3>1
    <3>2. CASE j # h
      BY <1>1, <1>2, <3>2
    <3> QED
      BY <3>1, <3>2
  <2> QED
    BY <1>1, <2>1 DEF Once
<1>4. ASSUME NEW s \in Texts, Once(file, s)
      PROVE  Once(new, s)
  <2>1. PICK i \in 1..L : \A j \in 1..L : file[j] = Text(s) <=> j = i
    BY <1>4 DEF Once
  <2>2. new[h] # Text(s)
    <3>1. Text(s) # Text(t)
      BY <1>2, <2>1
    <3> QED
      BY <1>1, <3>1
  <2>3. ASSUME NEW j \in 1..M
        PROVE  new[j] = Text(s) <=> j = k + i
    <3>1. CASE j = h
      BY <1>1, <2>2, <3>1
    <3>2. CASE j # h
      <4>1. j - k \in 1..L /\ new[j] = file[j - k]
        BY <1>1, <3>2
      <4>2. new[j] = Text(s) <=> j - k = i
        BY <2>1, <4>1
      <4>3. j - k = i <=> j = k + i
        BY <1>1, <2>1
      <4> QED
        BY <4>2, <4>3
    <3> QED
      BY <3>1, <3>2
  <2>4. k + i \in 1..M
    BY <1>1
  <2> QED
    BY <2>3, <2>4 DEF Once
<1> QED
  BY <1>3, <1>4

-----------------------------------------------------------------------------
(* Merging.                                                                *)

LEMMA SectionsTyped ==
  ASSUME NEW items \in Seq(Item)
  PROVE  Sections(items) \in Seq(ASection)
<1> PICK I, part : /\ I = {i \in DOMAIN items : "adr" \in DOMAIN items[i]}
                   /\ part = Sections(items)
  OBVIOUS
<1>1. part \in Seq(Item) /\ IsPart(part, items, I, Len(items))
  BY PickedIsPart DEF Sections
<1>2. \A i \in 1..Len(items) : i \in I => items[i] \in ASection
  <2> SUFFICES ASSUME NEW i \in 1..Len(items), "adr" \in DOMAIN items[i]
               PROVE  items[i] \in ASection
    OBVIOUS
  <2>1. items[i] \in Item
    OBVIOUS
  <2>2. \A x \in [mark : {"start", "end", "header"}] : DOMAIN x = {"mark"}
    OBVIOUS
  <2>3. \A x \in [version : Nat] : DOMAIN x = {"version"}
    OBVIOUS
  <2>4. \A x \in [text : Texts] : DOMAIN x = {"text"}
    OBVIOUS
  <2> QED
    BY <2>1, <2>2, <2>3, <2>4 DEF Item
<1>3. \A j \in 1..Len(part) : \E i \in 1..Len(items) : i \in I /\ part[j] = items[i]
  BY <1>1 DEF IsPart
<1>4. \A j \in 1..Len(part) : part[j] \in ASection
  BY <1>2, <1>3
<1>5. part \in Seq(ASection)
  BY <1>1, <1>4, Retyped
<1> QED
  BY <1>5

\* The wordings that kept sections get.
IsReworded(upd, kept, new) ==
  /\ \A i \in 1..Len(kept) : kept[i].adr \in Ids(new)
  /\ upd = [i \in DOMAIN kept |-> Of(new, kept[i].adr)]

LEMMA Reworded ==
  ASSUME NEW kept \in Seq(ASection), NEW new \in Seq(ASection), NEW upd,
         IsReworded(upd, kept, new)
  PROVE  /\ upd \in Seq(ASection) /\ Len(upd) = Len(kept)
         /\ \A i \in 1..Len(upd) :
              upd[i].adr = kept[i].adr /\ upd[i] = Of(new, upd[i].adr)
<1>0. /\ \A i \in 1..Len(kept) : kept[i].adr \in Ids(new)
      /\ upd = [i \in DOMAIN kept |-> Of(new, kept[i].adr)]
  BY DEF IsReworded
<1>1. \A i \in 1..Len(kept) :
        Of(new, kept[i].adr) \in ASection /\ Of(new, kept[i].adr).adr = kept[i].adr
  <2> TAKE i \in 1..Len(kept)
  <2>0. kept[i].adr \in Ids(new)
    BY <1>0
  <2>1. PICK j \in 1..Len(new) :
          new[j].adr = kept[i].adr /\ Of(new, kept[i].adr) = new[j]
    BY <2>0, OfIsThere
  <2> QED
    BY <2>1
<1>2. DOMAIN kept = 1..Len(kept) /\ Len(kept) \in Nat
  OBVIOUS
<1>3. upd \in Seq(ASection) /\ Len(upd) = Len(kept)
  BY <1>0, <1>1, <1>2
<1>4. \A i \in 1..Len(kept) : upd[i] = Of(new, kept[i].adr)
  BY <1>0, <1>2
<1> QED
  BY <1>1, <1>3, <1>4

\* What MergeSections puts together: rewordings of kept sections and new ones.
IsMerge(m, old, new, kept, added, upd) ==
  /\ m = upd \o added
  /\ kept \in Seq(ASection) /\ added \in Seq(ASection) /\ upd \in Seq(ASection)
  /\ IsPart(kept, old, {i \in DOMAIN old : old[i].adr \in Ids(new)}, Len(old))
  /\ IsPart(added, new, {i \in DOMAIN new : new[i].adr \notin Ids(old)}, Len(new))
  /\ Len(upd) = Len(kept)
  /\ \A i \in 1..Len(upd) : upd[i].adr = kept[i].adr /\ upd[i] = Of(new, upd[i].adr)

\* The sections that stay and those that come.
IsKept(kept, old, new) ==
  /\ kept = Picked(old, {i \in DOMAIN old : old[i].adr \in Ids(new)})
  /\ kept \in Seq(ASection)
  /\ IsPart(kept, old, {i \in DOMAIN old : old[i].adr \in Ids(new)}, Len(old))

IsAdded(added, old, new) ==
  /\ added = Picked(new, {i \in DOMAIN new : new[i].adr \notin Ids(old)})
  /\ added \in Seq(ASection)
  /\ IsPart(added, new, {i \in DOMAIN new : new[i].adr \notin Ids(old)}, Len(new))

LEMMA MergeIs ==
  ASSUME NEW old \in Seq(ASection), NEW new \in Seq(ASection)
  PROVE  \E kept, added, upd : IsMerge(MergeSections(old, new), old, new, kept, added, upd)
<1>1. PICK kept : IsKept(kept, old, new)
  BY PickedIsPart DEF IsKept
<1>2. PICK added : IsAdded(added, old, new)
  BY PickedIsPart DEF IsAdded
<1>3. \A i \in 1..Len(kept) : kept[i].adr \in Ids(new)
  <2> TAKE i \in 1..Len(kept)
  <2>1. PICK j \in 1..Len(old) : /\ j \in {x \in DOMAIN old : old[x].adr \in Ids(new)}
                                 /\ kept[i] = old[j]
    BY <1>1 DEF IsPart, IsKept
  <2> QED
    BY <2>1
<1> PICK upd : IsReworded(upd, kept, new)
  BY <1>3 DEF IsReworded
<1>4. /\ upd \in Seq(ASection) /\ Len(upd) = Len(kept)
      /\ \A i \in 1..Len(upd) : upd[i].adr = kept[i].adr /\ upd[i] = Of(new, upd[i].adr)
  <2>1. kept \in Seq(ASection)
    BY <1>1 DEF IsKept
  <2> QED
    BY <2>1, Reworded
<1>5. MergeSections(old, new) = upd \o added
  BY <1>1, <1>2 DEF MergeSections, IsReworded, IsKept, IsAdded
<1>6. IsMerge(MergeSections(old, new), old, new, kept, added, upd)
  BY <1>1, <1>2, <1>4, <1>5 DEF IsMerge, IsKept, IsAdded
<1> QED
  BY <1>6

LEMMA MergeTyped ==
  ASSUME NEW old \in Seq(ASection), NEW new \in Seq(ASection)
  PROVE  MergeSections(old, new) \in Seq(ASection)
<1>1. PICK kept, added, upd : IsMerge(MergeSections(old, new), old, new, kept, added, upd)
  BY MergeIs
<1>2. upd \in Seq(ASection) /\ added \in Seq(ASection) /\ MergeSections(old, new) = upd \o added
  BY <1>1 DEF IsMerge
<1> QED
  BY <1>2

\* Merged sections are those of the new output, each once, in its words.
LEMMA MergeTells ==
  ASSUME NEW old \in Seq(ASection), NEW new \in Seq(ASection), Distinct(old), Distinct(new)
  PROVE  /\ MergeSections(old, new) \in Seq(ASection) /\ Distinct(MergeSections(old, new))
         /\ Tells(MergeSections(old, new), new)
<1> PICK m : m = MergeSections(old, new)
  OBVIOUS
<1>1. PICK kept, added, upd : IsMerge(m, old, new, kept, added, upd)
  BY MergeIs
<1>i. PICK I : /\ \A i \in 1..Len(old) : i \in I <=> old[i].adr \in Ids(new)
               /\ IsPart(kept, old, I, Len(old))
  <2> DEFINE K == {i \in DOMAIN old : old[i].adr \in Ids(new)}
  <2>1. IsPart(kept, old, K, Len(old)) /\ \A i \in 1..Len(old) : i \in K <=> old[i].adr \in Ids(new)
    BY <1>1 DEF IsMerge
  <2> HIDE DEF K
  <2> QED
    BY <2>1
<1>j. PICK J : /\ \A i \in 1..Len(new) : i \in J <=> new[i].adr \notin Ids(old)
               /\ IsPart(added, new, J, Len(new))
  <2> DEFINE K == {i \in DOMAIN new : new[i].adr \notin Ids(old)}
  <2>1. IsPart(added, new, K, Len(new)) /\ \A i \in 1..Len(new) : i \in K <=> new[i].adr \notin Ids(old)
    BY <1>1 DEF IsMerge
  <2> HIDE DEF K
  <2> QED
    BY <2>1
<1>p. /\ \A j \in 1..Len(kept) : \E i \in 1..Len(old) : i \in I /\ kept[j] = old[i]
      /\ \A i \in 1..Len(old) : i \in I => \E j \in 1..Len(kept) : kept[j] = old[i]
  <2>1. IsPart(kept, old, I, Len(old))
    BY <1>i
  <2> QED
    BY <2>1, PartStays
<1>q. /\ \A j \in 1..Len(added) : \E i \in 1..Len(new) : i \in J /\ added[j] = new[i]
      /\ \A i \in 1..Len(new) : i \in J => \E j \in 1..Len(added) : added[j] = new[i]
  <2>1. IsPart(added, new, J, Len(new))
    BY <1>j
  <2> QED
    BY <2>1, PartStays
<1> PICK l, a : l = Len(upd) /\ a = Len(added)
  OBVIOUS
<1>2. /\ kept \in Seq(ASection) /\ added \in Seq(ASection) /\ upd \in Seq(ASection)
      /\ Len(kept) = l /\ l \in Nat /\ a \in Nat
      /\ \A i \in 1..l : upd[i].adr = kept[i].adr /\ upd[i] = Of(new, upd[i].adr)
  BY <1>1 DEF IsMerge
<1>3. IsPart(kept, old, I, Len(old)) /\ IsPart(added, new, J, Len(new))
  BY <1>i, <1>j
<1>4. /\ m \in Seq(ASection) /\ Len(m) = l + a
      /\ \A i \in 1..l : m[i] = upd[i]
      /\ \A i \in 1..a : m[l + i] = added[i]
  <2>1. m = upd \o added
    BY <1>1 DEF IsMerge
  <2> QED
    BY <1>2, <2>1, Joined
<1>5. /\ \A j \in 1..l : \E i \in 1..Len(old) : i \in I /\ kept[j] = old[i]
      /\ \A i \in 1..Len(old) : i \in I => \E j \in 1..l : kept[j] = old[i]
  BY <1>2, <1>p
<1>6. /\ \A j \in 1..a : \E i \in 1..Len(new) : i \in J /\ added[j] = new[i]
      /\ \A i \in 1..Len(new) : i \in J => \E j \in 1..a : added[j] = new[i]
  BY <1>q
<1>7. Distinct(kept) /\ Distinct(added)
  BY <1>2, <1>3, PartDistinct
<1>8. \A i \in 1..l : /\ m[i].adr \in Ids(new) /\ m[i].adr \in Ids(old)
                      /\ m[i] = Of(new, m[i].adr) /\ m[i].adr = kept[i].adr
  <2> TAKE i \in 1..l
  <2>1. m[i] = upd[i] /\ upd[i].adr = kept[i].adr /\ upd[i] = Of(new, upd[i].adr)
    BY <1>2, <1>4
  <2>2. PICK j \in 1..Len(old) : j \in I /\ kept[i] = old[j]
    BY <1>5
  <2>3. old[j].adr \in Ids(new) /\ old[j].adr \in Ids(old)
    BY <1>i, <2>2 DEF Ids
  <2> QED
    BY <2>1, <2>2, <2>3
<1>9. \A i \in 1..a : /\ m[l + i].adr \in Ids(new) /\ m[l + i].adr \notin Ids(old)
                      /\ m[l + i] = Of(new, m[l + i].adr)
  <2> TAKE i \in 1..a
  <2>1. PICK j \in 1..Len(new) : j \in J /\ added[i] = new[j]
    BY <1>6
  <2>2. new[j].adr \notin Ids(old) /\ new[j].adr \in Ids(new)
    BY <1>j, <2>1 DEF Ids
  <2>3. Of(new, new[j].adr) = new[j]
    BY DistinctOf
  <2>4. m[l + i] = new[j]
    BY <1>4, <2>1
  <2> QED
    BY <2>2, <2>3, <2>4
<1>10. \A i \in 1..(l + a) : i \in 1..l \/ (i - l \in 1..a /\ l + (i - l) = i)
  BY <1>2
<1>11. \A i \in 1..Len(m) : m[i].adr \in Ids(new) /\ m[i] = Of(new, m[i].adr)
  <2> TAKE i \in 1..Len(m)
  <2>1. i \in 1..(l + a)
    BY <1>4
  <2>2. CASE i \in 1..l
    BY <1>8, <2>2
  <2>3. CASE i - l \in 1..a /\ l + (i - l) = i
    <3>1. m[l + (i - l)].adr \in Ids(new) /\ m[l + (i - l)] = Of(new, m[l + (i - l)].adr)
      BY <1>9, <2>3
    <3> QED
      BY <2>3, <3>1
  <2> QED
    BY <1>10, <2>1, <2>2, <2>3
<1>12. Distinct(m)
  <2> SUFFICES ASSUME NEW i \in 1..(l + a), NEW j \in 1..(l + a), m[i].adr = m[j].adr
               PROVE  i = j
    BY <1>4 DEF Distinct
  <2>1. CASE i \in 1..l /\ j \in 1..l
    <3>1. kept[i].adr = kept[j].adr
      BY <1>8, <2>1
    <3> QED
      BY <1>2, <1>7, <2>1, <3>1 DEF Distinct
  <2>2. CASE i - l \in 1..a /\ l + (i - l) = i /\ j - l \in 1..a /\ l + (j - l) = j
    <3>1. m[l + (i - l)] = added[i - l] /\ m[l + (j - l)] = added[j - l]
      BY <1>4, <2>2
    <3>2. added[i - l].adr = added[j - l].adr
      BY <2>2, <3>1
    <3>3. i - l = j - l
      <4>1. DOMAIN added = 1..a
        BY <1>2
      <4>2. \A x, y \in DOMAIN added : added[x].adr = added[y].adr => x = y
        BY <1>7 DEF Distinct
      <4> QED
        BY <2>2, <3>2, <4>1, <4>2
    <3> QED
      BY <2>2, <3>3
  <2>3. ~(i \in 1..l /\ j - l \in 1..a /\ l + (j - l) = j)
    <3> SUFFICES ASSUME i \in 1..l, j - l \in 1..a, l + (j - l) = j
                 PROVE  FALSE
      OBVIOUS
    <3>1. m[l + (j - l)].adr \notin Ids(old)
      BY <1>9
    <3> QED
      BY <1>8, <3>1
  <2>4. ~(j \in 1..l /\ i - l \in 1..a /\ l + (i - l) = i)
    <3> SUFFICES ASSUME j \in 1..l, i - l \in 1..a, l + (i - l) = i
                 PROVE  FALSE
      OBVIOUS
    <3>1. m[l + (i - l)].adr \notin Ids(old)
      BY <1>9
    <3> QED
      BY <1>8, <3>1
  <2> QED
    BY <1>10, <2>1, <2>2, <2>3, <2>4
<1>13. Ids(m) = Ids(new)
  <2>1. \A x \in Ids(m) : x \in Ids(new)
    <3>1. DOMAIN m = 1..Len(m)
      BY <1>4
    <3> QED
      BY <1>11, <3>1 DEF Ids
  <2>2. ASSUME NEW x \in Ids(new)
        PROVE  x \in Ids(m)
    <3>1. CASE x \in Ids(old)
      <4>1. PICK i \in 1..Len(old) : old[i].adr = x
        BY <3>1 DEF Ids
      <4>2. i \in I
        BY <1>i, <4>1
      <4>3. PICK j \in 1..l : kept[j] = old[i]
        BY <1>5, <4>2
      <4>4. m[j].adr = x /\ j \in DOMAIN m
        BY <1>2, <1>4, <1>8, <4>1, <4>3
      <4> QED
        BY <4>4 DEF Ids
    <3>2. CASE x \notin Ids(old)
      <4>1. PICK i \in 1..Len(new) : new[i].adr = x
        BY DEF Ids
      <4>2. i \in J
        BY <1>j, <3>2, <4>1
      <4>3. PICK j \in 1..a : added[j] = new[i]
        BY <1>6, <4>2
      <4>4. m[l + j].adr = x /\ l + j \in DOMAIN m
        BY <1>2, <1>4, <4>1, <4>3
      <4> QED
        BY <4>4 DEF Ids
    <3> QED
      BY <3>1, <3>2
  <2> QED
    BY <2>1, <2>2
<1>14. Len(m) = Len(new)
  BY <1>4, <1>12, <1>13, DistinctLength
<1>15. Tells(m, new)
  <2>1. \A i \in DOMAIN m : m[i].says = Of(new, m[i].adr).says
    BY <1>4, <1>11
  <2> QED
    BY <1>13, <1>14, <2>1 DEF Tells
<1> QED
  BY <1>4, <1>12, <1>15

\* Where an item is, if it is there.
LEMMA PositionThere ==
  ASSUME NEW file \in Seq(Item), NEW x
  PROVE  Position(file, x) \in 0..Len(file)
<1>1. CASE \A i \in 1..Len(file) : file[i] # x
  BY <1>1, PositionNone
<1>2. CASE ~\A i \in 1..Len(file) : file[i] # x
  <2> PICK I : I = {i \in 1..Len(file) : file[i] = x}
    OBVIOUS
  <2>1. I \in SUBSET Nat /\ I # {}
    BY <1>2
  <2>2. PICK b \in I : \A i \in I : b <= i
    BY <2>1, LeastNatural
  <2>3. b \in 1..Len(file) /\ file[b] = x /\ \A i \in 1..Len(file) : file[i] = x => b <= i
    BY <2>2
  <2>4. Position(file, x) = b
    BY <2>3, PositionIs
  <2> QED
    BY <2>3, <2>4
<1> QED
  BY <1>1, <1>2

LEMMA BlockTyped ==
  ASSUME NEW file \in Seq(Item)
  PROVE  Block(file) \in Seq(Item)
<1>1. CASE ~HasBlock(file)
  BY <1>1 DEF Block
<1>2. CASE HasBlock(file)
  <2> PICK p, q : p = Position(file, Start) /\ q = Position(file, End)
    OBVIOUS
  <2>1. p \in 0..Len(file) /\ q \in 0..Len(file) /\ 0 < p /\ p < q
    BY <1>2, PositionThere DEF HasBlock
  <2>2. IsStretch(Item, SubSeq(file, p + 1, q - 1), file, p + 1, q - 1)
    BY <2>1 DEF IsStretch
  <2>3. SubSeq(file, p + 1, q - 1) \in Seq(Item)
    BY <2>2, StretchItems
  <2> QED
    BY <1>2, <2>3 DEF Block
<1> QED
  BY <1>1, <1>2

LEMMA NextVersionIs ==
  ASSUME NEW file \in Seq(Item)
  PROVE  NextVersion(file) \in Nat
<1> PICK where : where = IF HasBlock(file) THEN Block(file) ELSE file
  OBVIOUS
<1>1. where \in Seq(Item)
  BY BlockTyped
<1> PICK I : I = {i \in 1..Len(where) : "version" \in DOMAIN where[i]}
  OBVIOUS
<1> PICK at : at = SelectInSeq(where, LAMBDA i : "version" \in DOMAIN i)
  OBVIOUS
<1>2. NextVersion(file) = IF at = 0 THEN 1 ELSE where[at].version + 1
  BY DEF NextVersion
<1>3. CASE I = {}
  <2>1. at = 0
    BY <1>1, <1>3 DEF SelectInSeq
  <2> QED
    BY <1>2, <2>1
<1>4. CASE I # {}
  <2>1. I \in SUBSET Nat
    BY <1>1
  <2>2. PICK b \in I : \A i \in I : b <= i
    BY <1>4, <2>1, LeastNatural
  <2>3. Min(I) = b
    BY <2>1, <2>2, LeastIs
  <2>4. at = b
    BY <1>1, <1>4, <2>3 DEF SelectInSeq
  <2>5. where[b] \in Item /\ "version" \in DOMAIN where[b]
    BY <1>1, <2>2
  <2>6. where[b] \in [version : Nat]
    <3>1. \A x \in [mark : {"start", "end", "header"}] : DOMAIN x = {"mark"}
      OBVIOUS
    <3>2. \A x \in ASection : DOMAIN x = {"adr", "says"}
      BY DEF ASection
    <3>3. \A x \in [text : Texts] : DOMAIN x = {"text"}
      OBVIOUS
    <3> QED
      BY <2>5, <3>1, <3>2, <3>3 DEF Item
  <2>7. where[b].version \in Nat
    BY <2>6
  <2> QED
    BY <1>2, <2>4, <2>7
<1> QED
  BY <1>3, <1>4

\* The sections that go into the block of a file.
Merged(file, sections) ==
  LET old == Sections(Block(file))
  IN  IF old = <<>> THEN sections ELSE MergeSections(old, sections)

LEMMA MergedTyped ==
  ASSUME NEW file \in Seq(Item), NEW sections \in Seq(ASection)
  PROVE  Merged(file, sections) \in Seq(ASection)
<1> PICK old : old = Sections(Block(file))
  OBVIOUS
<1>1. old \in Seq(ASection)
  BY BlockTyped, SectionsTyped
<1>2. MergeSections(old, sections) \in Seq(ASection)
  BY <1>1, MergeTyped
<1> QED
  BY <1>2 DEF Merged

\* What is above the block of a file and below it.
Above(file) == SubSeq(file, 1, Position(file, Start) - 1)
Below(file) == SubSeq(file, Position(file, End) + 1, Len(file))

LEMMA AroundTyped ==
  ASSUME NEW file \in Seq(Item), HasBlock(file)
  PROVE  Above(file) \in Seq(Item) /\ Below(file) \in Seq(Item)
<1> PICK p, q : p = Position(file, Start) /\ q = Position(file, End)
  OBVIOUS
<1>1. p \in 0..Len(file) /\ q \in 0..Len(file) /\ 0 < p /\ p < q
  BY PositionThere DEF HasBlock
<1>2. IsStretch(Item, SubSeq(file, 1, p - 1), file, 1, p - 1)
  BY <1>1 DEF IsStretch
<1>3. IsStretch(Item, SubSeq(file, q + 1, Len(file)), file, q + 1, Len(file))
  BY <1>1 DEF IsStretch
<1>4. SubSeq(file, 1, p - 1) \in Seq(Item) /\ SubSeq(file, q + 1, Len(file)) \in Seq(Item)
  BY <1>2, <1>3, StretchItems
<1> QED
  BY <1>4 DEF Above, Below

LEMMA MergeContentIs ==
  ASSUME NEW file \in Seq(Item), NEW sections
  PROVE  MergeContent(file, sections) =
           IF HasBlock(file)
           THEN Above(file) \o Wrapped(Merged(file, sections), NextVersion(file)) \o Below(file)
           ELSE file \o Wrapped(sections, NextVersion(file))
  BY DEF MergeContent, Merged, Around, Above, Below

\* Whatever the file, cut short or not, merging makes a sequence of items.
LEMMA MergeContentTyped ==
  ASSUME NEW file \in Seq(Item), NEW sections \in Seq(ASection)
  PROVE  MergeContent(file, sections) \in Seq(Item)
<1> PICK m, n : m = Merged(file, sections) /\ n = NextVersion(file)
  OBVIOUS
<1>1. m \in Seq(ASection) /\ n \in Nat
  BY MergedTyped, NextVersionIs
<1>2. Wrapped(m, n) \in Seq(Item) /\ Wrapped(sections, n) \in Seq(Item)
  BY <1>1, WrappedItems
<1>3. CASE HasBlock(file)
  <2>1. Above(file) \in Seq(Item) /\ Below(file) \in Seq(Item)
    BY <1>3, AroundTyped
  <2>2. Above(file) \o Wrapped(m, n) \o Below(file) \in Seq(Item)
    BY <1>2, <2>1
  <2> QED
    BY <1>3, <2>2, MergeContentIs
<1>4. CASE ~HasBlock(file)
  <2>1. file \o Wrapped(sections, n) \in Seq(Item)
    BY <1>2
  <2> QED
    BY <1>4, <2>1, MergeContentIs
<1> QED
  BY <1>3, <1>4

LEMMA TellsItself ==
  ASSUME NEW sections \in Seq(ASection), Distinct(sections)
  PROVE  Tells(sections, sections)
<1>1. \A i \in DOMAIN sections : sections[i].says = Of(sections, sections[i].adr).says
  BY DistinctOf
<1> QED
  BY <1>1 DEF Tells

LEMMA BuiltSays ==
  ASSUME NEW file, NEW u, NEW secs, NEW n, NEW v, IsBuilt(file, u, secs, n, v),
         NEW sections, Tells(secs, sections)
  PROVE  file \in Seq(Item) /\ IsFramed(file) /\ Says(file, sections)
<1>0. PICK b, e : IsFrame(file, u, secs, v, b, e)
  BY FrameBuilt
<1>1. /\ file \in Seq(Item) /\ b \in 1..Len(file) /\ e \in 1..Len(file)
      /\ IsFramedAt(file, b, e) /\ SubSeq(file, b + 2, e - 1) = secs
  BY <1>0 DEF IsFrame
<1>2. Says(file, sections) <=> Tells(SubSeq(file, b + 2, e - 1), sections)
  BY <1>1, FramedSays
<1>3. Says(file, sections)
  BY <1>1, <1>2
<1>4. IsFramed(file)
  BY <1>1 DEF IsFramed
<1> QED
  BY <1>1, <1>3, <1>4

\* A sync writes into a whole file what it has for it, and keeps the texts.
LEMMA PlainMerge ==
  ASSUME NEW file \in Seq(Item), IsPlain(file), NEW sections \in Seq(ASection), Distinct(sections),
         NEW m, m = MergeContent(file, sections)
  PROVE  /\ m \in Seq(Item) /\ IsFramed(m) /\ Says(m, sections)
         /\ \A t \in Texts : Once(file, t) => Once(m, t)
<1> PICK n : n = NextVersion(file)
  OBVIOUS
<1>0. n \in Nat
  BY NextVersionIs
<1>1. m = file \o Wrapped(sections, n) \o <<>>
  <2>1. m = file \o Wrapped(sections, n)
    BY PlainReads, MergeContentIs
  <2>2. Wrapped(sections, n) \in Seq(Item)
    BY <1>0, WrappedItems
  <2>3. file \o Wrapped(sections, n) \in Seq(Item)
    BY <2>2
  <2> QED
    BY <2>1, <2>3
<1>2. IsBuilt(m, file, sections, n, <<>>)
  <2>1. \A i \in 1..Len(file) : file[i] \in [text : Texts]
    BY DEF IsPlain
  <2>2. <<>> \in Seq(Item) /\ \A i \in 1..Len(<<>>) : <<>>[i] \in [text : Texts]
    OBVIOUS
  <2> QED
    BY <1>0, <1>1, <2>1, <2>2 DEF IsBuilt
<1>3. m \in Seq(Item) /\ IsFramed(m) /\ Says(m, sections)
  BY <1>2, TellsItself, BuiltSays
<1>4. ASSUME NEW t \in Texts, Once(file, t)
      PROVE  Once(m, t)
  <2>0. PICK b, e : IsFrame(m, file, sections, <<>>, b, e)
    BY <1>2, FrameBuilt
  <2>1. /\ b \in 1..Len(m) /\ e \in 1..Len(m) /\ IsFramedAt(m, b, e)
        /\ \A i \in 1..(b - 1) : m[i] = file[i]
        /\ Len(m) = e + Len(<<>>) /\ b = Len(file) + 1
    BY <2>0 DEF IsFrame
  <2>2. e = Len(m)
    BY <2>1
  <2> QED
    BY <1>3, <1>4, <2>1, <2>2, OnceAbove
<1> QED
  BY <1>3, <1>4

LEMMA FramedMerge ==
  ASSUME NEW file \in Seq(Item), NEW b \in 1..Len(file), NEW e \in 1..Len(file),
         IsFramedAt(file, b, e), NEW sections \in Seq(ASection), Distinct(sections),
         NEW m, m = MergeContent(file, sections)
  PROVE  /\ m \in Seq(Item) /\ IsFramed(m) /\ Says(m, sections)
         /\ \A t \in Texts : Once(file, t) => Once(m, t)
<1> PICK n, u, v, secs : /\ n = NextVersion(file) /\ secs = Merged(file, sections)
                         /\ u = Above(file) /\ v = Below(file)
  OBVIOUS
<1>0. n \in Nat /\ secs \in Seq(ASection)
  BY NextVersionIs, MergedTyped
<1>1. /\ Position(file, Start) = b /\ Position(file, End) = e /\ HasBlock(file)
      /\ SubSeq(file, b + 2, e - 1) \in Seq(ASection)
      /\ Sections(Block(file)) = SubSeq(file, b + 2, e - 1)
  BY FramedReads
<1>2. m = u \o Wrapped(secs, n) \o v
  BY <1>1, MergeContentIs
<1>3. Distinct(secs) /\ Tells(secs, sections)
  <2> PICK old : old = Sections(Block(file))
    OBVIOUS
  <2>1. old \in Seq(ASection) /\ Distinct(old)
    BY <1>1 DEF IsFramedAt
  <2>2. CASE old = <<>>
    <3>1. secs = sections
      BY <2>2 DEF Merged
    <3> QED
      BY <3>1, TellsItself
  <2>3. CASE old # <<>>
    <3>1. secs = MergeSections(old, sections)
      BY <2>3 DEF Merged
    <3> QED
      BY <2>1, <3>1, MergeTells
  <2> QED
    BY <2>2, <2>3
<1>4. b \in Nat /\ e \in Nat /\ Len(file) \in Nat /\ b + 1 < e /\ e <= Len(file) /\ 1 <= b
  BY DEF IsFramedAt
<1>5. /\ u \in Seq(Item) /\ Len(u) = b - 1
      /\ \A i \in 1..(b - 1) : u[i] = file[i]
  <2>1. b - 1 \in 0..Len(file)
    BY <1>4
  <2>2. IsTop(u, file, b - 1)
    BY <1>1, <2>1 DEF IsTop, Above
  <2> QED
    BY <2>2, PrefixItems
<1>6. /\ v \in Seq(Item) /\ Len(v) = Len(file) - e
      /\ \A i \in 1..(Len(file) - e) : v[i] = file[e + i]
  <2>0. v = SubSeq(file, e + 1, Len(file))
    BY <1>1 DEF Below
  <2>1. IsStretch(Item, v, file, e + 1, Len(file))
    BY <1>4, <2>0 DEF IsStretch
  <2>2. /\ v \in Seq(Item) /\ Len(v) = Len(file) + 1 - (e + 1)
        /\ \A i \in 1..(Len(file) + 1 - (e + 1)) : v[i] = file[(e + 1) + i - 1]
    BY <2>1, StretchItems
  <2>3. /\ Len(file) + 1 - (e + 1) = Len(file) - e
        /\ \A i \in 1..(Len(file) - e) : (e + 1) + i - 1 = e + i
    BY <1>4
  <2> QED
    BY <2>2, <2>3
<1>7. IsBuilt(m, u, secs, n, v)
  <2>1. \A i \in 1..Len(u) : u[i] \in [text : Texts] \cup {Header}
    BY <1>5 DEF IsFramedAt
  <2>2. \A i \in 1..Len(v) : v[i] \in [text : Texts]
    <3> TAKE i \in 1..Len(v)
    <3>1. v[i] = file[e + i] /\ e + i \in (e + 1)..Len(file)
      BY <1>4, <1>6
    <3> QED
      BY <3>1 DEF IsFramedAt
  <2> QED
    BY <1>0, <1>2, <1>3, <1>5, <1>6, <2>1, <2>2 DEF IsBuilt
<1>8. m \in Seq(Item) /\ IsFramed(m) /\ Says(m, sections)
  BY <1>3, <1>7, BuiltSays
<1>9. ASSUME NEW t \in Texts, Once(file, t)
      PROVE  Once(m, t)
  <2>0. PICK c, d : IsFrame(m, u, secs, v, c, d)
    BY <1>7, FrameBuilt
  <2>1. /\ c \in 1..Len(m) /\ d \in 1..Len(m) /\ IsFramedAt(m, c, d)
        /\ \A i \in 1..(c - 1) : m[i] = u[i]
        /\ Len(m) = d + Len(v) /\ \A i \in 1..Len(v) : m[d + i] = v[i]
        /\ c = Len(u) + 1
    BY <2>0 DEF IsFrame
  <2>2. c = b /\ d \in Nat /\ Len(m) \in Nat
    BY <1>0, <1>4, <1>5, <2>1
  <2>3. \A i \in 1..(b - 1) : m[i] = file[i]
    BY <1>5, <2>1, <2>2
  <2>4. Len(m) - d = Len(file) - e
    BY <1>4, <1>6, <2>1, <2>2
  <2>5. \A i \in 1..(Len(file) - e) : m[d + i] = file[e + i]
    BY <1>6, <2>1
  <2>6. SameAround(file, b, e, m, d)
    BY <2>1, <2>2, <2>3, <2>4, <2>5 DEF SameAround
  <2> QED
    BY <1>8, <1>9, <2>6, OnceStays
<1> QED
  BY <1>8, <1>9

\* A merge into a file with its shape keeps it, says what was merged, and costs
\* the author no text (merge.rs merge_content, merge_adr_sections).
THEOREM MergeWhole ==
  ASSUME NEW file \in Seq(Item), IsPlain(file) \/ IsFramed(file),
         NEW sections \in Seq(ASection), Distinct(sections)
  PROVE  /\ MergeContent(file, sections) \in Seq(Item)
         /\ IsFramed(MergeContent(file, sections)) /\ Says(MergeContent(file, sections), sections)
         /\ \A t \in Texts : Once(file, t) => Once(MergeContent(file, sections), t)
<1>1. CASE IsPlain(file)
  BY <1>1, PlainMerge
<1>2. CASE IsFramed(file)
  <2>1. PICK b \in 1..Len(file), e \in 1..Len(file) : IsFramedAt(file, b, e)
    BY <1>2 DEF IsFramed
  <2> QED
    BY <2>1, FramedMerge
<1> QED
  BY <1>1, <1>2

LEMMA NewFileWhole ==
  ASSUME NEW sections \in Seq(ASection), NEW isRoot \in BOOLEAN
  PROVE  /\ NewFile(sections, isRoot) \in Seq(Item)
         /\ Distinct(sections) => /\ IsFramed(NewFile(sections, isRoot))
                                  /\ Says(NewFile(sections, isRoot), sections)
<1> PICK u, w : u = (IF isRoot THEN <<Header>> ELSE <<>>) /\ w = Wrapped(sections, 1)
  OBVIOUS
<1>1. u \in Seq(Item) /\ \A i \in 1..Len(u) : u[i] \in {Header}
  BY MarkItems
<1>2. w \in Seq(Item)
  BY WrappedItems
<1>3. NewFile(sections, isRoot) = u \o w
  BY DEF NewFile
<1>4. u \o w \in Seq(Item) /\ u \o w = (u \o w) \o <<>>
  BY <1>1, <1>2
<1>5. ASSUME Distinct(sections)
      PROVE  IsFramed(u \o w) /\ Says(u \o w, sections)
  <2>1. <<>> \in Seq(Item) /\ \A i \in 1..Len(<<>>) : <<>>[i] \in [text : Texts]
    OBVIOUS
  <2>2. IsBuilt(u \o w, u, sections, 1, <<>>)
    BY <1>1, <1>4, <1>5, <2>1 DEF IsBuilt
  <2> QED
    BY <1>5, <2>2, TellsItself, BuiltSays
<1> QED
  BY <1>3, <1>4, <1>5

-----------------------------------------------------------------------------
(* Outputs.                                                                *)

SectionsOf(adrs) == Seq([adr : adrs, says : Wording])

LEMMA OutputsAre ==
  ASSUME NEW adrs, NEW output
  PROVE  output \in Outputs(adrs) <=>
           DOMAIN output \subseteq Paths /\ output \in [DOMAIN output -> SectionsOf(adrs)]
<1>1. ASSUME output \in Outputs(adrs)
      PROVE  DOMAIN output \subseteq Paths /\ output \in [DOMAIN output -> SectionsOf(adrs)]
  <2>1. PICK P \in SUBSET Paths : output \in [P -> SectionsOf(adrs)]
    BY <1>1 DEF Outputs, SectionsOf
  <2> QED
    BY <2>1
<1>2. ASSUME DOMAIN output \subseteq Paths, output \in [DOMAIN output -> SectionsOf(adrs)]
      PROVE  output \in Outputs(adrs)
  BY <1>2 DEF Outputs, SectionsOf
<1> QED
  BY <1>1, <1>2

LEMMA OutputAt ==
  ASSUME NEW adrs, NEW output \in Outputs(adrs), NEW p \in DOMAIN output
  PROVE  p \in Paths /\ output[p] \in SectionsOf(adrs)
  BY OutputsAre

LEMMA ItemsAre ==
  ASSUME NEW S, NEW s \in Seq(S)
  PROVE  \A i \in 1..Len(s) : s[i] \in S
  OBVIOUS

LEMMA SectionsGrow ==
  ASSUME NEW adrs, NEW more, adrs \subseteq more, NEW sections \in SectionsOf(adrs)
  PROVE  sections \in SectionsOf(more)
<1>1. sections \in Seq([adr : adrs, says : Wording])
  BY DEF SectionsOf
<1>2. \A i \in 1..Len(sections) : sections[i] \in [adr : adrs, says : Wording]
  BY <1>1, ItemsAre
<1>3. \A x \in [adr : adrs, says : Wording] : x \in [adr : more, says : Wording]
  OBVIOUS
<1>4. \A i \in 1..Len(sections) : sections[i] \in [adr : more, says : Wording]
  BY <1>2, <1>3
<1> QED
  BY <1>1, <1>4, Retyped DEF SectionsOf

LEMMA OutputsGrow ==
  ASSUME NEW adrs, NEW more, adrs \subseteq more, NEW output \in Outputs(adrs)
  PROVE  output \in Outputs(more)
<1>1. DOMAIN output \subseteq Paths /\ output \in [DOMAIN output -> SectionsOf(adrs)]
  BY OutputsAre
<1>2. \A p \in DOMAIN output : output[p] \in SectionsOf(more)
  BY <1>1, SectionsGrow
<1>3. output \in [DOMAIN output -> SectionsOf(more)]
  BY <1>1, <1>2
<1> QED
  BY <1>1, <1>3, OutputsAre

LEMMA AllSections == SectionsOf(Adrs \cup {Governance.adr}) = Seq(ASection)
  BY DEF SectionsOf, ASection

LEMMA AnswersAre ==
  ASSUME NEW output \in Answers
  PROVE  output \in Outputs(Adrs) /\ IsTidy(output)
<1>1. /\ IsTidy(output) /\ DOMAIN output \subseteq Paths
      /\ output \in [DOMAIN output -> SectionsOf(Adrs)]
  BY SyncAssumption DEF SectionsOf
<1> QED
  BY <1>1, OutputsAre

\* The words of an item that has some.
LEMMA WordsTyped ==
  ASSUME NEW x \in Item, DOMAIN x \cap {"adr", "text"} # {}
  PROVE  (IF "adr" \in DOMAIN x THEN x.says ELSE x.text) \in Wording \cup Texts
<1>1. \A y \in [mark : {"start", "end", "header"}] : DOMAIN y = {"mark"}
  OBVIOUS
<1>2. \A y \in [version : Nat] : DOMAIN y = {"version"}
  OBVIOUS
<1>3. CASE x \in ASection
  <2>1. DOMAIN x = {"adr", "says"} /\ x.says \in Wording
    BY <1>3 DEF ASection
  <2> QED
    BY <2>1
<1>4. CASE x \in [text : Texts]
  <2>1. DOMAIN x = {"text"} /\ x.text \in Texts
    BY <1>4
  <2> QED
    BY <2>1
<1> QED
  BY <1>1, <1>2, <1>3, <1>4 DEF Item

\* What tailoring sees of a file.
LEMMA StrippedTyped ==
  ASSUME NEW file \in Seq(Item)
  PROVE  Stripped(file) \in Seq(Wording \cup Texts)
<1> DEFINE I    == {i \in DOMAIN file : DOMAIN file[i] \cap {"adr", "text"} # {}}
           seen == Picked(file, I)
           Shown(x) == IF "adr" \in DOMAIN x THEN x.says ELSE x.text
<1>1. seen \in Seq(Item) /\ IsPart(seen, file, I, Len(file))
  BY PickedIsPart
<1>2. \A i \in I : i \in 1..Len(file) /\ DOMAIN file[i] \cap {"adr", "text"} # {}
  OBVIOUS
<1>3. Stripped(file) = [i \in DOMAIN seen |-> Shown(seen[i])]
  BY DEF Stripped
<1>4. \A x \in Item : DOMAIN x \cap {"adr", "text"} # {} => Shown(x) \in Wording \cup Texts
  BY WordsTyped
<1> HIDE DEF I, seen, Shown
<1>5. ASSUME NEW j \in 1..Len(seen)
      PROVE  Shown(seen[j]) \in Wording \cup Texts
  <2>1. PICK i \in 1..Len(file) : i \in I /\ seen[j] = file[i]
    BY <1>1, PartStays
  <2>2. seen[j] \in Item /\ DOMAIN seen[j] \cap {"adr", "text"} # {}
    BY <1>1, <1>2, <2>1
  <2> QED
    BY <1>4, <2>2
<1>6. DOMAIN seen = 1..Len(seen) /\ Len(seen) \in Nat
  BY <1>1
<1>7. [i \in 1..Len(seen) |-> Shown(seen[i])] \in Seq(Wording \cup Texts)
  BY <1>5, <1>6
<1> QED
  BY <1>3, <1>6, <1>7

LEMMA ExistingTyped ==
  ASSUME files \in [Repos -> [Paths -> Seq(Item) \cup {NoFile}]], NEW r \in Repos, NEW f
  PROVE  Existing(r, f) \in Seen
<1> PICK P : P = {q \in Paths : FormatOf[q] = f /\ files[r][q] # NoFile}
  OBVIOUS
<1>1. \A p \in P : files[r][p] \in Seq(Item)
  OBVIOUS
<1>2. \A p \in P : Stripped(files[r][p]) \in Seq(Wording \cup Texts)
  BY <1>1, StrippedTyped
<1>3. Existing(r, f) = [p \in P |-> Stripped(files[r][p])]
  BY DEF Existing
<1>4. Existing(r, f) \in [P -> Seq(Wording \cup Texts)]
  BY <1>2, <1>3
<1>5. P \in SUBSET Paths
  OBVIOUS
<1> QED
  BY <1>4, <1>5 DEF Seen

LEMMA SequenceOfSet ==
  ASSUME NEW S, IsFiniteSet(S)
  PROVE  /\ SetToSeq(S) \in Seq(S)
         /\ \A i, j \in 1..Len(SetToSeq(S)) : SetToSeq(S)[i] = SetToSeq(S)[j] => i = j
<1> PICK n : n = Cardinality(S)
  OBVIOUS
<1>1. n \in Nat /\ ExistsBijection(1..n, S)
  BY FS_CardinalityType
<1>2. \E f \in [1..n -> S] : IsInjective(f)
  BY <1>1 DEF ExistsBijection, Bijection, Injection
<1>3. SetToSeq(S) \in [1..n -> S] /\ IsInjective(SetToSeq(S))
  BY <1>2 DEF SetToSeq
<1>4. SetToSeq(S) \in Seq(S) /\ DOMAIN SetToSeq(S) = 1..n /\ Len(SetToSeq(S)) = n
  BY <1>1, <1>3
<1> QED
  BY <1>3, <1>4 DEF IsInjective

LEMMA RawOutputIs ==
  ASSUME NEW s, sync[s].adrs \subseteq Adrs, sync[s].format \in Formats
  PROVE  RawOutput(s) \in Outputs(Adrs) /\ IsTidy(RawOutput(s))
<1> DEFINE target == TargetFiles[sync[s].format]
           at(p)  == SetToSeq({a \in Inlined(s) : p \in target[a]})
           secs(p) == [i \in DOMAIN at(p) |-> Section(at(p)[i], Raw[at(p)[i]])]
<1> PICK D : D = UNION {target[a] : a \in Inlined(s)}
  OBVIOUS
<1>1. Inlined(s) \subseteq Adrs /\ Inlined(s) \subseteq Inline /\ IsFiniteSet(Inlined(s))
  <2>1. Inlined(s) \in SUBSET Adrs /\ Inlined(s) \subseteq Inline
    BY DEF Inlined
  <2>2. IsFiniteSet(Adrs)
    BY SyncAssumption
  <2> QED
    BY <2>1, <2>2, FS_Subset
<1>2. D \subseteq Paths
  BY <1>1, SyncAssumption
<1>3. ASSUME NEW p
      PROVE  secs(p) \in SectionsOf(Adrs) /\ Distinct(secs(p))
  <2> PICK S, in : S = {a \in Inlined(s) : p \in target[a]} /\ in = at(p)
    OBVIOUS
  <2>1. IsFiniteSet(S) /\ S \subseteq Inlined(s)
    <3>1. S \in SUBSET Inlined(s)
      OBVIOUS
    <3> QED
      BY <1>1, <3>1, FS_Subset
  <2>2. in \in Seq(S) /\ \A i, j \in 1..Len(in) : in[i] = in[j] => i = j
    BY <2>1, SequenceOfSet
  <2>3. \A i \in 1..Len(in) : in[i] \in Inline /\ in[i] \in Adrs
    BY <1>1, <2>1, <2>2
  <2>4. \A i \in 1..Len(in) : Section(in[i], Raw[in[i]]) \in [adr : Adrs, says : Wording]
    BY <2>3 DEF Section, Wording
  <2>5. secs(p) = [i \in 1..Len(in) |-> Section(in[i], Raw[in[i]])] /\ Len(in) \in Nat
    BY <2>2
  <2>6. secs(p) \in SectionsOf(Adrs)
    <3>1. [i \in 1..Len(in) |-> Section(in[i], Raw[in[i]])] \in Seq([adr : Adrs, says : Wording])
      <4> DEFINE sec(i) == Section(in[i], Raw[in[i]])
      <4>1. Len(in) \in Nat /\ \A i \in 1..Len(in) : sec(i) \in [adr : Adrs, says : Wording]
        BY <2>4, <2>5
      <4> HIDE DEF sec
      <4>2. [i \in 1..Len(in) |-> sec(i)] \in Seq([adr : Adrs, says : Wording])
        BY <4>1
      <4> QED
        BY <4>2 DEF sec
    <3> HIDE DEF secs
    <3> QED
      BY <2>5, <3>1 DEF SectionsOf
  <2>7. Distinct(secs(p))
    <3>1. \A i \in 1..Len(in) : secs(p)[i].adr = in[i]
      BY <2>5 DEF Section
    <3>2. DOMAIN secs(p) = 1..Len(in)
      BY <2>5
    <3> HIDE DEF secs
    <3> QED
      BY <2>2, <3>1, <3>2 DEF Distinct
  <2> QED
    BY <2>6, <2>7
<1>4. RawOutput(s) = [p \in D |-> secs(p)]
  BY DEF RawOutput
<1> HIDE DEF secs
<1> PICK o : o = [p \in D |-> secs(p)]
  OBVIOUS
<1>5. o \in [D -> SectionsOf(Adrs)] /\ DOMAIN o = D
  BY <1>3
<1>6. o \in Outputs(Adrs)
  BY <1>2, <1>5, OutputsAre
<1>7. IsTidy(o)
  BY <1>3 DEF IsTidy
<1> QED
  BY <1>4, <1>6, <1>7

\* The governance pointer is one section more, of none of the ADRs.
LEMMA PointerFirst ==
  ASSUME NEW sections \in SectionsOf(Adrs), Distinct(sections)
  PROVE  /\ <<Governance>> \o sections \in Seq(ASection)
         /\ Distinct(<<Governance>> \o sections)
<1>1. Governance \in ASection
  BY DEF Governance, Section, ASection, Wording
<1>2. sections \in Seq(ASection)
  BY SectionsGrow, AllSections
<1>3. \A i \in 1..Len(sections) : sections[i].adr \in Adrs
  <2>1. sections \in Seq([adr : Adrs, says : Wording])
    BY DEF SectionsOf
  <2>2. \A i \in 1..Len(sections) : sections[i] \in [adr : Adrs, says : Wording]
    BY <2>1, ItemsAre
  <2> QED
    BY <2>2
<1> PICK w : w = <<Governance>> \o sections
  OBVIOUS
<1>4. /\ w \in Seq(ASection) /\ Len(w) = Len(sections) + 1 /\ w[1] = Governance
      /\ \A i \in 2..(Len(sections) + 1) : w[i] = sections[i - 1]
  BY <1>1, <1>2
<1>5. Distinct(w)
  <2>1. \A i \in 2..(Len(sections) + 1) : i - 1 \in 1..Len(sections)
    BY <1>2
  <2>2. \A i \in 2..(Len(sections) + 1) : w[i].adr # Governance.adr
    BY <1>3, <1>4, <2>1, SyncAssumption
  <2> SUFFICES ASSUME NEW i \in 1..(Len(sections) + 1), NEW j \in 1..(Len(sections) + 1),
                      w[i].adr = w[j].adr
               PROVE  i = j
    BY <1>4 DEF Distinct
  <2>3. CASE i = 1 \/ j = 1
    BY <1>2, <1>4, <2>2, <2>3
  <2>4. CASE i # 1 /\ j # 1
    <3>1. i \in 2..(Len(sections) + 1) /\ j \in 2..(Len(sections) + 1)
      BY <1>2, <2>4
    <3>2. sections[i - 1].adr = sections[j - 1].adr
      BY <1>4, <3>1
    <3>3. i - 1 = j - 1
      BY <2>1, <3>1, <3>2 DEF Distinct
    <3> QED
      BY <3>1, <3>3
  <2> QED
    BY <2>3, <2>4
<1> QED
  BY <1>4, <1>5


\* The root file's sections, the pointer first.
LEMMA WithGovernanceIs ==
  ASSUME NEW s, sync[s].adrs \subseteq Adrs, sync[s].format \in Formats,
         NEW output \in Outputs(Adrs), IsTidy(output)
  PROVE  /\ WithGovernance(s, output) \in Outputs(Adrs \cup {Governance.adr})
         /\ IsTidy(WithGovernance(s, output))
<1>1. CASE sync[s].adrs = {}
  <2>1. WithGovernance(s, output) = output
    BY <1>1 DEF WithGovernance
  <2>2. Adrs \subseteq Adrs \cup {Governance.adr}
    OBVIOUS
  <2> QED
    BY <2>1, <2>2, OutputsGrow
<1>2. CASE sync[s].adrs # {}
  <2> DEFINE root   == Root(s)
             secs(p) == IF p \in DOMAIN output THEN output[p] ELSE <<>>
             all(p)  == IF p = root THEN <<Governance>> \o secs(p) ELSE secs(p)
             D       == DOMAIN output \cup {root}
  <2>1. WithGovernance(s, output) = [p \in D |-> all(p)]
    BY <1>2 DEF WithGovernance
  <2>2. D \subseteq Paths
    BY OutputsAre, SyncAssumption DEF Root
  <2>3. ASSUME NEW p \in D
        PROVE  secs(p) \in SectionsOf(Adrs) /\ Distinct(secs(p))
    <3>1. CASE p \in DOMAIN output
      BY <3>1, OutputAt DEF IsTidy
    <3>2. CASE p \notin DOMAIN output
      <4>1. <<>> \in SectionsOf(Adrs) /\ Distinct(<<>>)
        BY DEF SectionsOf, Distinct
      <4> QED
        BY <3>2, <4>1
    <3> QED
      BY <3>1, <3>2
  <2>4. ASSUME NEW p \in D
        PROVE  all(p) \in Seq(ASection) /\ Distinct(all(p))
    <3>1. secs(p) \in SectionsOf(Adrs) /\ Distinct(secs(p))
      BY <2>3
    <3> HIDE DEF secs
    <3>2. <<Governance>> \o secs(p) \in Seq(ASection) /\ Distinct(<<Governance>> \o secs(p))
      BY <3>1, PointerFirst
    <3>3. secs(p) \in Seq(ASection)
      BY <3>1, SectionsGrow, AllSections
    <3> QED
      BY <3>1, <3>2, <3>3
  <2> HIDE DEF secs, all, D
  <2>5. [p \in D |-> all(p)] \in [D -> SectionsOf(Adrs \cup {Governance.adr})]
    BY <2>4, AllSections
  <2>6. [p \in D |-> all(p)] \in Outputs(Adrs \cup {Governance.adr})
    BY <2>2, <2>5, OutputsAre
  <2>7. IsTidy([p \in D |-> all(p)])
    BY <2>4 DEF IsTidy
  <2> QED
    BY <2>1, <2>6, <2>7
<1> QED
  BY <1>1, <1>2

LEMMA WithBudgetIs ==
  ASSUME NEW s, NEW adrs, NEW output \in Outputs(adrs), IsTidy(output)
  PROVE  /\ WithBudget(s, output) \in Outputs(adrs)
         /\ IsTidy(WithBudget(s, output))
         /\ DOMAIN WithBudget(s, output) = DOMAIN output
<1>1. CASE Root(s) \notin DOMAIN output
  BY <1>1 DEF WithBudget
<1>2. CASE Root(s) \in DOMAIN output
  <2> DEFINE within == WithinBudget(output[Root(s)],
                                    ManagedBudget(FileOr(sync[s].repo, Root(s), <<>>)))
             new    == [output EXCEPT ![Root(s)] = within]
  <2>1. WithBudget(s, output) = new
    BY <1>2 DEF WithBudget
  <2>2. output[Root(s)] \in SectionsOf(adrs) /\ Distinct(output[Root(s)])
    BY <1>2, OutputAt DEF IsTidy
  <2>3. /\ within \in SectionsOf(adrs)
        /\ \E I : IsPart(within, output[Root(s)], I, Len(output[Root(s)]))
    BY <2>2, BudgetIsPart DEF SectionsOf
  <2>4. Distinct(within)
    BY <2>2, <2>3, PartDistinct DEF SectionsOf
  <2> HIDE DEF within
  <2>5. DOMAIN output \subseteq Paths /\ output \in [DOMAIN output -> SectionsOf(adrs)]
    BY OutputsAre
  <2>6. new \in [DOMAIN output -> SectionsOf(adrs)] /\ DOMAIN new = DOMAIN output
    BY <2>3, <2>5
  <2>7. new \in Outputs(adrs)
    BY <2>5, <2>6, OutputsAre
  <2>8. \A p \in DOMAIN output : Distinct(output[p])
    BY DEF IsTidy
  <2>9. \A p \in DOMAIN output : Distinct(new[p])
    BY <2>4, <2>5, <2>8
  <2> HIDE DEF new
  <2> QED
    BY <2>1, <2>6, <2>7, <2>9 DEF IsTidy
<1> QED
  BY <1>1, <1>2

Without(output, away) == [p \in {p \in DOMAIN output : p \notin away} |-> output[p]]

LEMMA RestrictedIs ==
  ASSUME NEW adrs, NEW output \in Outputs(adrs), IsTidy(output), NEW away
  PROVE  Without(output, away) \in Outputs(adrs) /\ IsTidy(Without(output, away))
<1> DEFINE D    == {p \in DOMAIN output : p \notin away}
           rest == [p \in D |-> output[p]]
<1>1. DOMAIN output \subseteq Paths /\ output \in [DOMAIN output -> SectionsOf(adrs)]
  BY OutputsAre
<1>2. DOMAIN rest = D /\ D \subseteq Paths /\ rest \in [D -> SectionsOf(adrs)]
  BY <1>1
<1>3. rest \in Outputs(adrs)
  BY <1>2, OutputsAre
<1>4. \A p \in D : Distinct(rest[p])
  BY DEF IsTidy
<1>5. IsTidy(rest)
  BY <1>2, <1>4 DEF IsTidy
<1> QED
  BY <1>3, <1>5 DEF Without

\* A file passed over as needing only minor changes says what it would get.
LEMMA OnlyMinorSays ==
  ASSUME NEW file \in Seq(Item), IsPlain(file) \/ IsFramed(file),
         NEW sections \in Seq(ASection), Distinct(sections),
         OnlyMinorChanges(file, sections)
  PROVE  Says(file, sections)
<1>1. HasBlock(file)
  BY DEF OnlyMinorChanges
<1>2. PICK b \in 1..Len(file), e \in 1..Len(file) : IsFramedAt(file, b, e)
  BY <1>1, WhatSaysIsFramed
<1> DEFINE has == SubSeq(file, b + 2, e - 1)
<1>3. /\ has \in Seq(ASection) /\ Sections(file) = has /\ Sections(Block(file)) = has
  BY <1>2, FramedReads
<1>4. Distinct(has)
  BY <1>2 DEF IsFramedAt
<1> HIDE DEF has
<1>5. Ids(sections) = Ids(has)
  BY <1>3 DEF OnlyMinorChanges
<1>6. Len(has) = Len(sections)
  BY <1>3, <1>4, <1>5, DistinctLength
<1>7. ASSUME NEW i \in DOMAIN has
      PROVE  <<has[i].says, Of(sections, has[i].adr).says>> \in Similar
  <2>0. i \in 1..Len(has)
    BY <1>3
  <2>1. has[i].adr \in Ids(sections)
    BY <1>5 DEF Ids
  <2>2. PICK j \in DOMAIN sections : sections[j].adr = has[i].adr
    BY <2>1 DEF Ids
  <2>3. <<Of(has, sections[j].adr).says, sections[j].says>> \in Similar
    BY <1>3, <2>2 DEF OnlyMinorChanges
  <2>4. Of(has, has[i].adr) = has[i]
    BY <1>3, <1>4, <2>0, DistinctOf
  <2>5. Of(sections, sections[j].adr) = sections[j]
    BY <2>2, DistinctOf
  <2> QED
    BY <2>2, <2>3, <2>4, <2>5
<1>8. Tells(has, sections)
  BY <1>5, <1>6, <1>7 DEF Tells
<1> QED
  BY <1>2, <1>3, <1>8, FramedSays DEF has


-----------------------------------------------------------------------------
(* Steps that leave the files alone.                                       *)

LEMMA EmptyOutput ==
  ASSUME NEW adrs
  PROVE  <<>> \in Outputs(adrs) /\ IsTidy(<<>>) /\ DOMAIN <<>> = {}
<1>1. DOMAIN <<>> = {} /\ <<>> \in [{} -> SectionsOf(adrs)]
  OBVIOUS
<1>2. IsTidy(<<>>)
  BY <1>1 DEF IsTidy
<1> QED
  BY <1>1, <1>2, OutputsAre

LEMMA IdleFits == Idle \in Process /\ HasItsInputs(Idle) /\ Idle.path = Nobody /\ Idle.pc = "idle"
<1>1. <<>> \in Outputs(Adrs \cup {Governance.adr}) /\ IsTidy(<<>>)
  BY EmptyOutput
<1>2. Idle \in Process
  BY <1>1 DEF Idle, Process
<1>3. HasItsInputs(Idle)
  BY <1>1 DEF Idle, HasItsInputs
<1> QED
  BY <1>2, <1>3 DEF Idle

\* What a step of sync s does to the processes.
Becomes(s, q) ==
  /\ sync' \in [Syncs -> Process] /\ sync'[s] = q /\ HasItsInputs(q)
  /\ \A t \in Syncs : t # s => sync'[t] = sync[t]

LEMMA Others ==
  ASSUME TypeOK, NEW s \in Syncs, NEW q, Becomes(s, q)
  PROVE  /\ sync' \in [Syncs -> Process] /\ sync'[s] = q
         /\ \A t \in Syncs : t # s => sync'[t] = sync[t]
  BY DEF TypeOK, Becomes

LEMMA OthersInputs ==
  ASSUME TypeOK, \A t \in Syncs : HasItsInputs(sync[t]), NEW s \in Syncs, NEW q, Becomes(s, q)
  PROVE  \A t \in Syncs : HasItsInputs(sync'[t])
<1> SUFFICES ASSUME NEW t \in Syncs
             PROVE  HasItsInputs(sync'[t])
  OBVIOUS
<1>1. CASE t = s
  BY <1>1, Others DEF Becomes
<1>2. CASE t # s
  BY <1>2, Others
<1> QED
  BY <1>1, <1>2

\* A sync that has no file open does not close one.
LEMMA StaysOpen ==
  ASSUME TypeOK, NEW s \in Syncs, NEW q, Becomes(s, q), sync[s].pc # "fill",
         NEW r, NEW p, Open(r, p)
  PROVE  Open(r, p)'
<1>1. PICK t \in Syncs : At(t, "fill") /\ sync[t].repo = r /\ sync[t].path = p
  BY DEF Open
<1>2. t # s /\ sync'[t] = sync[t]
  BY <1>1, Others DEF At
<1> QED
  BY <1>1, <1>2 DEF Open, At

LEMMA OpenIsLess ==
  ASSUME NEW file, NEW texts, NEW sections, NEW open \in BOOLEAN, NEW now \in BOOLEAN,
         open => now, IsWhole(file, texts, sections, open)
  PROVE  IsWhole(file, texts, sections, now)
  BY DEF IsWhole

LEMMA QuietFiles ==
  ASSUME TypeOK, FilesAreWhole, NEW s \in Syncs, NEW q, Becomes(s, q), sync[s].pc # "fill",
         UNCHANGED <<files, typed, agreed, cut>>
  PROVE  FilesAreWhole'
<1> SUFFICES ASSUME NEW r \in Repos, NEW p \in Paths, p \notin cut'[r]
             PROVE  IsWhole(files'[r][p], typed'[r][p], agreed'[r][p], Open(r, p)')
  BY DEF FilesAreWhole
<1>1. IsWhole(files[r][p], typed[r][p], agreed[r][p], Open(r, p))
  BY DEF FilesAreWhole
<1>2. Open(r, p) => Open(r, p)'
  BY StaysOpen
<1>3. Open(r, p) \in BOOLEAN /\ Open(r, p)' \in BOOLEAN
  BY DEF Open
<1> QED
  BY <1>1, <1>2, <1>3, OpenIsLess

\* What the other syncs are about to write is left as it is.
LEMMA OthersMerged ==
  ASSUME TypeOK, MergedAreWhole, \A t \in Syncs : HasItsInputs(sync[t]),
         NEW s \in Syncs, NEW q, Becomes(s, q),
         q.path = Nobody \/ q.path \in cut'[q.repo] \/ WillBeWhole(q, typed'[q.repo][q.path]),
         UNCHANGED typed, \A r \in Repos : cut[r] \subseteq cut'[r]
  PROVE  MergedAreWhole'
<1> SUFFICES ASSUME NEW t \in Syncs,
                    sync'[t].path # Nobody, sync'[t].path \notin cut'[sync'[t].repo]
             PROVE  WillBeWhole(sync'[t], typed'[sync'[t].repo][sync'[t].path])
  BY DEF MergedAreWhole
<1>1. CASE t = s
  BY <1>1, Others
<1>2. CASE t # s
  <2>1. sync'[t] = sync[t] /\ sync[t].path # Nobody
    BY <1>2, Others
  <2>0. sync[t].repo \in Repos
    BY <2>1 DEF HasItsInputs
  <2>2. sync[t].path \notin cut[sync[t].repo]
    BY <2>0, <2>1
  <2> QED
    BY <2>1, <2>2 DEF MergedAreWhole
<1> QED
  BY <1>1, <1>2

\* A step that only moves sync s on, and the config.
LEMMA QuietStep ==
  ASSUME IInv, NEW s \in Syncs, NEW q, Becomes(s, q), sync[s].pc # "fill",
         q.path = Nobody \/ q.path \in cut[q.repo] \/ WillBeWhole(q, typed[q.repo][q.path]),
         UNCHANGED <<files, rules, history>>, began' \in 0..MaxSyncs,
         config' \in Kept \cup {Nothing}, config' # Nothing => IsTidy(config'.output)
  PROVE  IInv'
<1>1. TypeOK /\ UNCHANGED <<files, rules, typed, agreed, cut>>
  BY DEF IInv, history
<1>2. TypeOK'
  BY <1>1, Others DEF TypeOK
<1>3. \A t \in Syncs : HasItsInputs(sync'[t])
  BY <1>1, OthersInputs DEF IInv
<1>4. MergedAreWhole'
  BY <1>1, OthersMerged DEF IInv
<1>5. FilesAreWhole'
  BY <1>1, QuietFiles DEF IInv
<1> QED
  BY <1>2, <1>3, <1>4, <1>5 DEF IInv


LEMMA ProcessIs ==
  ASSUME IInv, NEW s \in Syncs
  PROVE  TypeOK /\ sync[s] \in Process /\ HasItsInputs(sync[s])
  BY DEF IInv, TypeOK

LEMMA Became ==
  ASSUME IInv, NEW s \in Syncs, NEW q \in Process, HasItsInputs(q),
         sync' = [sync EXCEPT ![s] = q]
  PROVE  Becomes(s, q)
<1>1. sync \in [Syncs -> Process]
  BY DEF IInv, TypeOK
<1> QED
  BY <1>1 DEF Becomes

\* What stays as it is in a step that changes only the processes.
LEMMA ConfigStays ==
  ASSUME IInv, UNCHANGED <<rules, config, began>>
  PROVE  /\ began' \in 0..MaxSyncs /\ config' \in Kept \cup {Nothing}
         /\ config' # Nothing => IsTidy(config'.output)
  BY DEF IInv, TypeOK

\* A process that is done, at whatever point but while it writes.
LEMMA StopStep ==
  ASSUME IInv, NEW s \in Syncs, Stop(s), sync[s].pc # "fill",
         UNCHANGED <<files, rules, config, history, began>>
  PROVE  IInv'
<1>1. Becomes(s, Idle)
  BY IdleFits, Became DEF Stop
<1> QED
  BY <1>1, IdleFits, QuietStep, ConfigStays

LEMMA StartSyncStep ==
  ASSUME IInv, NEW s \in Syncs, StartSync(s)
  PROVE  IInv'
<1>1. PICK r \in Repos, f \in Formats, o \in Options :
        sync' = [sync EXCEPT ![s] = [Idle EXCEPT !.pc = "load", !.repo = r, !.format = f,
                                                 !.options = o]]
  BY DEF StartSync
<1> DEFINE q == [Idle EXCEPT !.pc = "load", !.repo = r, !.format = f, !.options = o]
<1>2. q \in Process /\ sync' = [sync EXCEPT ![s] = q]
  BY <1>1, IdleFits DEF Process
<1>3. /\ q.pc = "load" /\ q.repo = r /\ q.format = f /\ q.options = o /\ q.config = Nothing
      /\ q.output = <<>> /\ q.todo = {} /\ q.path = Nobody
  BY DEF Idle
<1> HIDE DEF q
<1>4. HasItsInputs(q)
  BY <1>3, EmptyOutput DEF HasItsInputs
<1>5. Becomes(s, q)
  BY <1>2, <1>4, Became
<1>6. began' \in 0..MaxSyncs
  BY SyncAssumption DEF IInv, TypeOK, StartSync
<1>7. /\ sync[s].pc # "fill" /\ UNCHANGED <<files, rules, config, history>>
  BY DEF StartSync, At
<1>8. config' \in Kept \cup {Nothing} /\ (config' # Nothing => IsTidy(config'.output))
  BY <1>7 DEF IInv, TypeOK
<1> QED
  BY <1>3, <1>5, <1>6, <1>7, <1>8, QuietStep

LEMMA LoadConfigStep ==
  ASSUME IInv, NEW s \in Syncs, LoadConfig(s)
  PROVE  IInv'
<1>1. At(s, "load") /\ UNCHANGED <<files, rules, config, history, began>>
  BY DEF LoadConfig
<1>2. CASE ~Readable(config)
  <2>1. Stop(s)
    BY <1>2 DEF LoadConfig
  <2> QED
    BY <1>1, <2>1, StopStep DEF At
<1>3. CASE Readable(config)
  <2> DEFINE q == [sync[s] EXCEPT !.pc = "fetch", !.config = config]
  <2>1. sync \in [Syncs -> Process] /\ sync[s] \in Process /\ config \in Kept \cup {Nothing}
    BY ProcessIs DEF TypeOK
  <2>2. sync' = [sync EXCEPT ![s].pc = "fetch", ![s].config = config]
    BY <1>3 DEF LoadConfig
  <2>3. sync' = [sync EXCEPT ![s] = q]
    BY <2>1, <2>2
  <2>4. q \in Process
    BY <2>1 DEF Process
  <2>5. /\ q.pc = "fetch" /\ q.config = config
        /\ q.repo = sync[s].repo /\ q.format = sync[s].format /\ q.options = sync[s].options
        /\ q.output = sync[s].output /\ q.todo = sync[s].todo /\ q.path = sync[s].path
    BY <2>1 DEF Process
  <2> HIDE DEF q
  <2>6. HasItsInputs(q) /\ q.path = Nobody
    BY <1>1, <2>5, ProcessIs DEF HasItsInputs, At, IInv
  <2>7. Becomes(s, q)
    BY <2>3, <2>4, <2>6, Became
  <2> QED
    BY <1>1, <2>6, <2>7, QuietStep, ConfigStays DEF At
<1> QED
  BY <1>2, <1>3

LEMMA DiscoverStep ==
  ASSUME IInv, NEW s \in Syncs, Discover(s)
  PROVE  IInv'
<1>1. At(s, "fetch") /\ UNCHANGED <<files, rules, config, history, began>>
  BY DEF Discover
<1>2. sync' = [sync EXCEPT ![s].seen = Existing(sync[s].repo, sync[s].format)]
  BY DEF Discover
<1> DEFINE seen == Existing(sync[s].repo, sync[s].format)
           q    == [sync[s] EXCEPT !.seen = seen]
<1>3. sync \in [Syncs -> Process] /\ sync[s] \in Process /\ HasItsInputs(sync[s])
  BY ProcessIs DEF TypeOK
<1>4. seen \in Seen
  <2>1. sync[s].repo \in Repos
    BY <1>1, <1>3 DEF HasItsInputs, At
  <2>2. files \in [Repos -> [Paths -> Seq(Item) \cup {NoFile}]]
    BY DEF IInv, TypeOK
  <2> QED
    BY <2>1, <2>2, ExistingTyped
<1>5. sync' = [sync EXCEPT ![s] = q]
  BY <1>2, <1>3
<1> HIDE DEF seen
<1>6. q \in Process
  BY <1>3, <1>4 DEF Process
<1>7. /\ q.pc = "fetch" /\ q.seen = seen /\ q.config = sync[s].config
      /\ q.repo = sync[s].repo /\ q.format = sync[s].format /\ q.options = sync[s].options
      /\ q.output = sync[s].output /\ q.todo = sync[s].todo /\ q.path = sync[s].path
  BY <1>1, <1>3 DEF At, Process
<1> HIDE DEF q
<1>8. HasItsInputs(q) /\ q.path = Nobody
  BY <1>1, <1>3, <1>4, <1>7 DEF HasItsInputs, At
<1>9. Becomes(s, q)
  BY <1>5, <1>6, <1>8, Became
<1> QED
  BY <1>1, <1>8, <1>9, QuietStep, ConfigStays DEF At

LEMMA FetchStep ==
  ASSUME IInv, NEW s \in Syncs, Fetch(s)
  PROVE  IInv'
<1>1. At(s, "fetch") /\ sync[s].seen # Nothing /\ UNCHANGED <<files, rules, config, history, began>>
  BY DEF Fetch
<1>2. PICK offer \in Offers : sync' = [sync EXCEPT ![s].pc = "tailor", ![s].adrs = offer]
  BY DEF Fetch
<1> DEFINE q == [sync[s] EXCEPT !.pc = "tailor", !.adrs = offer]
<1>3. sync \in [Syncs -> Process] /\ sync[s] \in Process /\ HasItsInputs(sync[s])
  BY ProcessIs DEF TypeOK
<1>4. sync[s].seen \in Seen /\ offer \in SUBSET Adrs
  BY <1>1, <1>3, SyncAssumption DEF Process
<1>5. sync' = [sync EXCEPT ![s] = q]
  BY <1>2, <1>3
<1>6. q \in Process
  BY <1>3, <1>4 DEF Process
<1>7. /\ q.pc = "tailor" /\ q.seen = sync[s].seen /\ q.config = sync[s].config
      /\ q.repo = sync[s].repo /\ q.format = sync[s].format /\ q.options = sync[s].options
      /\ q.output = sync[s].output /\ q.todo = sync[s].todo /\ q.path = sync[s].path
  BY <1>3 DEF Process
<1> HIDE DEF q
<1>8. HasItsInputs(q) /\ q.path = Nobody
  BY <1>1, <1>3, <1>4, <1>7 DEF HasItsInputs, At
<1>9. Becomes(s, q)
  BY <1>5, <1>6, <1>8, Became
<1> QED
  BY <1>1, <1>8, <1>9, QuietStep, ConfigStays DEF At

\* An output, kept or new.
LEMMA TailoredBecomes ==
  ASSUME IInv, NEW s \in Syncs, At(s, "tailor"),
         NEW output \in Outputs(Adrs), IsTidy(output), Tailored(s, output)
  PROVE  \E q : Becomes(s, q) /\ q.path = Nobody
<1> DEFINE q == [sync[s] EXCEPT !.pc = "prepare", !.output = output]
<1>1. sync \in [Syncs -> Process] /\ sync[s] \in Process /\ HasItsInputs(sync[s])
  BY ProcessIs DEF TypeOK
<1>2. output \in Outputs(Adrs \cup {Governance.adr})
  <2>1. Adrs \subseteq Adrs \cup {Governance.adr}
    OBVIOUS
  <2> QED
    BY <2>1, OutputsGrow
<1>3. sync' = [sync EXCEPT ![s] = q]
  BY <1>1 DEF Tailored
<1>4. q \in Process
  BY <1>1, <1>2 DEF Process
<1>5. /\ q.pc = "prepare" /\ q.output = output /\ q.config = sync[s].config
      /\ q.repo = sync[s].repo /\ q.format = sync[s].format /\ q.options = sync[s].options
      /\ q.todo = sync[s].todo /\ q.path = sync[s].path
  BY <1>1 DEF Process
<1> HIDE DEF q
<1>6. HasItsInputs(q) /\ q.path = Nobody
  BY <1>1, <1>5 DEF HasItsInputs, At
<1> QED
  BY <1>3, <1>4, <1>6, Became

LEMMA ReuseStep ==
  ASSUME IInv, NEW s \in Syncs, Reuse(s)
  PROVE  IInv'
<1>1. /\ At(s, "tailor") /\ UNCHANGED <<files, rules, config, history, began>>
      /\ Tailored(s, sync[s].config.output) /\ sync[s].config # Nothing
  BY DEF Reuse, Hit
<1>2. sync[s].config.output \in Outputs(Adrs) /\ IsTidy(sync[s].config.output)
  <2>1. sync[s].config \in Kept
    BY <1>1, ProcessIs DEF Process
  <2> QED
    BY <1>1, <2>1, ProcessIs DEF Kept, HasItsInputs
<1>3. PICK q : Becomes(s, q) /\ q.path = Nobody
  BY <1>1, <1>2, TailoredBecomes
<1> QED
  BY <1>1, <1>3, QuietStep, ConfigStays DEF At

LEMMA TailorStep ==
  ASSUME IInv, NEW s \in Syncs, Tailor(s)
  PROVE  IInv'
<1>1. At(s, "tailor") /\ UNCHANGED <<files, rules, history, began>>
  BY DEF Tailor
<1>2. sync[s] \in Process /\ HasItsInputs(sync[s])
  BY ProcessIs
<1>3. /\ sync[s].adrs \subseteq Adrs /\ sync[s].repo \in Repos /\ sync[s].format \in Formats
      /\ sync[s].options.noTailor \in BOOLEAN /\ sync[s].seen \in Seen
  BY <1>1, <1>2, SyncAssumption DEF HasItsInputs, At, Process
<1>4. \E output : /\ output \in Outputs(Adrs) /\ IsTidy(output) /\ Tailored(s, output)
                  /\ config' \in {config, Cached(s, output)}
  <2>1. CASE sync[s].options.noTailor
    <3>1. /\ Tailored(s, RawOutput(s))
          /\ config' \in {config, Cached(s, RawOutput(s))}
      BY <2>1 DEF Tailor
    <3> QED
      BY <1>3, <3>1, RawOutputIs
  <2>2. CASE ~sync[s].options.noTailor
    <3>1. PICK answer \in Answers : /\ Tailored(s, answer)
                                    /\ config' \in {config, Cached(s, answer)}
      BY <2>2 DEF Tailor
    <3> QED
      BY <3>1, AnswersAre
  <2> QED
    BY <2>1, <2>2
<1>5. PICK output : /\ output \in Outputs(Adrs) /\ IsTidy(output) /\ Tailored(s, output)
                    /\ config' \in {config, Cached(s, output)}
  BY <1>4
<1>6. PICK q : Becomes(s, q) /\ q.path = Nobody
  BY <1>1, <1>5, TailoredBecomes
<1>7. Cached(s, output) \in Kept /\ Cached(s, output).output = output
  <2>1. CacheKey(s) \in (SUBSET Adrs) \X BOOLEAN \X Seen
    BY <1>3 DEF CacheKey
  <2> QED
    BY <1>3, <1>5, <2>1 DEF Cached, Kept
<1>8. config' \in Kept \cup {Nothing} /\ (config' # Nothing => IsTidy(config'.output))
  BY <1>5, <1>7 DEF IInv, TypeOK
<1>9. began' \in 0..MaxSyncs /\ sync[s].pc # "fill"
  BY <1>1 DEF IInv, TypeOK, At
<1> QED
  BY <1>1, <1>6, <1>8, <1>9, QuietStep


LEMMA ConfirmStep ==
  ASSUME IInv, NEW s \in Syncs, Confirm(s)
  PROVE  IInv'
<1>1. At(s, "confirm") /\ UNCHANGED <<files, rules, config, history, began>>
  BY DEF Confirm
<1>2. \E chosen \in SUBSET DOMAIN sync[s].output :
        IF chosen = {} THEN Stop(s)
        ELSE sync' = [sync EXCEPT ![s].pc = "write", ![s].todo = chosen]
  BY DEF Confirm
<1>3. CASE Stop(s)
  BY <1>1, <1>3, StopStep DEF At
<1>4. ASSUME NEW chosen \in SUBSET DOMAIN sync[s].output,
             sync' = [sync EXCEPT ![s].pc = "write", ![s].todo = chosen]
      PROVE  IInv'
  <2> DEFINE q == [sync[s] EXCEPT !.pc = "write", !.todo = chosen]
  <2>1. sync \in [Syncs -> Process] /\ sync[s] \in Process /\ HasItsInputs(sync[s])
    BY ProcessIs DEF TypeOK
  <2>2. sync' = [sync EXCEPT ![s] = q]
    BY <1>4, <2>1
  <2>3. DOMAIN sync[s].output \subseteq Paths
    <3>1. sync[s].output \in Outputs(Adrs \cup {Governance.adr})
      BY <2>1 DEF Process
    <3> QED
      BY <3>1, OutputsAre
  <2>4. q \in Process
    BY <2>1, <2>3 DEF Process
  <2>5. /\ q.pc = "write" /\ q.todo = chosen /\ q.config = sync[s].config
        /\ q.repo = sync[s].repo /\ q.format = sync[s].format /\ q.options = sync[s].options
        /\ q.output = sync[s].output /\ q.path = sync[s].path
    BY <2>1 DEF Process
  <2> HIDE DEF q
  <2>6. HasItsInputs(q) /\ q.path = Nobody
    BY <1>1, <2>1, <2>5 DEF HasItsInputs, At
  <2>7. Becomes(s, q)
    BY <2>2, <2>4, <2>6, Became
  <2> QED
    BY <1>1, <2>6, <2>7, QuietStep, ConfigStays DEF At
<1> QED
  BY <1>2, <1>3, <1>4

\* A sync that is done with a file.
LEMMA ProceedBecomes ==
  ASSUME IInv, NEW s \in Syncs, sync[s].pc \in {"truncate", "fill"}, Proceed(s)
  PROVE  \E q : Becomes(s, q) /\ q.path = Nobody /\ q.pc # "fill"
<1>1. CASE sync[s].todo = {}
  <2>1. Becomes(s, Idle)
    BY <1>1, IdleFits, Became DEF Proceed, Stop
  <2> QED
    BY <2>1, IdleFits
<1>2. CASE sync[s].todo # {}
  <2> DEFINE q == [sync[s] EXCEPT !.pc = "write", !.path = Nobody, !.merged = <<>>]
  <2>1. sync \in [Syncs -> Process] /\ sync[s] \in Process /\ HasItsInputs(sync[s])
    BY ProcessIs DEF TypeOK
  <2>2. sync' = [sync EXCEPT ![s] = q]
    BY <1>2, <2>1 DEF Proceed
  <2>3. q \in Process
    <3>1. <<>> \in Seq(Item)
      OBVIOUS
    <3> HIDE DEF Item
    <3> QED
      BY <2>1, <3>1 DEF Process
  <2>4. /\ q.pc = "write" /\ q.path = Nobody /\ q.config = sync[s].config
        /\ q.repo = sync[s].repo /\ q.format = sync[s].format /\ q.options = sync[s].options
        /\ q.output = sync[s].output /\ q.todo = sync[s].todo
    BY <2>1 DEF Process
  <2> HIDE DEF q
  <2>5. HasItsInputs(q)
    BY <2>1, <2>4 DEF HasItsInputs
  <2> QED
    BY <2>2, <2>3, <2>4, <2>5, Became
<1> QED
  BY <1>1, <1>2

LEMMA SkipFileStep ==
  ASSUME IInv, NEW s \in Syncs, SkipFile(s)
  PROVE  IInv'
<1>1. At(s, "truncate") /\ Proceed(s) /\ UNCHANGED <<files, rules, config, history, began>>
  BY DEF SkipFile
<1>2. PICK q : Becomes(s, q) /\ q.path = Nobody
  BY <1>1, ProceedBecomes DEF At
<1> QED
  BY <1>1, <1>2, QuietStep, ConfigStays DEF At

LEMMA ClearCacheStep ==
  ASSUME IInv, ClearCache
  PROVE  IInv'
<1>1. UNCHANGED <<files, rules, sync, typed, agreed, cut, began>> /\ config' = Nothing
  BY DEF ClearCache, history
<1>2. TypeOK' /\ (config' # Nothing => IsTidy(config'.output))
  BY <1>1 DEF IInv, TypeOK
<1>3. MergedAreWhole' /\ \A s \in Syncs : HasItsInputs(sync'[s])
  BY <1>1 DEF IInv, MergedAreWhole
<1>4. FilesAreWhole'
  BY <1>1 DEF IInv, FilesAreWhole, Open, At
<1> QED
  BY <1>2, <1>3, <1>4 DEF IInv

\* The sections a sync has for one of its files.
LEMMA SectionsFor ==
  ASSUME NEW adrs, adrs \subseteq Adrs \cup {Governance.adr},
         NEW output \in Outputs(adrs), IsTidy(output), NEW p \in DOMAIN output
  PROVE  p \in Paths /\ output[p] \in Seq(ASection) /\ Distinct(output[p])
<1>1. p \in Paths /\ output[p] \in SectionsOf(adrs)
  BY OutputAt
<1>2. output[p] \in Seq(ASection)
  BY <1>1, SectionsGrow, AllSections
<1> QED
  BY <1>1, <1>2 DEF IsTidy

LEMMA ReadFileStep ==
  ASSUME IInv, OneWriter', NEW s \in Syncs, ReadFile(s)
  PROVE  IInv'
<1>1. At(s, "write") /\ UNCHANGED <<files, rules, config, history, began>>
  BY DEF ReadFile
<1> DEFINE Merged1(p) ==
             IF files[sync[s].repo][p] = NoFile THEN NewFile(sync[s].output[p], p = Root(s))
             ELSE MergeContent(files[sync[s].repo][p], sync[s].output[p])
<1>2. PICK p \in sync[s].todo :
        sync' = [sync EXCEPT ![s].pc = "truncate", ![s].path = p, ![s].todo = @ \ {p},
                             ![s].merged = Merged1(p)]
  BY DEF ReadFile
<1>3. sync \in [Syncs -> Process] /\ sync[s] \in Process /\ HasItsInputs(sync[s])
  BY ProcessIs DEF TypeOK
<1>4. /\ sync[s].repo \in Repos /\ p \in DOMAIN sync[s].output
      /\ sync[s].output \in Outputs(Adrs \cup {Governance.adr}) /\ IsTidy(sync[s].output)
  BY <1>1, <1>3 DEF HasItsInputs, At, Process
<1>5. /\ p \in Paths /\ sync[s].output[p] \in Seq(ASection) /\ Distinct(sync[s].output[p])
  BY <1>4, SectionsFor
<1>6. files[sync[s].repo][p] \in Seq(Item) \cup {NoFile}
  BY <1>4, <1>5 DEF IInv, TypeOK
<1>7. Merged1(p) \in Seq(Item)
  BY <1>5, <1>6, MergeContentTyped, NewFileWhole
<1> DEFINE q == [sync[s] EXCEPT !.pc = "truncate", !.path = p, !.todo = @ \ {p},
                                !.merged = Merged1(p)]
<1> HIDE DEF Merged1
<1>8. sync' = [sync EXCEPT ![s] = q]
  BY <1>2, <1>3
<1>9. q \in Process
  BY <1>3, <1>5, <1>7 DEF Process
<1>10. /\ q.pc = "truncate" /\ q.path = p /\ q.todo = sync[s].todo \ {p}
       /\ q.merged = Merged1(p) /\ q.config = sync[s].config
       /\ q.repo = sync[s].repo /\ q.format = sync[s].format /\ q.options = sync[s].options
       /\ q.output = sync[s].output
  BY <1>3 DEF Process
<1> HIDE DEF q
<1>11. p # Nobody
  BY <1>5, SyncAssumption
<1>12. HasItsInputs(q)
  BY <1>1, <1>3, <1>4, <1>10, <1>11 DEF HasItsInputs, At
<1>13. Becomes(s, q)
  BY <1>8, <1>9, <1>12, Became
\* Nobody else has the file open.
<1>14. ~Open(sync[s].repo, p)
  <2> SUFFICES ASSUME NEW t \in Syncs,
                      At(t, "fill"), sync[t].repo = sync[s].repo, sync[t].path = p
               PROVE  FALSE
    BY DEF Open
  <2>1. t # s
    BY <1>1 DEF At
  <2>2. sync'[t] = sync[t] /\ sync'[s] = q
    BY <1>13, <2>1 DEF Becomes
  <2>3. \A a, b \in Syncs : a # b /\ sync'[a].path # Nobody =>
          <<sync'[a].repo, sync'[a].path>> # <<sync'[b].repo, sync'[b].path>>
    BY DEF OneWriter
  <2> QED
    BY <1>10, <1>11, <2>1, <2>2, <2>3
<1>15. ASSUME p \notin cut[sync[s].repo]
       PROVE  WillBeWhole(q, typed[q.repo][q.path])
  <2> DEFINE file     == files[sync[s].repo][p]
             texts    == typed[sync[s].repo][p]
             sections == sync[s].output[p]
  <2>1. /\ file # NoFile => IsPlain(file) \/ IsFramed(file)
        /\ texts # {} => file # NoFile
        /\ \A t \in texts : Once(file, t)
    <3>1. IsWhole(file, texts, agreed[sync[s].repo][p], Open(sync[s].repo, p))
      BY <1>4, <1>5, <1>15 DEF IInv, FilesAreWhole
    <3> HIDE DEF file, texts
    <3> QED
      BY <1>14, <3>1 DEF IsWhole
  <2>2. texts \subseteq Texts
    BY <1>4, <1>5 DEF IInv, TypeOK
  <2>3. /\ file \in Seq(Item) \cup {NoFile} /\ sections \in Seq(ASection) /\ Distinct(sections)
        /\ Merged1(p) = IF file = NoFile THEN NewFile(sections, p = Root(s))
                                         ELSE MergeContent(file, sections)
    BY <1>5, <1>6 DEF Merged1
  <2>4. /\ q.merged = Merged1(p) /\ q.output[q.path] = sections
        /\ typed[q.repo][q.path] = texts
    BY <1>10
  <2> HIDE DEF file, texts, sections
  <2>5. CASE file = NoFile
    <3>1. texts = {} /\ Merged1(p) = NewFile(sections, p = Root(s)) /\ (p = Root(s)) \in BOOLEAN
      BY <2>1, <2>3, <2>5
    <3>2. IsFramed(Merged1(p)) /\ Says(Merged1(p), sections)
      BY <2>3, <3>1, NewFileWhole
    <3> QED
      BY <2>4, <3>1, <3>2 DEF WillBeWhole
  <2>6. CASE file # NoFile
    <3>1. file \in Seq(Item) /\ Merged1(p) = MergeContent(file, sections)
      BY <2>3, <2>6
    <3>2. /\ IsFramed(Merged1(p)) /\ Says(Merged1(p), sections)
          /\ \A t \in Texts : Once(file, t) => Once(Merged1(p), t)
      BY <2>1, <2>3, <2>6, <3>1, MergeWhole
    <3> QED
      BY <2>1, <2>2, <2>4, <3>2 DEF WillBeWhole
  <2> QED
    BY <2>5, <2>6
<1> QED
  BY <1>1, <1>10, <1>13, <1>15, QuietStep, ConfigStays DEF At


-----------------------------------------------------------------------------
(* Steps that write a file.                                                *)

LEMMA ElsewhereStaysOpen ==
  ASSUME NEW s \in Syncs, NEW q, Becomes(s, q), NEW r, NEW p,
         r # sync[s].repo \/ p # sync[s].path, Open(r, p)
  PROVE  Open(r, p)'
<1>1. PICK t \in Syncs : At(t, "fill") /\ sync[t].repo = r /\ sync[t].path = p
  BY DEF Open
<1>2. t # s
  BY <1>1
<1>3. sync'[t] = sync[t]
  BY <1>2 DEF Becomes
<1> QED
  BY <1>1, <1>3 DEF Open, At

IsAt(s, r, p) == sync[s].repo = r /\ sync[s].path = p

\* Sync s changes the file it is at, and no other.
LEMMA OneFileStep ==
  ASSUME FilesAreWhole, NEW s \in Syncs, NEW q, Becomes(s, q), UNCHANGED typed,
         NEW R, NEW P, IsAt(s, R, P),
         \A r \in Repos, p \in Paths : r # R \/ p # P =>
           /\ files'[r][p] = files[r][p] /\ agreed'[r][p] = agreed[r][p]
           /\ p \in cut[r] => p \in cut'[r],
         P \in cut'[R] \/ IsWhole(files'[R][P], typed'[R][P], agreed'[R][P], Open(R, P)')
  PROVE  FilesAreWhole'
<1> SUFFICES ASSUME NEW r \in Repos, NEW p \in Paths, p \notin cut'[r]
             PROVE  IsWhole(files'[r][p], typed'[r][p], agreed'[r][p], Open(r, p)')
  BY DEF FilesAreWhole
<1>1. CASE r = R /\ p = P
  BY <1>1
<1>2. CASE r # R \/ p # P
  <2>1. IsWhole(files[r][p], typed[r][p], agreed[r][p], Open(r, p))
    BY <1>2 DEF FilesAreWhole
  <2>2. Open(r, p) => Open(r, p)'
    BY <1>2, ElsewhereStaysOpen DEF IsAt
  <2>3. Open(r, p) \in BOOLEAN /\ Open(r, p)' \in BOOLEAN
    BY DEF Open
  <2>4. files'[r][p] = files[r][p] /\ agreed'[r][p] = agreed[r][p] /\ typed'[r][p] = typed[r][p]
    BY <1>2
  <2> QED
    BY <2>1, <2>2, <2>3, <2>4, OpenIsLess
<1> QED
  BY <1>1, <1>2

\* A sync at a file.
LEMMA AtFile ==
  ASSUME IInv, NEW s \in Syncs, sync[s].pc \in {"truncate", "fill"}
  PROVE  /\ \E r \in Repos, p \in Paths : IsAt(s, r, p)
         /\ sync[s].repo \in Repos /\ sync[s].path \in Paths /\ sync[s].path # Nobody
         /\ sync[s].merged \in Seq(Item)
         /\ sync[s].output[sync[s].path] \in Seq(ASection)
         /\ Distinct(sync[s].output[sync[s].path])
         /\ \/ sync[s].path \in cut[sync[s].repo]
            \/ WillBeWhole(sync[s], typed[sync[s].repo][sync[s].path])
<1>1. sync[s] \in Process /\ HasItsInputs(sync[s])
  BY ProcessIs
<1>2. /\ sync[s].repo \in Repos /\ sync[s].path # Nobody /\ sync[s].path \in DOMAIN sync[s].output
      /\ IsTidy(sync[s].output)
  BY <1>1 DEF HasItsInputs
<1>3. sync[s].merged \in Seq(Item) /\ sync[s].output \in Outputs(Adrs \cup {Governance.adr})
  BY <1>1 DEF Process
<1>4. /\ sync[s].path \in Paths /\ sync[s].output[sync[s].path] \in Seq(ASection)
      /\ Distinct(sync[s].output[sync[s].path])
  BY <1>2, <1>3, SectionsFor
<1>5. \/ sync[s].path \in cut[sync[s].repo]
      \/ WillBeWhole(sync[s], typed[sync[s].repo][sync[s].path])
  BY <1>2 DEF IInv, MergedAreWhole
<1> QED
  BY <1>2, <1>3, <1>4, <1>5 DEF IsAt

LEMMA TruncateStep ==
  ASSUME IInv, NEW s \in Syncs, Truncate(s)
  PROVE  IInv'
<1> DEFINE q == [sync[s] EXCEPT !.pc = "fill"]
<1>0. PICK r \in Repos, p \in Paths : IsAt(s, r, p)
  BY AtFile DEF Truncate, At
<1>1. /\ sync[s].pc = "truncate" /\ UNCHANGED <<rules, config, typed, agreed, cut, began>>
      /\ files' = [files EXCEPT ![r][p] = <<>>] /\ sync' = [sync EXCEPT ![s].pc = "fill"]
  BY <1>0 DEF Truncate, At, history, IsAt
<1>2. sync \in [Syncs -> Process] /\ sync[s] \in Process /\ HasItsInputs(sync[s])
  BY ProcessIs DEF TypeOK
<1>3. q \in Process
  BY <1>2 DEF Process
<1>4. /\ q.pc = "fill" /\ q.path = sync[s].path /\ q.todo = sync[s].todo
      /\ q.merged = sync[s].merged /\ q.config = sync[s].config
      /\ q.repo = sync[s].repo /\ q.format = sync[s].format /\ q.options = sync[s].options
      /\ q.output = sync[s].output
  BY <1>2 DEF Process
<1>5. sync' = [sync EXCEPT ![s] = q]
  BY <1>1, <1>2
<1> HIDE DEF q
<1>6. HasItsInputs(q)
  BY <1>1, <1>2, <1>4 DEF HasItsInputs
<1>7. Becomes(s, q)
  BY <1>3, <1>5, <1>6, Became
<1>8. p \in cut[r] \/ WillBeWhole(sync[s], typed[r][p])
  BY <1>0, <1>1, AtFile DEF IsAt
<1>9. TypeOK'
  <2>1. <<>> \in Seq(Item)
    OBVIOUS
  <2>2. files \in [Repos -> [Paths -> Seq(Item) \cup {NoFile}]]
    BY DEF IInv, TypeOK
  <2>3. files' \in [Repos -> [Paths -> Seq(Item) \cup {NoFile}]]
    BY <1>1, <1>8, <2>1, <2>2
  <2> QED
    BY <1>1, <1>7, <2>3 DEF IInv, TypeOK, Becomes
<1>10. \A t \in Syncs : HasItsInputs(sync'[t])
  BY <1>7, OthersInputs DEF IInv
<1>11. MergedAreWhole'
  <2>1. q.path \in cut'[q.repo] \/ WillBeWhole(q, typed'[q.repo][q.path])
    BY <1>0, <1>1, <1>4, <1>8 DEF WillBeWhole, IsAt
  <2> QED
    BY <1>1, <1>7, <2>1, OthersMerged DEF IInv
<1>12. FilesAreWhole'
  <2>1. Open(r, p)'
    BY <1>0, <1>4, <1>7 DEF Open, At, Becomes, IsAt
  <2>2. files'[r][p] = <<>>
    BY <1>1, <1>8 DEF IInv, TypeOK
  <2>3. p \in cut'[r] \/ IsWhole(files'[r][p], typed'[r][p], agreed'[r][p], Open(r, p)')
    <3>1. SUFFICES ASSUME p \notin cut[r]
                   PROVE  IsWhole(<<>>, typed[r][p], agreed[r][p], TRUE)
      BY <1>1, <2>1, <2>2
    <3>2. IsWhole(files[r][p], typed[r][p], agreed[r][p], Open(r, p))
      BY <1>8, <3>1 DEF IInv, FilesAreWhole
    <3>3. IsPlain(<<>>)
      BY DEF IsPlain
    <3> QED
      BY <3>2, <3>3 DEF IsWhole
  <2>4. \A a \in Repos, b \in Paths : a # r \/ b # p => files'[a][b] = files[a][b]
    BY <1>1 DEF IInv, TypeOK
  <2> QED
    BY <1>0, <1>1, <1>7, <2>3, <2>4, OneFileStep DEF IInv
<1> QED
  BY <1>1, <1>9, <1>10, <1>11, <1>12 DEF IInv

LEMMA FillStep ==
  ASSUME IInv, NEW s \in Syncs, Fill(s)
  PROVE  IInv'
<1>0. PICK r \in Repos, p \in Paths : IsAt(s, r, p)
  BY AtFile DEF Fill, At
<1>1. /\ sync[s].pc = "fill" /\ Proceed(s) /\ UNCHANGED <<rules, config, typed, cut, began>>
      /\ files' = [files EXCEPT ![r][p] = sync[s].merged]
      /\ agreed' = [agreed EXCEPT ![r][p] = sync[s].output[p]]
  BY <1>0 DEF Fill, At, IsAt
<1>2. PICK q : Becomes(s, q) /\ q.path = Nobody
  BY <1>1, ProceedBecomes
<1>3. /\ p \in cut[r] \/ WillBeWhole(sync[s], typed[r][p])
      /\ sync[s].merged \in Seq(Item) /\ sync[s].output[p] \in Seq(ASection)
      /\ Distinct(sync[s].output[p])
  BY <1>0, <1>1, AtFile DEF IsAt
<1>4. /\ files \in [Repos -> [Paths -> Seq(Item) \cup {NoFile}]]
      /\ agreed \in [Repos -> [Paths -> Seq(ASection) \cup {Nothing}]]
  BY DEF IInv, TypeOK
<1>5. TypeOK'
  <2>1. files' \in [Repos -> [Paths -> Seq(Item) \cup {NoFile}]]
    BY <1>1, <1>3, <1>4
  <2>2. agreed' \in [Repos -> [Paths -> Seq(ASection) \cup {Nothing}]]
    BY <1>1, <1>3, <1>4
  <2> QED
    BY <1>1, <1>2, <2>1, <2>2 DEF IInv, TypeOK, Becomes
<1>6. \A t \in Syncs : HasItsInputs(sync'[t])
  BY <1>2, OthersInputs DEF IInv
<1>7. MergedAreWhole'
  BY <1>1, <1>2, OthersMerged DEF IInv
<1>8. FilesAreWhole'
  <2>1. files'[r][p] = sync[s].merged /\ agreed'[r][p] = sync[s].output[p]
    BY <1>1, <1>3, <1>4
  <2>2. p \in cut'[r] \/ IsWhole(files'[r][p], typed'[r][p], agreed'[r][p], Open(r, p)')
    <3>1. SUFFICES ASSUME p \notin cut[r]
                   PROVE  IsWhole(sync[s].merged, typed[r][p], sync[s].output[p], Open(r, p)')
      BY <1>1, <2>1
    <3>2. /\ WillBeWhole(sync[s], typed[r][p]) /\ sync[s].path = p
          /\ sync[s].merged # NoFile
      BY <1>0, <1>3, <3>1, SyncAssumption DEF IsAt
    <3> QED
      BY <1>3, <3>2 DEF WillBeWhole, IsWhole
  <2>3. \A a \in Repos, b \in Paths : a # r \/ b # p =>
          files'[a][b] = files[a][b] /\ agreed'[a][b] = agreed[a][b]
    BY <1>1, <1>4
  <2> QED
    BY <1>0, <1>1, <1>2, <2>2, <2>3, OneFileStep DEF IInv
<1> QED
  BY <1>1, <1>5, <1>6, <1>7, <1>8 DEF IInv

\* A write that is cut short, whatever becomes of the sync.
LEMMA CutShortStep ==
  ASSUME IInv, NEW s \in Syncs, sync[s].pc = "fill", CutShort(s),
         NEW q, Becomes(s, q), q.path = Nobody, UNCHANGED <<rules, config, began>>
  PROVE  IInv'
<1>0. PICK r \in Repos, p \in Paths : IsAt(s, r, p)
  BY AtFile
<1>1. PICK n \in 0..Len(sync[s].merged) - 1 :
        files' = [files EXCEPT ![r][p] = SubSeq(sync[s].merged, 1, n)]
  BY <1>0 DEF CutShort, IsAt
<1>2. UNCHANGED <<typed, agreed>> /\ cut' = [cut EXCEPT ![r] = @ \cup {p}]
  BY <1>0 DEF CutShort, IsAt
<1>3. sync[s].merged \in Seq(Item)
  BY AtFile
<1>4. /\ files \in [Repos -> [Paths -> Seq(Item) \cup {NoFile}]]
      /\ cut \in [Repos -> SUBSET Paths]
  BY DEF IInv, TypeOK
<1>5. TypeOK'
  <2>1. SubSeq(sync[s].merged, 1, n) \in Seq(Item)
    BY <1>3
  <2>2. files' \in [Repos -> [Paths -> Seq(Item) \cup {NoFile}]]
    BY <1>1, <1>3, <1>4, <2>1
  <2>3. cut' \in [Repos -> SUBSET Paths]
    BY <1>2, <1>3, <1>4
  <2> QED
    BY <1>2, <2>2, <2>3 DEF IInv, TypeOK, Becomes
<1>6. \A t \in Syncs : HasItsInputs(sync'[t])
  BY OthersInputs DEF IInv
<1>7. \A a \in Repos : cut[a] \subseteq cut'[a]
  BY <1>2, <1>4
<1>8. MergedAreWhole'
  BY <1>2, <1>7, OthersMerged DEF IInv
<1>9. FilesAreWhole'
  <2>1. p \in cut'[r]
    BY <1>2, <1>3, <1>4
  <2>2. \A a \in Repos, b \in Paths : a # r \/ b # p =>
          /\ files'[a][b] = files[a][b] /\ agreed'[a][b] = agreed[a][b]
          /\ b \in cut[a] => b \in cut'[a]
    BY <1>1, <1>2, <1>4, <1>7
  <2> QED
    BY <1>0, <1>2, <2>1, <2>2, OneFileStep DEF IInv
<1> QED
  BY <1>5, <1>6, <1>8, <1>9 DEF IInv

LEMMA FillFailsStep ==
  ASSUME IInv, NEW s \in Syncs, FillFails(s)
  PROVE  IInv'
<1>1. sync[s].pc = "fill" /\ CutShort(s) /\ Proceed(s) /\ UNCHANGED <<rules, config, began>>
  BY DEF FillFails, At
<1>2. PICK q : Becomes(s, q) /\ q.path = Nobody
  BY <1>1, ProceedBecomes
<1> QED
  BY <1>1, <1>2, CutShortStep

LEMMA KillStep ==
  ASSUME IInv, NEW s \in Syncs, Kill(s)
  PROVE  IInv'
<1>1. CASE sync[s].pc = "fill"
  <2>1. Stop(s) /\ CutShort(s) /\ UNCHANGED <<rules, config, began>>
    BY <1>1 DEF Kill, At
  <2>2. Becomes(s, Idle)
    BY <2>1, IdleFits, Became DEF Stop
  <2> QED
    BY <1>1, <2>1, <2>2, IdleFits, CutShortStep
<1>2. CASE sync[s].pc # "fill"
  <2>1. Stop(s) /\ UNCHANGED <<files, rules, config, history, began>>
    BY <1>2 DEF Kill, At
  <2> QED
    BY <1>2, <2>1, StopStep
<1> QED
  BY <1>1, <1>2


-----------------------------------------------------------------------------
(* What the author types, and what a sync finds up to date.                *)

LEMMA TypedIntoNone ==
  ASSUME NEW texts \in SUBSET Texts, NEW sections, IsWhole(NoFile, texts, sections, FALSE),
         NEW t \in Texts, NEW new \in Surrounding(<<>>, t), NEW more \in SUBSET (texts \cup {t})
  PROVE  new \in Seq(Item) /\ IsWhole(new, more, sections, FALSE)
<1>1. texts = {} /\ sections = Nothing
  BY DEF IsWhole
<1>2. <<>> \in Seq(Item) /\ IsPlain(<<>>) /\ t \notin TextsIn(<<>>)
  BY DEF IsPlain, TextsIn
<1>3. PICK k, h : IsTyped(<<>>, new, k, h, t)
  BY <1>2, SurroundingIsTyped
<1>4. new \in Seq(Item) /\ IsPlain(new) /\ Once(new, t)
  <2> PICK none : none = <<>>
    OBVIOUS
  <2>1. none \in Seq(Item) /\ IsPlain(none) /\ t \notin TextsIn(none) /\ IsTyped(none, new, k, h, t)
    BY <1>2, <1>3
  <2>2. new \in Seq(Item)
    BY <2>1 DEF IsTyped
  <2>3. IsPlain(new)
    BY <2>1, TypedPlain
  <2>4. Once(new, t)
    BY <2>1, TypedOnce
  <2> QED
    BY <2>2, <2>3, <2>4
<1>5. new # NoFile
  BY <1>4, SyncAssumption
<1> QED
  BY <1>1, <1>4, <1>5 DEF IsWhole

LEMMA TypedIntoSome ==
  ASSUME NEW file \in Seq(Item), NEW texts \in SUBSET Texts, NEW sections,
         IsWhole(file, texts, sections, FALSE), NEW t \in Texts, t \notin TextsIn(file),
         NEW new \in Surrounding(file, t), NEW more \in SUBSET (texts \cup {t})
  PROVE  new \in Seq(Item) /\ IsWhole(new, more, sections, FALSE)
<1>1. file # NoFile
  BY SyncAssumption
<1>2. /\ IsPlain(file) \/ IsFramed(file)
      /\ \A u \in texts : Once(file, u)
      /\ sections # Nothing => Distinct(sections) /\ Says(file, sections)
  BY <1>1 DEF IsWhole
<1>3. PICK k, h : IsTyped(file, new, k, h, t)
  BY SurroundingIsTyped
<1>4. new \in Seq(Item) /\ new # NoFile
  <2>1. new \in Seq(Item)
    BY <1>3 DEF IsTyped
  <2> QED
    BY <2>1, SyncAssumption
<1>5. \A u \in more : Once(new, u)
  BY <1>2, <1>3, TypedOnce
<1>6. CASE IsPlain(file)
  <2>1. IsPlain(new)
    BY <1>3, <1>6, TypedPlain
  <2>2. sections = Nothing
    BY <1>2, <1>6, PlainReads DEF Says
  <2> QED
    BY <1>4, <1>5, <2>1, <2>2 DEF IsWhole
<1>7. CASE IsFramed(file)
  <2>1. PICK b \in 1..Len(file), e \in 1..Len(file) : IsFramedAt(file, b, e)
    BY <1>7 DEF IsFramed
  <2>0. /\ b + k \in 1..Len(new) /\ e + k \in 1..Len(new) /\ IsFramedAt(new, b + k, e + k)
        /\ SubSeq(new, b + k + 2, (e + k) - 1) = SubSeq(file, b + 2, e - 1)
    BY <1>3, <2>1, TypedFrame
  <2>2. PICK d \in 1..Len(new), f \in 1..Len(new) :
          IsFramedAt(new, d, f) /\ SubSeq(new, d + 2, f - 1) = SubSeq(file, b + 2, e - 1)
    BY <2>0
  <2>3. IsFramed(new)
    BY <2>2 DEF IsFramed
  <2>4. Says(file, sections) => Says(new, sections)
    BY <1>4, <2>1, <2>2, FramedSays
  <2> QED
    BY <1>2, <1>4, <1>5, <2>3, <2>4 DEF IsWhole
<1> QED
  BY <1>2, <1>6, <1>7

LEMMA TypeStep ==
  ASSUME IInv, NEW r \in Repos, NEW p \in Paths, Type(r, p)
  PROVE  IInv'
<1>1. ~Open(r, p) /\ UNCHANGED <<rules, config, sync, agreed, cut, began>>
  BY DEF Type
<1>2. PICK t \in Texts :
        /\ \A q \in Paths : t \notin TextsIn(FileOr(r, q, <<>>))
        /\ \E new \in Surrounding(FileOr(r, p, <<>>), t) :
             files' = [files EXCEPT ![r][p] = new]
        /\ typed' = IF Writing(r, p) THEN typed ELSE [typed EXCEPT ![r][p] = @ \cup {t}]
  BY DEF Type
<1>3. PICK new \in Surrounding(FileOr(r, p, <<>>), t) : files' = [files EXCEPT ![r][p] = new]
  BY <1>2
<1>4. /\ files \in [Repos -> [Paths -> Seq(Item) \cup {NoFile}]]
      /\ typed \in [Repos -> [Paths -> SUBSET Texts]]
  BY DEF IInv, TypeOK
<1>5. /\ typed' \in [Repos -> [Paths -> SUBSET Texts]]
      /\ typed'[r][p] \in SUBSET (typed[r][p] \cup {t})
      /\ \A a \in Repos, b \in Paths : a # r \/ b # p => typed'[a][b] = typed[a][b]
      /\ Writing(r, p) => typed' = typed
  BY <1>2, <1>4
<1>6. /\ files'[r][p] = new
      /\ \A a \in Repos, b \in Paths : a # r \/ b # p => files'[a][b] = files[a][b]
  BY <1>3, <1>4
<1>7. new \in Seq(Item)
  <2>1. FileOr(r, p, <<>>) \in Seq(Item)
    BY <1>4 DEF FileOr
  <2>2. PICK k, h : IsTyped(FileOr(r, p, <<>>), new, k, h, t)
    BY <2>1, SurroundingIsTyped
  <2> QED
    BY <2>2 DEF IsTyped
<1>8. TypeOK'
  <2>1. files' \in [Repos -> [Paths -> Seq(Item) \cup {NoFile}]]
    BY <1>3, <1>4, <1>7
  <2> QED
    BY <1>1, <1>5, <2>1 DEF IInv, TypeOK
<1>9. \A s \in Syncs : HasItsInputs(sync'[s])
  BY <1>1 DEF IInv
<1>10. MergedAreWhole'
  <2> SUFFICES ASSUME NEW s \in Syncs,
                      sync[s].path # Nobody, sync[s].path \notin cut[sync[s].repo]
               PROVE  WillBeWhole(sync[s], typed'[sync[s].repo][sync[s].path])
    BY <1>1 DEF MergedAreWhole
  <2>1. WillBeWhole(sync[s], typed[sync[s].repo][sync[s].path])
    BY DEF IInv, MergedAreWhole
  <2>2. sync[s].repo \in Repos /\ sync[s].path \in Paths
    BY ProcessIs DEF HasItsInputs, Process
  <2>3. typed'[sync[s].repo][sync[s].path] = typed[sync[s].repo][sync[s].path]
    BY <1>5, <2>2 DEF Writing
  <2> QED
    BY <2>1, <2>3
<1>11. FilesAreWhole'
  <2> SUFFICES ASSUME NEW a \in Repos, NEW b \in Paths, b \notin cut[a]
               PROVE  IsWhole(files'[a][b], typed'[a][b], agreed[a][b], Open(a, b)')
    BY <1>1 DEF FilesAreWhole
  <2>1. Open(a, b)' <=> Open(a, b)
    BY <1>1 DEF Open, At
  <2>2. IsWhole(files[a][b], typed[a][b], agreed[a][b], Open(a, b))
    BY DEF IInv, FilesAreWhole
  <2>3. CASE a # r \/ b # p
    BY <1>5, <1>6, <2>1, <2>2, <2>3 DEF IsWhole
  <2>4. CASE a = r /\ b = p
    <3>1. IsWhole(files[r][p], typed[r][p], agreed[r][p], FALSE)
      BY <1>1, <2>2, <2>4 DEF IsWhole
    <3>2. typed[r][p] \in SUBSET Texts
      BY <1>4
    <3>3. CASE files[r][p] = NoFile
      <4>1. new \in Surrounding(<<>>, t)
        BY <3>3 DEF FileOr
      <4>2. IsWhole(new, typed'[r][p], agreed[r][p], FALSE)
        BY <1>5, <3>1, <3>2, <3>3, <4>1, TypedIntoNone
      <4> QED
        BY <1>1, <1>6, <2>1, <2>4, <4>2 DEF IsWhole
    <3>4. CASE files[r][p] # NoFile
      <4>1. /\ files[r][p] \in Seq(Item) /\ new \in Surrounding(files[r][p], t)
            /\ t \notin TextsIn(files[r][p])
        <5>1. FileOr(r, p, <<>>) = files[r][p] /\ files[r][p] \in Seq(Item)
          BY <1>4, <3>4 DEF FileOr
        <5>2. t \notin TextsIn(FileOr(r, p, <<>>))
          BY <1>2
        <5> QED
          BY <5>1, <5>2
      <4>2. IsWhole(new, typed'[r][p], agreed[r][p], FALSE)
        <5>1. typed'[r][p] \in SUBSET (typed[r][p] \cup {t})
          BY <1>5
        <5> QED
          BY <3>1, <3>2, <4>1, <5>1, TypedIntoSome, ZenonT(60)
      <4> QED
        BY <1>1, <1>6, <2>1, <2>4, <4>2 DEF IsWhole
    <3> QED
      BY <3>3, <3>4
  <2> QED
    BY <2>3, <2>4
<1> QED
  BY <1>1, <1>8, <1>9, <1>10, <1>11 DEF IInv


\* A file that says what it would get is whole with it.
LEMMA UpToDateWhole ==
  ASSUME NEW file \in Seq(Item), NEW texts, NEW sections, NEW open \in BOOLEAN,
         IsWhole(file, texts, sections, open), NEW now \in BOOLEAN, open => now,
         NEW new \in Seq(ASection), Distinct(new), OnlyMinorChanges(file, new)
  PROVE  IsWhole(file, texts, new, now)
<1>1. file # NoFile
  BY SyncAssumption
<1>2. IsPlain(file) \/ IsFramed(file)
  BY <1>1 DEF IsWhole
<1>3. Says(file, new)
  BY <1>2, OnlyMinorSays
<1> QED
  BY <1>1, <1>3 DEF IsWhole

LEMMA PreparedOutput ==
  ASSUME IInv, NEW s \in Syncs, At(s, "prepare")
  PROVE  LET output == WithBudget(s, WithGovernance(s, sync[s].output))
         IN  output \in Outputs(Adrs \cup {Governance.adr}) /\ IsTidy(output)
<1>1. sync[s] \in Process /\ HasItsInputs(sync[s])
  BY ProcessIs
<1>2. /\ sync[s].output \in Outputs(Adrs) /\ IsTidy(sync[s].output)
      /\ sync[s].adrs \subseteq Adrs /\ sync[s].format \in Formats
  BY <1>1 DEF HasItsInputs, At, Process
<1>3. /\ WithGovernance(s, sync[s].output) \in Outputs(Adrs \cup {Governance.adr})
      /\ IsTidy(WithGovernance(s, sync[s].output))
  BY <1>2, WithGovernanceIs
<1> QED
  BY <1>3, WithBudgetIs

LEMMA PrepareStep ==
  ASSUME IInv, NEW s \in Syncs, Prepare(s)
  PROVE  IInv'
<1> DEFINE all  == WithBudget(s, WithGovernance(s, sync[s].output))
           up   == UpToDate(s, all)
           left == RestrictDomain(all, LAMBDA p : p \notin up)
<1>1. /\ At(s, "prepare") /\ UNCHANGED <<files, config, typed, cut, began>>
      /\ rules' = IF sync[s].options.dryRun THEN rules
                  ELSE [rules EXCEPT ![sync[s].repo] = @ \cup sync[s].adrs]
      /\ sync' = [sync EXCEPT ![s].pc = "confirm", ![s].output = left]
      /\ agreed' = IF sync[s].options.dryRun THEN agreed
                   ELSE [agreed EXCEPT ![sync[s].repo] =
                           [p \in Paths |-> IF p \in up THEN all[p] ELSE @[p]]]
  BY DEF Prepare
<1>2. sync \in [Syncs -> Process] /\ sync[s] \in Process /\ HasItsInputs(sync[s])
  BY ProcessIs DEF TypeOK
<1>3. sync[s].repo \in Repos /\ sync[s].adrs \in SUBSET Adrs
  BY <1>1, <1>2 DEF HasItsInputs, At, Process
<1>4. all \in Outputs(Adrs \cup {Governance.adr}) /\ IsTidy(all)
  BY <1>1, PreparedOutput
<1>5. left \in Outputs(Adrs \cup {Governance.adr}) /\ IsTidy(left)
  <2>1. left = Without(all, up)
    <3> HIDE DEF all, up
    <3> QED
      BY DEF RestrictDomain, Restrict, Without
  <2> HIDE DEF all, up, left
  <2> QED
    BY <1>4, <2>1, RestrictedIs
<1>6. \A p \in up : /\ p \in Paths /\ all[p] \in Seq(ASection) /\ Distinct(all[p])
                    /\ files[sync[s].repo][p] # NoFile
                    /\ OnlyMinorChanges(files[sync[s].repo][p], all[p])
  <2> HIDE DEF all
  <2>1. \A p \in up : /\ p \in DOMAIN all /\ files[sync[s].repo][p] # NoFile
                      /\ OnlyMinorChanges(files[sync[s].repo][p], all[p])
    BY DEF UpToDate
  <2> QED
    BY <1>4, <2>1, SectionsFor
<1> DEFINE q == [sync[s] EXCEPT !.pc = "confirm", !.output = left]
<1>7. sync' = [sync EXCEPT ![s] = q]
  <2> HIDE DEF left
  <2> QED
    BY <1>1, <1>2
<1>8. q \in Process
  <2> HIDE DEF left
  <2> QED
    BY <1>2, <1>5 DEF Process
<1>9. /\ q.pc = "confirm" /\ q.output = left /\ q.config = sync[s].config
      /\ q.repo = sync[s].repo /\ q.format = sync[s].format /\ q.options = sync[s].options
      /\ q.todo = sync[s].todo /\ q.path = sync[s].path
  <2> HIDE DEF left
  <2> QED
    BY <1>2 DEF Process
<1> HIDE DEF q, left, up, all
<1>10. HasItsInputs(q) /\ q.path = Nobody
  BY <1>1, <1>2, <1>5, <1>9 DEF HasItsInputs, At
<1>11. Becomes(s, q)
  BY <1>7, <1>8, <1>10, Became
<1>12. /\ agreed \in [Repos -> [Paths -> Seq(ASection) \cup {Nothing}]]
       /\ rules \in [Repos -> SUBSET Adrs]
  BY DEF IInv, TypeOK
<1>13. agreed' \in [Repos -> [Paths -> Seq(ASection) \cup {Nothing}]]
  BY <1>1, <1>3, <1>6, <1>12
<1>14. \A r \in Repos, p \in Paths :
         agreed'[r][p] = agreed[r][p] \/ (r = sync[s].repo /\ p \in up /\ agreed'[r][p] = all[p])
  BY <1>1, <1>3, <1>12
<1>15. TypeOK'
  <2>1. rules' \in [Repos -> SUBSET Adrs]
    BY <1>1, <1>3, <1>12
  <2> QED
    BY <1>1, <1>11, <1>13, <2>1 DEF IInv, TypeOK, Becomes
<1>16. \A t \in Syncs : HasItsInputs(sync'[t])
  BY <1>11, OthersInputs DEF IInv
<1>17. MergedAreWhole'
  BY <1>1, <1>10, <1>11, OthersMerged DEF IInv
<1>18. FilesAreWhole'
  <2> SUFFICES ASSUME NEW r \in Repos, NEW p \in Paths, p \notin cut[r]
               PROVE  IsWhole(files[r][p], typed[r][p], agreed'[r][p], Open(r, p)')
    BY <1>1 DEF FilesAreWhole
  <2>1. IsWhole(files[r][p], typed[r][p], agreed[r][p], Open(r, p))
    BY DEF IInv, FilesAreWhole
  <2>2. Open(r, p) => Open(r, p)'
    <3>1. TypeOK /\ sync[s].pc # "fill"
      BY <1>1 DEF IInv, At
    <3> QED
      BY <1>11, <3>1, StaysOpen
  <2>3. Open(r, p) \in BOOLEAN /\ Open(r, p)' \in BOOLEAN
    BY DEF Open
  <2>4. CASE agreed'[r][p] = agreed[r][p]
    BY <2>1, <2>2, <2>3, <2>4, OpenIsLess
  <2>5. CASE r = sync[s].repo /\ p \in up /\ agreed'[r][p] = all[p]
    <3>1. /\ all[p] \in Seq(ASection) /\ Distinct(all[p]) /\ files[r][p] # NoFile
          /\ OnlyMinorChanges(files[r][p], all[p])
      BY <1>6, <2>5
    <3>2. files[r][p] \in Seq(Item)
      BY <3>1 DEF IInv, TypeOK
    <3>3. IsWhole(files[r][p], typed[r][p], all[p], Open(r, p)')
      BY <2>1, <2>2, <2>3, <3>1, <3>2, UpToDateWhole
    <3> QED
      BY <2>5, <3>3
  <2> QED
    BY <1>14, <2>4, <2>5
<1> QED
  BY <1>1, <1>15, <1>16, <1>17, <1>18 DEF IInv

-----------------------------------------------------------------------------
(* Together.                                                               *)

LEMMA InitIInv == Init => IInv
<1> SUFFICES ASSUME Init
             PROVE  IInv
  OBVIOUS
<1>1. \A s \in Syncs : sync[s] = Idle
  BY DEF Init
<1>2. TypeOK
  BY SyncAssumption, IdleFits DEF Init, TypeOK
<1>3. \A s \in Syncs : HasItsInputs(sync[s])
  BY <1>1, IdleFits
<1>4. MergedAreWhole
  BY <1>1, IdleFits DEF MergedAreWhole
<1>5. FilesAreWhole
  BY DEF Init, FilesAreWhole, IsWhole
<1>6. config = Nothing
  BY DEF Init
<1> QED
  BY <1>2, <1>3, <1>4, <1>5, <1>6 DEF IInv

LEMMA SyncStepIInv ==
  ASSUME IInv, OneWriter', NEW s \in Syncs, SyncStep(s)
  PROVE  IInv'
<1>1. CASE FetchFails(s) \/ TailoringFails(s)
  BY <1>1, StopStep DEF FetchFails, TailoringFails, At
<1> QED
  BY <1>1, StartSyncStep, LoadConfigStep, DiscoverStep, FetchStep, ReuseStep, TailorStep, PrepareStep,
     ConfirmStep, ReadFileStep, SkipFileStep, TruncateStep, FillStep, FillFailsStep, KillStep
  DEF SyncStep

LEMMA NextIInv == IInv /\ OneWriter' /\ [Next]_vars => IInv'
<1> SUFFICES ASSUME IInv, OneWriter', [Next]_vars
             PROVE  IInv'
  OBVIOUS
<1>1. ASSUME NEW s \in Syncs, SyncStep(s)
      PROVE  IInv'
  BY <1>1, SyncStepIInv
<1>2. ASSUME NEW r \in Repos, NEW p \in Paths, Type(r, p)
      PROVE  IInv'
  BY <1>2, TypeStep
<1>3. CASE ClearCache
  BY <1>3, ClearCacheStep
<1>4. CASE UNCHANGED vars
  BY <1>4 DEF vars, history, IInv, TypeOK, MergedAreWhole, FilesAreWhole, Open, At
<1> QED
  BY <1>1, <1>2, <1>3, <1>4 DEF Next

\* A file that is whole has each text of its author once.
LEMMA OnceCounts ==
  ASSUME NEW file \in Seq(Item), NEW t, Once(file, t)
  PROVE  Cardinality({i \in DOMAIN file : file[i] = Text(t)}) = 1
<1>1. PICK i \in 1..Len(file) : \A j \in 1..Len(file) : file[j] = Text(t) <=> j = i
  BY DEF Once
<1>2. DOMAIN file = 1..Len(file)
  OBVIOUS
<1>3. i \in DOMAIN file /\ \A j \in DOMAIN file : file[j] = Text(t) <=> j = i
  BY <1>1, <1>2
<1> QED
  BY <1>3, OnceIsOne

LEMMA IInvSurvives == IInv => UserTextSurvives
<1> SUFFICES ASSUME IInv, NEW r \in Repos, NEW p \in Paths, NEW t \in typed[r][p],
                    p \notin cut[r], ~Open(r, p)
             PROVE  Cardinality({i \in DOMAIN files[r][p] : files[r][p][i] = Text(t)}) = 1
  BY DEF UserTextSurvives
<1>1. IsWhole(files[r][p], typed[r][p], agreed[r][p], Open(r, p))
  BY DEF IInv, FilesAreWhole
<1>2. files[r][p] # NoFile /\ Once(files[r][p], t)
  BY <1>1 DEF IsWhole
<1>3. files[r][p] \in Seq(Item)
  BY <1>2 DEF IInv, TypeOK
<1> QED
  BY <1>2, <1>3, OnceCounts

LEMMA IInvSays == IInv => FileSaysWhatWasAgreed
<1> SUFFICES ASSUME IInv, NEW r \in Repos, NEW p \in Paths,
                    agreed[r][p] # Nothing, p \notin cut[r], ~Open(r, p)
             PROVE  Says(files[r][p], agreed[r][p])
  BY DEF FileSaysWhatWasAgreed, Says
<1>1. IsWhole(files[r][p], typed[r][p], agreed[r][p], Open(r, p))
  BY DEF IInv, FilesAreWhole
<1> QED
  BY <1>1 DEF IsWhole


\* While no two syncs write the same file at once, what the author wrote is in
\* the file, once, whenever no sync has it open (merge.rs merge_content).
THEOREM AuthorsTextSurvives == Spec /\ []OneWriter => []UserTextSurvives
<1>1. Init => IInv
  BY InitIInv
<1>2. IInv /\ OneWriter' /\ [Next]_vars => IInv'
  BY NextIInv
<1>3. IInv => UserTextSurvives
  BY IInvSurvives
<1> QED
  BY <1>1, <1>2, <1>3, PTL DEF Spec

\* While no two syncs write the same file at once, a file says what the last of
\* them agreed on: one block, its ADRs and no other (merge.rs, minor_change.rs).
THEOREM FilesSayWhatWasAgreed == Spec /\ []OneWriter => []FileSaysWhatWasAgreed
<1>1. Init => IInv
  BY InitIInv
<1>2. IInv /\ OneWriter' /\ [Next]_vars => IInv'
  BY NextIInv
<1>3. IInv => FileSaysWhatWasAgreed
  BY IInvSays
<1> QED
  BY <1>1, <1>2, <1>3, PTL DEF Spec

\* A user who runs one sync at a time never has two that write one file.
THEOREM OneSyncAtATime ==
  ASSUME NEW s, Syncs = {s}
  PROVE  Spec => [](UserTextSurvives /\ FileSaysWhatWasAgreed)
<1>1. OneWriter
  BY DEF OneWriter
<1>2. []OneWriter
  BY <1>1, PTL
<1> QED
  BY <1>2, AuthorsTextSurvives, FilesSayWhatWasAgreed, PTL
=============================================================================
