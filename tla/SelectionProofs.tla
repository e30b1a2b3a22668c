--------------------------- MODULE SelectionProofs ---------------------------
(***************************************************************************)
(* Lemmas the proofs about tailoring and generation rest on: induction and *)
(* recursion, in a form the provers can use, what Picked returns, and what *)
(* FlattenSeq makes of a sequence of sequences.                            *)
(*                                                                         *)
(* Induction on the naturals is stated of sets (a set of naturals with 0   *)
(* and the successor of each of its members has them all), which needs no  *)
(* operator parameter, and so is recursion: over a function that makes the *)
(* step.                                                                   *)
(***************************************************************************)
EXTENDS Selection, SequencesExt, Integers, WellFoundedInduction, SequenceTheorems, TLAPS

-----------------------------------------------------------------------------
(* Induction and recursion.                                                *)

LEMMA NatSetInduction ==
  ASSUME NEW S \in SUBSET Nat, 0 \in S, \A n \in S : n + 1 \in S
  PROVE  S = Nat
<1> DEFINE T == Nat \ S
<1>1. SUFFICES ASSUME T # {}
               PROVE  FALSE
  OBVIOUS
<1>2. PICK x \in T : \A y \in T : ~(<<y, x>> \in OpToRel(<, Nat))
  BY <1>1, WFMin, NatLessThanWellFounded
<1>3. x \in Nat /\ x # 0 /\ x - 1 \in Nat /\ x - 1 < x
  OBVIOUS
<1>4. <<x - 1, x>> \in OpToRel(<, Nat)
  BY <1>3 DEF OpToRel
<1>5. x - 1 \in S
  BY <1>2, <1>3, <1>4
<1> QED
  BY <1>3, <1>5

LEMMA LeastNatural ==
  ASSUME NEW S \in SUBSET Nat, S # {}
  PROVE  \E x \in S : \A y \in S : x <= y
<1>1. PICK x \in S : \A y \in S : ~(<<y, x>> \in OpToRel(<, Nat))
  BY WFMin, NatLessThanWellFounded
<1>2. ASSUME NEW y \in S, y < x
      PROVE  FALSE
  BY <1>1, <1>2 DEF OpToRel
<1> QED
  BY <1>2

\* A function made one step after another.
IsRun(f, b, L, step, S) ==
  f \in [0..L -> S] /\ f[0] = b /\ \A n \in 1..L : f[n] = step[n][f[n - 1]]

LEMMA Recursion ==
  ASSUME NEW S, NEW b \in S, NEW L \in Nat, NEW step \in [1..L -> [S -> S]]
  PROVE  \E f : IsRun(f, b, L, step, S)
<1> DEFINE Good(k, f) == /\ f \in [0..k -> S] /\ f[0] = b
                         /\ \A n \in 1..k : f[n] = step[n][f[n - 1]]
           P == {k \in Nat : k <= L => \E f : Good(k, f)}
<1>1. 0 \in P
  <2>1. Good(0, [n \in 0..0 |-> b])
    OBVIOUS
  <2> QED
    BY <2>1
<1>2. ASSUME NEW k \in P
      PROVE  k + 1 \in P
  <2>1. SUFFICES ASSUME k + 1 <= L
                 PROVE  \E f : Good(k + 1, f)
    OBVIOUS
  <2>2. PICK f : Good(k, f)
    BY <2>1
  <2> DEFINE g == [n \in 0..(k + 1) |-> IF n = k + 1 THEN step[k + 1][f[k]] ELSE f[n]]
  <2>3. step[k + 1][f[k]] \in S
    <3>1. k + 1 \in 1..L /\ f[k] \in S
      BY <2>1, <2>2
    <3> QED
      BY <3>1
  <2>4. g \in [0..(k + 1) -> S] /\ g[0] = b
    BY <2>2, <2>3
  <2>5. ASSUME NEW n \in 1..(k + 1)
        PROVE  g[n] = step[n][g[n - 1]]
    <3>0. k \in Nat
      OBVIOUS
    <3>1. n - 1 \in 0..k /\ n - 1 # k + 1
      BY <3>0
    <3>e. g[n - 1] = f[n - 1]
      BY <3>0, <3>1
    <3>2. CASE n = k + 1
      <4>1. n - 1 = k /\ g[n] = step[k + 1][f[k]]
        BY <3>0, <3>2
      <4> QED
        BY <3>e, <3>2, <4>1
    <3>3. CASE n # k + 1
      <4>1. n \in 1..k /\ g[n] = f[n]
        BY <3>0, <3>3
      <4> QED
        BY <2>2, <3>e, <4>1
    <3> QED
      BY <3>2, <3>3
  <2> QED
    BY <2>4, <2>5
<1> HIDE DEF P
<1>3. L \in P
  BY <1>1, <1>2, NatSetInduction DEF P
<1> QED
  BY <1>3 DEF P, IsRun

\* Two functions that begin alike and go on alike are alike.
Agree(f, g, L) == f[0] = g[0] /\ \A n \in 1..L : f[n - 1] = g[n - 1] => f[n] = g[n]

LEMMA SameRun ==
  ASSUME NEW L \in Nat, NEW f, NEW g, Agree(f, g, L)
  PROVE  \A n \in 0..L : f[n] = g[n]
<1> USE DEF Agree
<1> DEFINE P == {n \in Nat : n <= L => f[n] = g[n]}
<1>1. 0 \in P
  OBVIOUS
<1>2. ASSUME NEW n \in P
      PROVE  n + 1 \in P
  <2>1. SUFFICES ASSUME n + 1 <= L
                 PROVE  f[n + 1] = g[n + 1]
    OBVIOUS
  <2>2. n + 1 \in 1..L /\ (n + 1) - 1 = n /\ f[n] = g[n]
    BY <2>1
  <2> QED
    BY <2>2
<1>3. P \in SUBSET Nat
  OBVIOUS
<1> HIDE DEF P
<1>4. P = Nat
  BY <1>1, <1>2, <1>3, NatSetInduction
<1> QED
  BY <1>4 DEF P

-----------------------------------------------------------------------------
(* Sequences of some of the items of a sequence.                           *)

\* A function that grows along a sequence by the items at the indices of I.
Grows(upTo, items, I, S) ==
  /\ upTo \in [0..Len(items) -> Seq(S)]
  /\ upTo[0] = <<>>
  /\ \A n \in 1..Len(items) :
       upTo[n] = IF n \in I THEN Append(upTo[n - 1], items[n]) ELSE upTo[n - 1]

\* The items of part are those of items at the indices of I up to n, in order.
IsPart(part, items, I, n) ==
  \E at \in [1..Len(part) -> 1..n] :
    /\ \A j \in 1..Len(part) : at[j] \in I /\ part[j] = items[at[j]]
    /\ \A j, k \in 1..Len(part) : j < k => at[j] < at[k]
    /\ \A i \in 1..n : i \in I => \E j \in 1..Len(part) : at[j] = i

LEMMA GrownPart ==
  ASSUME NEW S, NEW items \in Seq(S), NEW I, NEW upTo, Grows(upTo, items, I, S)
  PROVE  \A n \in 0..Len(items) : IsPart(upTo[n], items, I, n)
<1> DEFINE P == {n \in Nat : n <= Len(items) => IsPart(upTo[n], items, I, n)}
<1>1. 0 \in P
  <2> DEFINE at == [j \in 1..0 |-> 0]
  <2>1. upTo[0] = <<>>
    BY DEF Grows
  <2>2. at \in [1..Len(<<>>) -> 1..0] /\ 1..Len(<<>>) = {} /\ 1..0 = {}
    OBVIOUS
  <2> HIDE DEF at
  <2>3. IsPart(<<>>, items, I, 0)
    BY <2>2 DEF IsPart
  <2> QED
    BY <2>1, <2>3
<1>2. ASSUME NEW n \in P
      PROVE  n + 1 \in P
  <2>1. SUFFICES ASSUME n + 1 <= Len(items)
                 PROVE  IsPart(upTo[n + 1], items, I, n + 1)
    OBVIOUS
  <2> PICK old, new : old = upTo[n] /\ new = upTo[n + 1]
    OBVIOUS
  <2>2. /\ n \in Nat /\ n + 1 \in 1..Len(items) /\ old \in Seq(S)
        /\ new = IF n + 1 \in I THEN Append(old, items[n + 1]) ELSE old
    <3>1. n \in Nat /\ n + 1 \in 1..Len(items) /\ n \in 0..Len(items) /\ (n + 1) - 1 = n
      BY <2>1
    <3>2. \A m \in 1..Len(items) :
            upTo[m] = IF m \in I THEN Append(upTo[m - 1], items[m]) ELSE upTo[m - 1]
      BY DEF Grows
    <3>3. new = IF n + 1 \in I THEN Append(upTo[(n + 1) - 1], items[n + 1]) ELSE upTo[(n + 1) - 1]
      BY <3>1, <3>2
    <3>4. old \in Seq(S)
      BY <3>1 DEF Grows
    <3> QED
      BY <3>1, <3>3, <3>4
  <2>3. PICK at \in [1..Len(old) -> 1..n] :
          /\ \A j \in 1..Len(old) : at[j] \in I /\ old[j] = items[at[j]]
          /\ \A j, k \in 1..Len(old) : j < k => at[j] < at[k]
          /\ \A i \in 1..n : i \in I => \E j \in 1..Len(old) : at[j] = i
    BY <2>1 DEF IsPart
  <2>4. CASE n + 1 \notin I
    <3>1. new = old /\ at \in [1..Len(old) -> 1..(n + 1)]
      BY <2>2, <2>3, <2>4
    <3>2. \A i \in 1..(n + 1) : i \in I => i \in 1..n
      BY <2>2, <2>4
    <3>3. /\ at \in [1..Len(new) -> 1..(n + 1)]
          /\ \A j \in 1..Len(new) : at[j] \in I /\ new[j] = items[at[j]]
          /\ \A j, k \in 1..Len(new) : j < k => at[j] < at[k]
          /\ \A i \in 1..(n + 1) : i \in I => \E j \in 1..Len(new) : at[j] = i
      BY <2>3, <3>1, <3>2
    <3>4. IsPart(new, items, I, n + 1)
      BY <3>3 DEF IsPart
    <3> QED
      BY <3>4
  <2>5. CASE n + 1 \in I
    <3> PICK l : l = Len(old)
      OBVIOUS
    <3> DEFINE to == [j \in 1..(l + 1) |-> IF j = l + 1 THEN n + 1 ELSE at[j]]
    <3>1. /\ Len(new) = l + 1 /\ l \in Nat
          /\ \A j \in 1..l : new[j] = old[j]
          /\ new[l + 1] = items[n + 1]
      <4>1. items[n + 1] \in S
        BY <2>2
      <4>2. old \in Seq(S) /\ new = Append(old, items[n + 1])
        BY <2>2, <2>5
      <4> QED
        BY <4>1, <4>2
    <3>2. to \in [1..(l + 1) -> 1..(n + 1)]
      BY <2>2, <2>3, <3>1
    <3>3. \A j \in 1..(l + 1) : to[j] \in I /\ new[j] = items[to[j]]
      <4> TAKE j \in 1..(l + 1)
      <4>1. CASE j = l + 1
        BY <2>5, <3>1, <4>1
      <4>2. CASE j # l + 1
        <5>1. j \in 1..l /\ to[j] = at[j]
          BY <3>1, <4>2
        <5> QED
          BY <2>3, <3>1, <5>1
      <4> QED
        BY <4>1, <4>2
    <3>4. \A j, k \in 1..(l + 1) : j < k => to[j] < to[k]
      <4> SUFFICES ASSUME NEW j \in 1..(l + 1), NEW k \in 1..(l + 1), j < k
                   PROVE  to[j] < to[k]
        OBVIOUS
      <4>0. l \in Nat /\ j \in 1..l
        BY <3>1
      <4>1. to[j] = at[j] /\ at[j] \in 1..n
        <5>1. j # l + 1
          BY <4>0
        <5>2. to[j] = at[j]
          BY <5>1
        <5>3. j \in 1..Len(old)
          BY <4>0
        <5> QED
          BY <2>3, <5>2, <5>3
      <4>2. CASE k = l + 1
        <5>1. to[k] = n + 1
          BY <4>0, <4>2
        <5> QED
          BY <2>2, <4>1, <5>1
      <4>3. CASE k # l + 1
        <5>1. k \in 1..l /\ to[k] = at[k]
          BY <4>0, <4>3
        <5> QED
          BY <2>3, <4>0, <4>1, <5>1
      <4> QED
        BY <4>2, <4>3
    <3>5. \A i \in 1..(n + 1) : i \in I => \E j \in 1..(l + 1) : to[j] = i
      <4> SUFFICES ASSUME NEW i \in 1..(n + 1), i \in I
                   PROVE  \E j \in 1..(l + 1) : to[j] = i
        OBVIOUS
      <4>1. CASE i = n + 1
        <5>1. l + 1 \in 1..(l + 1) /\ to[l + 1] = n + 1
          BY <3>1
        <5> QED
          BY <4>1, <5>1
      <4>2. CASE i # n + 1
        <5>1. PICK j \in 1..l : at[j] = i
          BY <2>2, <2>3, <4>2
        <5>2. j \in 1..(l + 1) /\ to[j] = i
          BY <3>1, <5>1
        <5> QED
          BY <5>2
      <4> QED
        BY <4>1, <4>2
    <3> HIDE DEF to
    <3>6. Len(new) = l + 1
      BY <3>1
    <3>7. /\ to \in [1..Len(new) -> 1..(n + 1)]
          /\ \A j \in 1..Len(new) : to[j] \in I /\ new[j] = items[to[j]]
          /\ \A j, k \in 1..Len(new) : j < k => to[j] < to[k]
          /\ \A i \in 1..(n + 1) : i \in I => \E j \in 1..Len(new) : to[j] = i
      BY <3>2, <3>3, <3>4, <3>5, <3>6
    <3>8. IsPart(new, items, I, n + 1)
      BY <3>7 DEF IsPart
    <3> QED
      BY <3>8
  <2> QED
    BY <2>4, <2>5
<1> HIDE DEF P
<1>3. P = Nat
  <2>1. P \in SUBSET Nat
    BY DEF P
  <2> QED
    BY <1>1, <1>2, <2>1, NatSetInduction
<1> SUFFICES ASSUME NEW n \in 0..Len(items)
             PROVE  IsPart(upTo[n], items, I, n)
  OBVIOUS
<1>4. n \in P /\ n <= Len(items)
  BY <1>3
<1> QED
  BY <1>4 DEF P

\* The items at the indices of I, and no others.
LEMMA PickedIsPart ==
  ASSUME NEW S, NEW items \in Seq(S), NEW I
  PROVE  Picked(items, I) \in Seq(S) /\ IsPart(Picked(items, I), items, I, Len(items))
<1> PICK L : L = Len(items)
  OBVIOUS
<1> DEFINE Next1(x, n) == IF n \in I THEN Append(x, items[n]) ELSE x
           step == [n \in 1..L |-> [x \in Seq(S) |-> Next1(x, n)]]
           Up(f) == f = [n \in 0..L |-> IF n = 0 THEN <<>>
                           ELSE IF n \in I THEN Append(f[n - 1], items[n]) ELSE f[n - 1]]
<1>0. L \in Nat /\ \A n \in 1..L : items[n] \in S
  OBVIOUS
<1>1. step \in [1..L -> [Seq(S) -> Seq(S)]] /\ <<>> \in Seq(S) /\ L \in Nat
  <2>1. \A n \in 1..L, x \in Seq(S) : Next1(x, n) \in Seq(S)
    BY <1>0
  <2> HIDE DEF Next1
  <2> QED
    BY <1>0, <2>1
<1>2. PICK f \in [0..L -> Seq(S)] : f[0] = <<>> /\ \A n \in 1..L : f[n] = step[n][f[n - 1]]
  <2> HIDE DEF step
  <2>1. PICK f : IsRun(f, <<>>, L, step, Seq(S))
    BY <1>1, Recursion
  <2> QED
    BY <2>1 DEF IsRun
<1>3. \A n \in 1..L : f[n] = IF n \in I THEN Append(f[n - 1], items[n]) ELSE f[n - 1]
  <2> TAKE n \in 1..L
  <2>1. f[n - 1] \in Seq(S)
    BY <1>1, <1>2
  <2> QED
    BY <1>2, <2>1
<1>4. Up(f)
  <2> DEFINE F == [n \in 0..L |-> IF n = 0 THEN <<>>
                      ELSE IF n \in I THEN Append(f[n - 1], items[n]) ELSE f[n - 1]]
  <2>1. ASSUME NEW n \in 0..L
        PROVE  f[n] = F[n]
    <3>1. CASE n = 0
      BY <1>2, <3>1
    <3>2. CASE n # 0
      <4>1. n \in 1..L
        BY <1>1, <3>2
      <4> QED
        BY <1>3, <3>2, <4>1
    <3> QED
      BY <3>1, <3>2
  <2> HIDE DEF F
  <2>2. f = F
    <3>1. F = [n \in 0..L |-> F[n]]
      BY DEF F
    <3> QED
      BY <1>2, <2>1, <3>1
  <2> QED
    BY <2>2 DEF F
<1>5. PICK g : g = CHOOSE h : Up(h)
  OBVIOUS
<1>6. Up(g)
  BY <1>4, <1>5
<1>7. g[0] = <<>> /\ \A n \in 1..L : g[n] = IF n \in I THEN Append(g[n - 1], items[n]) ELSE g[n - 1]
  <2>1. g = [n \in 0..L |-> IF n = 0 THEN <<>>
                ELSE IF n \in I THEN Append(g[n - 1], items[n]) ELSE g[n - 1]]
    BY <1>6
  <2>2. 0 \in 0..L /\ \A n \in 1..L : n \in 0..L /\ n # 0
    BY <1>1
  <2>3. g[0] = <<>>
    BY <2>1, <2>2
  <2>4. ASSUME NEW n \in 1..L
        PROVE  g[n] = IF n \in I THEN Append(g[n - 1], items[n]) ELSE g[n - 1]
    BY <2>1, <2>2
  <2> QED
    BY <2>3, <2>4
<1>8. \A n \in 0..L : g[n] = f[n]
  <2> DEFINE P == {n \in Nat : n <= L => g[n] = f[n]}
  <2>1. 0 \in P
    BY <1>2, <1>7
  <2>2. ASSUME NEW n \in P
        PROVE  n + 1 \in P
    <3>1. SUFFICES ASSUME n + 1 <= L
                   PROVE  g[n + 1] = f[n + 1]
      OBVIOUS
    <3>2. n + 1 \in 1..L /\ (n + 1) - 1 = n /\ g[n] = f[n]
      BY <1>1, <3>1
    <3> QED
      BY <1>3, <1>7, <3>2
  <2>3. P = Nat
    <3>1. P \in SUBSET Nat
      OBVIOUS
    <3> HIDE DEF P
    <3> QED
      BY <2>1, <2>2, <3>1, NatSetInduction
  <2> QED
    BY <1>1, <2>3
<1>9. Picked(items, I) = f[L]
  <2>1. Picked(items, I) = g[L]
    BY <1>5 DEF Picked
  <2> QED
    BY <1>1, <1>8, <2>1
<1>10. Grows(f, items, I, S)
  BY <1>2, <1>3 DEF Grows
<1> QED
  BY <1>1, <1>2, <1>9, <1>10, GrownPart

\* Every item of a part is one of the whole, and none at I is left out.
LEMMA PartStays ==
  ASSUME NEW part, NEW items, NEW I, IsPart(part, items, I, Len(items))
  PROVE  /\ \A j \in 1..Len(part) : \E i \in 1..Len(items) : i \in I /\ part[j] = items[i]
         /\ \A i \in 1..Len(items) : i \in I => \E j \in 1..Len(part) : part[j] = items[i]
<1>1. PICK at \in [1..Len(part) -> 1..Len(items)] :
        /\ \A j \in 1..Len(part) : at[j] \in I /\ part[j] = items[at[j]]
        /\ \A i \in 1..Len(items) : i \in I => \E j \in 1..Len(part) : at[j] = i
  BY DEF IsPart
<1>2. ASSUME NEW j \in 1..Len(part)
      PROVE  \E i \in 1..Len(items) : i \in I /\ part[j] = items[i]
  <2>1. at[j] \in 1..Len(items)
    BY <1>1
  <2> QED
    BY <1>1, <2>1
<1>3. ASSUME NEW i \in 1..Len(items), i \in I
      PROVE  \E j \in 1..Len(part) : part[j] = items[i]
  <2>1. PICK j \in 1..Len(part) : at[j] = i
    BY <1>1, <1>3
  <2> QED
    BY <1>1, <2>1
<1> QED
  BY <1>2, <1>3

\* Sequences of one length with the same items are the same.
LEMMA SameItems ==
  ASSUME NEW S, NEW s \in Seq(S), NEW t \in Seq(S), Len(s) = Len(t),
         \A i \in 1..Len(s) : s[i] = t[i]
  PROVE  s = t
  OBVIOUS

-----------------------------------------------------------------------------
(* Sequences of sequences.                                                 *)

\* FlattenSeq joins the sequences one after another.
IsFlat(f, seqs, S) ==
  /\ f \in [0..Len(seqs) -> Seq(S)] /\ f[0] = <<>>
  /\ \A n \in 1..Len(seqs) : f[n] = f[n - 1] \o seqs[n]

LEMMA Concatenated ==
  ASSUME NEW S, NEW s \in Seq(S), NEW t \in Seq(S)
  PROVE  /\ s \o t \in Seq(S) /\ Len(s \o t) = Len(s) + Len(t)
         /\ DOMAIN (s \o t) = 1..(Len(s) + Len(t)) /\ Len(s) \in Nat /\ Len(t) \in Nat
         /\ \A i \in 1..Len(s) : (s \o t)[i] = s[i]
         /\ \A i \in (Len(s) + 1)..(Len(s) + Len(t)) : (s \o t)[i] = t[i - Len(s)]
  OBVIOUS

LEMMA ThreeJoined ==
  ASSUME NEW S, NEW x \in Seq(S), NEW y \in Seq(S), NEW z \in Seq(S)
  PROVE  x \o (y \o z) = (x \o y) \o z
  BY ConcatAssociative

LEMMA Flattened ==
  ASSUME NEW S, NEW seqs \in Seq(Seq(S))
  PROVE  \E f : IsFlat(f, seqs, S) /\ FlattenSeq(seqs) = f[Len(seqs)]
<1> PICK L, T : L = Len(seqs) /\ T = Seq(S)
  OBVIOUS
<1> DEFINE step == [n \in 1..L |-> [x \in T |-> x \o seqs[n]]]
           Up(f) == f = [n \in 1..L |-> IF n = 1 THEN seqs[n] ELSE f[n - 1] \o seqs[n]]
<1>0. L \in Nat /\ DOMAIN seqs = 1..L /\ \A n \in 1..L : seqs[n] \in T
  OBVIOUS
<1>e. <<>> \in T /\ (\A x \in T : <<>> \o x = x) /\ \A x, y \in T : x \o y \in T
  OBVIOUS
<1>1. step \in [1..L -> [T -> T]] /\ \A n \in 1..L, x \in T : step[n][x] = x \o seqs[n]
  BY <1>0, <1>e
<1> HIDE DEF step
<1>2. PICK f : /\ f \in [0..L -> T] /\ f[0] = <<>>
               /\ \A n \in 1..L : f[n] = step[n][f[n - 1]]
  <2>1. PICK f : IsRun(f, <<>>, L, step, T)
    BY <1>0, <1>1, <1>e, Recursion
  <2> QED
    BY <2>1 DEF IsRun
<1>3. \A n \in 1..L : n - 1 \in 0..L /\ f[n] = f[n - 1] \o seqs[n]
  <2> TAKE n \in 1..L
  <2>1. n - 1 \in 0..L
    BY <1>0
  <2>2. f[n - 1] \in T
    BY <1>2, <2>1
  <2> QED
    BY <1>1, <1>2, <2>1, <2>2
<1>4. IsFlat(f, seqs, S)
  BY <1>2, <1>3 DEF IsFlat
<1>5. CASE L = 0
  <2>1. FlattenSeq(seqs) = seqs
    BY <1>5 DEF FlattenSeq
  <2>2. seqs = <<>>
    <3>1. seqs \in Seq(T) /\ Len(seqs) = 0
      BY <1>5
    <3> QED
      BY <3>1, EmptySeq
  <2> QED
    BY <1>2, <1>4, <1>5, <2>1, <2>2
<1>6. CASE L # 0
  <2> DEFINE F == [n \in 1..L |-> f[n]]
             G == [n \in 1..L |-> IF n = 1 THEN seqs[n] ELSE F[n - 1] \o seqs[n]]
  <2>1. 1 \in 1..L /\ f[1] = seqs[1]
    <3>1. 1 \in 1..L /\ 1 - 1 = 0
      BY <1>0, <1>6
    <3>2. f[1] = f[1 - 1] \o seqs[1] /\ f[1 - 1] = <<>> /\ seqs[1] \in T
      BY <1>0, <1>2, <1>3, <3>1
    <3> QED
      BY <1>e, <3>1, <3>2
  <2>2. Up(F)
    <3>1. ASSUME NEW n \in 1..L
          PROVE  F[n] = G[n]
      <4>1. CASE n = 1
        BY <2>1, <4>1
      <4>2. CASE n # 1
        <5>1. n - 1 \in 1..L
          BY <1>0, <4>2
        <5>2. F[n] = f[n] /\ F[n - 1] = f[n - 1]
          BY <5>1
        <5>3. G[n] = F[n - 1] \o seqs[n]
          BY <4>2
        <5> QED
          BY <1>3, <5>2, <5>3
      <4> QED
        BY <4>1, <4>2
    <3>2. F = [n \in 1..L |-> F[n]] /\ G = [n \in 1..L |-> G[n]]
      OBVIOUS
    <3> HIDE DEF F, G
    <3>3. F = G
      BY <3>1, <3>2, Zenon
    <3> QED
      BY <3>3 DEF G
  <2> HIDE DEF F, G
  <2>3. PICK g : g = CHOOSE h : Up(h)
    OBVIOUS
  <2>4. Up(g)
    BY <2>2, <2>3
  <2>5. FlattenSeq(seqs) = g[L]
    BY <1>6, <2>3 DEF FlattenSeq
  <2>6. \A n \in 1..L : g[n] = IF n = 1 THEN seqs[n] ELSE g[n - 1] \o seqs[n]
    BY <2>4
  <2> HIDE DEF Up
  <2> DEFINE P == {n \in Nat : n + 1 <= L => g[n + 1] = f[n + 1]}
  <2>7. 0 \in P
    BY <2>1, <2>6
  <2>8. ASSUME NEW n \in P
        PROVE  n + 1 \in P
    <3>1. SUFFICES ASSUME (n + 1) + 1 <= L
                   PROVE  g[(n + 1) + 1] = f[(n + 1) + 1]
      OBVIOUS
    <3>2. /\ (n + 1) + 1 \in 1..L /\ (n + 1) + 1 # 1 /\ ((n + 1) + 1) - 1 = n + 1
          /\ g[n + 1] = f[n + 1]
      BY <1>0, <3>1
    <3>3. g[(n + 1) + 1] = g[n + 1] \o seqs[(n + 1) + 1]
      BY <2>6, <3>2
    <3>4. f[(n + 1) + 1] = f[n + 1] \o seqs[(n + 1) + 1]
      BY <1>3, <3>2
    <3> QED
      BY <3>2, <3>3, <3>4
  <2>9. P = Nat
    <3>1. P \in SUBSET Nat
      OBVIOUS
    <3> HIDE DEF P
    <3> QED
      BY <2>7, <2>8, <3>1, NatSetInduction
  <2>10. g[L] = f[L]
    <3>1. L - 1 \in Nat /\ (L - 1) + 1 = L /\ L <= L
      BY <1>0, <1>6
    <3>2. L - 1 \in P
      BY <2>9, <3>1
    <3> QED
      BY <3>1, <3>2
  <2> QED
    BY <1>4, <2>5, <2>10
<1> QED
  BY <1>5, <1>6

LEMMA FlattenTyped ==
  ASSUME NEW S, NEW seqs \in Seq(Seq(S))
  PROVE  FlattenSeq(seqs) \in Seq(S)
<1> PICK T : T = Seq(S)
  OBVIOUS
<1>1. PICK f : IsFlat(f, seqs, S) /\ FlattenSeq(seqs) = f[Len(seqs)]
  BY Flattened
<1>2. Len(seqs) \in 0..Len(seqs)
  <2>1. seqs \in Seq(T)
    OBVIOUS
  <2>2. Len(seqs) \in Nat
    BY <2>1
  <2> QED
    BY <2>2
<1>3. f \in [0..Len(seqs) -> T]
  BY <1>1 DEF IsFlat
<1> QED
  BY <1>1, <1>2, <1>3

LEMMA FlattenEmpty == FlattenSeq(<<>>) = <<>>
  BY DEF FlattenSeq

LEMMA FlattenConcat ==
  ASSUME NEW S, NEW s \in Seq(Seq(S)), NEW t \in Seq(Seq(S))
  PROVE  FlattenSeq(s \o t) = FlattenSeq(s) \o FlattenSeq(t)
<1>a. PICK st, L, M, T : st = s \o t /\ L = Len(s) /\ M = Len(t) /\ T = Seq(S)
  OBVIOUS
<1>1. /\ L \in Nat /\ M \in Nat /\ st \in Seq(T) /\ Len(st) = L + M
      /\ \A n \in 1..L : st[n] = s[n]
      /\ \A n \in 1..M : st[L + n] = t[n] /\ t[n] \in T
  <2>1. s \in Seq(T) /\ t \in Seq(T)
    BY <1>a
  <2>2. /\ st \in Seq(T) /\ Len(st) = L + M /\ L \in Nat /\ M \in Nat
        /\ \A n \in 1..L : st[n] = s[n]
        /\ \A n \in (L + 1)..(L + M) : st[n] = t[n - L]
    BY <1>a, <2>1, Concatenated
  <2>3. \A n \in 1..M : t[n] \in T
    BY <1>a, <2>1
  <2>4. \A n \in 1..M : L + n \in (L + 1)..(L + M) /\ (L + n) - L = n
    BY <2>2
  <2> QED
    BY <2>2, <2>3, <2>4
<1>2. PICK f : IsFlat(f, s, S) /\ FlattenSeq(s) = f[L]
  BY <1>a, Flattened
<1>3. PICK g : IsFlat(g, t, S) /\ FlattenSeq(t) = g[M]
  BY <1>a, Flattened
<1>4. PICK h : IsFlat(h, st, S) /\ FlattenSeq(st) = h[L + M]
  <2>1. st \in Seq(Seq(S))
    BY <1>1, <1>a
  <2>2. PICK h : IsFlat(h, st, S) /\ FlattenSeq(st) = h[Len(st)]
    BY <2>1, Flattened
  <2> QED
    BY <1>1, <2>2
<1>5. /\ f \in [0..L -> T] /\ f[0] = <<>> /\ \A n \in 1..L : f[n] = f[n - 1] \o s[n]
      /\ g \in [0..M -> T] /\ g[0] = <<>> /\ \A n \in 1..M : g[n] = g[n - 1] \o t[n]
      /\ h \in [0..(L + M) -> T] /\ h[0] = <<>>
      /\ \A n \in 1..(L + M) : h[n] = h[n - 1] \o st[n]
  <2>1. Len(s) = L /\ Len(t) = M /\ Len(st) = L + M /\ Seq(S) = T
    BY <1>1, <1>a
  <2> QED
    BY <2>1, <1>2, <1>3, <1>4 DEF IsFlat
<1>c. PICK cat \in [T -> [T -> T]] : \A x, y \in T : cat[x][y] = x \o y
  <2>1. \A x, y \in T : x \o y \in T
    BY <1>a
  <2>2. [x \in T |-> [y \in T |-> x \o y]] \in [T -> [T -> T]]
    BY <2>1
  <2> QED
    BY <2>2
<1>e. <<>> \in T /\ (\A x \in T : cat[x][<<>>] = x)
      /\ \A x, y, z \in T : cat[cat[x][y]][z] = cat[x][cat[y][z]]
  <2>1. <<>> \in T /\ \A x \in T : x \o <<>> = x
    BY <1>a
  <2>2. ASSUME NEW x \in T, NEW y \in T, NEW z \in T
        PROVE  cat[cat[x][y]][z] = cat[x][cat[y][z]]
    <3>0. x \in Seq(S) /\ y \in Seq(S) /\ z \in Seq(S)
      BY <1>a
    <3>1. (x \o y) \o z = x \o (y \o z)
      BY <3>0, ConcatAssociative
    <3>2. cat[x][y] \in T /\ cat[y][z] \in T
      BY <1>c
    <3>3. cat[cat[x][y]][z] = cat[x][y] \o z /\ cat[x][cat[y][z]] = x \o cat[y][z]
      BY <1>c, <3>2
    <3>4. cat[x][y] = x \o y /\ cat[y][z] = y \o z
      BY <1>c
    <3> QED
      BY <3>1, <3>3, <3>4
  <2> QED
    BY <1>c, <2>1, <2>2
<1>u. /\ \A n \in 1..L : f[n - 1] \in T /\ s[n] \in T /\ f[n] = cat[f[n - 1]][s[n]]
      /\ \A n \in 1..M : g[n - 1] \in T /\ g[n] = cat[g[n - 1]][t[n]]
      /\ \A n \in 1..(L + M) : h[n - 1] \in T /\ h[n] = cat[h[n - 1]][st[n]]
  <2>1. /\ \A n \in 1..L : n - 1 \in 0..L
        /\ \A n \in 1..M : n - 1 \in 0..M
        /\ \A n \in 1..(L + M) : n - 1 \in 0..(L + M)
    BY <1>1
  <2>2. /\ \A n \in 1..L : s[n] \in T
        /\ \A n \in 1..(L + M) : st[n] \in T
    BY <1>1
  <2>3. ASSUME NEW n \in 1..L
        PROVE  f[n - 1] \in T /\ s[n] \in T /\ f[n] = cat[f[n - 1]][s[n]]
    <3>1. f[n - 1] \in T /\ s[n] \in T
      BY <1>5, <2>1, <2>2
    <3>2. f[n] = f[n - 1] \o s[n]
      BY <1>5
    <3> QED
      BY <1>c, <3>1, <3>2
  <2>4. ASSUME NEW n \in 1..M
        PROVE  g[n - 1] \in T /\ g[n] = cat[g[n - 1]][t[n]]
    <3>1. g[n - 1] \in T /\ t[n] \in T
      BY <1>1, <1>5, <2>1, <2>2
    <3>2. g[n] = g[n - 1] \o t[n]
      BY <1>5
    <3> QED
      BY <1>c, <3>1, <3>2
  <2>5. ASSUME NEW n \in 1..(L + M)
        PROVE  h[n - 1] \in T /\ h[n] = cat[h[n - 1]][st[n]]
    <3>1. h[n - 1] \in T /\ st[n] \in T
      BY <1>5, <2>1, <2>2
    <3>2. h[n] = h[n - 1] \o st[n]
      BY <1>5
    <3> QED
      BY <1>c, <3>1, <3>2
  <2> QED
    BY <2>3, <2>4, <2>5
<1>z. f[0] = <<>> /\ g[0] = <<>> /\ h[0] = f[0]
  BY <1>5
<1>6. h[L] = f[L]
  <2>1. ASSUME NEW n \in 1..L, h[n - 1] = f[n - 1]
        PROVE  h[n] = f[n]
    <3>1. n \in 1..(L + M)
      BY <1>1
    <3>2. st[n] = s[n]
      BY <1>1
    <3> QED
      BY <1>u, <2>1, <3>1, <3>2
  <2>2. L \in Nat
    BY <1>1
  <2>3. \A n \in 0..L : h[n] = f[n]
    <3>1. h[0] = f[0]
      BY <1>z
    <3>2. \A n \in 1..L : h[n - 1] = f[n - 1] => h[n] = f[n]
      BY <2>1
    <3>3. Agree(h, f, L)
      BY <3>1, <3>2 DEF Agree
    <3> QED
      BY <2>2, <3>3, SameRun
  <2>4. L \in 0..L
    BY <2>2
  <2> QED
    BY <2>3, <2>4
<1> DEFINE P == {n \in Nat : n <= M => h[L + n] = cat[f[L]][g[n]]}
<1>t. f[L] \in T
  BY <1>1, <1>5
<1>7. 0 \in P
  <2>1. L + 0 = L
    BY <1>1
  <2> QED
    BY <1>z, <1>6, <1>e, <1>t, <2>1
<1>8. ASSUME NEW n \in P
      PROVE  n + 1 \in P
  <2>1. SUFFICES ASSUME n + 1 <= M
                 PROVE  h[L + (n + 1)] = cat[f[L]][g[n + 1]]
    OBVIOUS
  <2>2. /\ n + 1 \in 1..M /\ L + (n + 1) \in 1..(L + M) /\ (L + (n + 1)) - 1 = L + n
        /\ (n + 1) - 1 = n /\ n \in 0..M /\ L \in 0..L /\ n <= M
    BY <1>1, <2>1
  <2>3. h[L + n] = cat[f[L]][g[n]]
    BY <2>2
  <2>4. h[L + (n + 1)] = cat[h[L + n]][t[n + 1]]
    BY <1>1, <1>u, <2>2
  <2>5. g[n + 1] = cat[g[n]][t[n + 1]]
    BY <1>u, <2>2
  <2>6. g[n] \in T /\ t[n + 1] \in T
    BY <1>1, <1>5, <2>2
  <2>7. cat[cat[f[L]][g[n]]][t[n + 1]] = cat[f[L]][cat[g[n]][t[n + 1]]]
    BY <1>e, <1>t, <2>6
  <2> QED
    BY <2>3, <2>4, <2>5, <2>7
<1>9. P = Nat
  <2>1. P \in SUBSET Nat
    OBVIOUS
  <2> HIDE DEF P
  <2> QED
    BY <1>7, <1>8, <2>1, NatSetInduction
<1>10. h[L + M] = cat[f[L]][g[M]]
  <2>1. M \in Nat /\ M <= M
    BY <1>1
  <2>2. M \in P
    BY <1>9, <2>1
  <2> QED
    BY <2>1, <2>2
<1>11. g[M] \in T
  BY <1>1, <1>5
<1> QED
  BY <1>2, <1>3, <1>4, <1>10, <1>11, <1>a, <1>c, <1>t

LEMMA FlattenOne ==
  ASSUME NEW S, NEW s \in Seq(S)
  PROVE  FlattenSeq(<<s>>) = s
<1>1. Len(<<s>>) = 1 /\ <<s>>[1] = s
  OBVIOUS
<1>a. PICK q, T : q = <<s>> /\ T = Seq(S)
  OBVIOUS
<1>2. q \in Seq(T) /\ Len(q) = 1 /\ q[1] = s
  BY <1>1, <1>a
<1>3. PICK f : IsFlat(f, q, S) /\ FlattenSeq(q) = f[Len(q)]
  <2>1. q \in Seq(Seq(S))
    BY <1>2, <1>a
  <2> QED
    BY <2>1, Flattened
<1>4. f[0] = <<>> /\ f[1] = f[1 - 1] \o q[1]
  <2>1. \A n \in 1..Len(q) : f[n] = f[n - 1] \o q[n]
    BY <1>3 DEF IsFlat
  <2>2. 1 \in 1..Len(q)
    BY <1>2
  <2>3. f[0] = <<>>
    BY <1>3 DEF IsFlat
  <2> QED
    BY <2>1, <2>2, <2>3
<1>5. f[1 - 1] = f[0] /\ <<>> \o s = s
  OBVIOUS
<1> QED
  BY <1>2, <1>3, <1>4, <1>5, <1>a

LEMMA SubSeqIs ==
  ASSUME NEW S, NEW s \in Seq(S), NEW m \in 1..(Len(s) + 1), NEW n \in 0..Len(s), m <= n + 1
  PROVE  /\ SubSeq(s, m, n) \in Seq(S)
         /\ Len(SubSeq(s, m, n)) = n - m + 1
         /\ \A i \in 1..(n - m + 1) : SubSeq(s, m, n)[i] = s[m + i - 1]
<1>1. Len(s) \in Nat /\ \A i \in 1..Len(s) : s[i] \in S
  OBVIOUS
<1>2. m \in Int /\ n \in Int /\ \A i \in m..n : s[i] \in S
  BY <1>1
<1>3. /\ SubSeq(s, m, n) \in Seq(S)
      /\ Len(SubSeq(s, m, n)) = IF m <= n THEN n - m + 1 ELSE 0
      /\ \A i \in 1..(n - m + 1) : SubSeq(s, m, n)[i] = s[m + i - 1]
  BY <1>2, SubSeqProperties
<1> QED
  BY <1>1, <1>2, <1>3
=============================================================================
