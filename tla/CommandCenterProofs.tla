------------------------ MODULE CommandCenterProofs ------------------------
(***************************************************************************)
(* Machine-checked proofs about the command center (CommandCenter and      *)
(* CommandCenterViews): the types of its state, the commit barrier of a    *)
(* run, what an opportunity shows over corrections and removals, what the  *)
(* pages tell, the record of an action's transitions, and that a processed *)
(* source was applied whole, over cuts between any two writes.             *)
(*                                                                         *)
(* Operations write one file after the other, so that every invariant      *)
(* speaks of the files and of the writes that are left ("todo").  The      *)
(* lemmas named ...Done say what an operation writes, those named ...Step  *)
(* what a step does; Kinds sorts the steps, and each invariant is shown to *)
(* be kept by every kind.                                                  *)
(***************************************************************************)
EXTENDS CommandCenterViews, TLAPS, WellFoundedInduction, FiniteSetTheorems

-----------------------------------------------------------------------------
(* Numbers and sequences.                                                  *)

\* A set of numbers that is not empty has a least one.
LEMMA LeastNumber ==
  ASSUME NEW T \in SUBSET Nat, T # {}
  PROVE  \E x \in T : \A y \in T : x <= y
<1> DEFINE R == OpToRel(<, Nat)
<1>1. IsWellFoundedOn(R, Nat)
  BY NatLessThanWellFounded, Zenon
<1>2. R = {p \in Nat \X Nat : p[1] < p[2]}
  BY Zenon DEF OpToRel
<1> HIDE DEF R
<1>3. PICK x \in T : \A y \in T : ~ (<<y, x>> \in R)
  BY <1>1, WFMin
<1>4. \A y \in T : ~ (y < x)
  BY <1>2, <1>3
<1> QED
  BY <1>4

\* FlattenSeq puts the sequences one after the other: its recursive function
\* exists.
Steps(f, m, g) == g = [i \in 1 .. m |-> IF i = 1 THEN f[i] ELSE g[i - 1] \o f[i]]

LEMMA StepsExist ==
  ASSUME NEW f, NEW n \in Nat, n > 0
  PROVE  \E g : Steps(f, n, g)
<1> DEFINE Bad == {m \in Nat : m > 0 /\ ~ \E g : Steps(f, m, g)}
<1> SUFFICES ASSUME Bad # {} PROVE FALSE
  <2>1. n \notin Bad
    OBVIOUS
  <2> QED
    BY <2>1
<1>1. PICK m \in Bad : \A k \in Bad : m <= k
  BY LeastNumber
<1>2. CASE m = 1
  <2> DEFINE g == [i \in 1 .. 1 |-> f[1]]
  <2>1. Steps(f, 1, g)
    BY DEF Steps
  <2> QED
    BY <2>1, <1>1, <1>2
<1>3. CASE m > 1
  <2>1. PICK g : Steps(f, m - 1, g)
    BY <1>1, <1>3
  <2> DEFINE h == [i \in 1 .. m |-> IF i = m THEN g[m - 1] \o f[m] ELSE g[i]]
  <2>2. h = [i \in 1 .. m |-> IF i = 1 THEN f[i] ELSE h[i - 1] \o f[i]]
    <3> SUFFICES ASSUME NEW i \in 1 .. m PROVE h[i] = IF i = 1 THEN f[i] ELSE h[i - 1] \o f[i]
      OBVIOUS
    <3>1. CASE i = m
      <4>1. m - 1 \in 1 .. m /\ m - 1 # m /\ m \in 1 .. m
        BY <1>1, <1>3
      <4>2. h[m - 1] = g[m - 1] /\ h[m] = g[m - 1] \o f[m]
        BY <4>1
      <4> HIDE DEF h
      <4>3. m # 1
        BY <1>3, <1>1
      <4> QED
        BY <4>2, <4>3, <3>1
    <3>2. CASE i # m
      <4>1. i \in 1 .. m - 1 /\ h[i] = g[i]
        BY <3>2, <1>1
      <4>2. g[i] = IF i = 1 THEN f[i] ELSE g[i - 1] \o f[i]
        BY <4>1, <2>1 DEF Steps
      <4>3. i # 1 => h[i - 1] = g[i - 1]
        BY <4>1, <1>1
      <4> QED
        BY <4>1, <4>2, <4>3
    <3> QED
      BY <3>1, <3>2
  <2>3. Steps(f, m, h)
    BY <2>2 DEF Steps
  <2> QED
    BY <2>3, <1>1
<1> QED
  BY <1>1, <1>2, <1>3

\* Where the elements of a list of sequences come to lie: each of them at one
\* place of F, and nothing else.
Spread(F, S, g, row, col) ==
  /\ row \in [1 .. Len(F) -> S] /\ col \in [1 .. Len(F) -> Nat]
  /\ \A p \in 1 .. Len(F) : col[p] \in 1 .. Len(g[row[p]]) /\ F[p] = g[row[p]][col[p]]
  /\ \A p, q \in 1 .. Len(F) : row[p] = row[q] /\ col[p] = col[q] => p = q
  /\ \A x \in S : \A j \in 1 .. Len(g[x]) : \E p \in 1 .. Len(F) : row[p] = x /\ col[p] = j

LEMMA SpreadNext ==
  ASSUME NEW X, NEW m \in Nat, NEW g \in [1 .. m + 1 -> Seq(X)], NEW F \in Seq(X),
         NEW row, NEW col, Spread(F, 1 .. m, g, row, col)
  PROVE  \E r, c : Spread(F \o g[m + 1], 1 .. m + 1, g, r, c)
<1> DEFINE G == F \o g[m + 1]
           r == [p \in 1 .. Len(G) |-> IF p <= Len(F) THEN row[p] ELSE m + 1]
           c == [p \in 1 .. Len(G) |-> IF p <= Len(F) THEN col[p] ELSE p - Len(F)]
<1>0. /\ row \in [1 .. Len(F) -> 1 .. m] /\ col \in [1 .. Len(F) -> Nat]
      /\ \A p \in 1 .. Len(F) : col[p] \in 1 .. Len(g[row[p]]) /\ F[p] = g[row[p]][col[p]]
      /\ \A p, q \in 1 .. Len(F) : row[p] = row[q] /\ col[p] = col[q] => p = q
      /\ \A x \in 1 .. m : \A j \in 1 .. Len(g[x]) : \E p \in 1 .. Len(F) : row[p] = x /\ col[p] = j
  BY DEF Spread
<1>1. g[m + 1] \in Seq(X) /\ Len(F) \in Nat /\ Len(g[m + 1]) \in Nat
  OBVIOUS
<1>2. /\ G \in Seq(X) /\ Len(G) = Len(F) + Len(g[m + 1])
      /\ \A p \in 1 .. Len(G) : G[p] = IF p <= Len(F) THEN F[p] ELSE g[m + 1][p - Len(F)]
  BY <1>1
<1> HIDE DEF G
<1>3. r \in [1 .. Len(G) -> 1 .. m + 1] /\ c \in [1 .. Len(G) -> Nat]
  <2> SUFFICES ASSUME NEW p \in 1 .. Len(G)
               PROVE  (IF p <= Len(F) THEN row[p] ELSE m + 1) \in 1 .. m + 1
                      /\ (IF p <= Len(F) THEN col[p] ELSE p - Len(F)) \in Nat
    OBVIOUS
  <2>1. CASE p <= Len(F)
    <3>1. p \in 1 .. Len(F)
      BY <2>1, <1>1, <1>2
    <3>2. row[p] \in 1 .. m /\ col[p] \in Nat
      BY <3>1, <1>0
    <3> QED
      BY <3>2, <2>1
  <2>2. CASE ~ (p <= Len(F))
    BY <2>2, <1>1, <1>2
  <2> QED
    BY <2>1, <2>2
<1>4. \A p \in 1 .. Len(G) : c[p] \in 1 .. Len(g[r[p]]) /\ G[p] = g[r[p]][c[p]]
  <2> SUFFICES ASSUME NEW p \in 1 .. Len(G)
               PROVE  c[p] \in 1 .. Len(g[r[p]]) /\ G[p] = g[r[p]][c[p]]
    OBVIOUS
  <2>1. CASE p <= Len(F)
    <3>1. p \in 1 .. Len(F) /\ r[p] = row[p] /\ c[p] = col[p]
      BY <2>1, <1>1, <1>2
    <3> HIDE DEF r, c
    <3> QED
      BY <3>1, <2>1, <1>0, <1>2
  <2>2. CASE ~ (p <= Len(F))
    <3>1. r[p] = m + 1 /\ c[p] = p - Len(F)
      BY <2>2
    <3> HIDE DEF r, c
    <3> QED
      BY <3>1, <2>2, <1>1, <1>2
  <2> QED
    BY <2>1, <2>2
<1>5. ASSUME NEW p \in 1 .. Len(G), NEW q \in 1 .. Len(G), r[p] = r[q], c[p] = c[q]
      PROVE  p = q
  <2>1. CASE p <= Len(F) /\ q <= Len(F)
    <3>1. p \in 1 .. Len(F) /\ q \in 1 .. Len(F) /\ row[p] = row[q] /\ col[p] = col[q]
      BY <2>1, <1>1, <1>2, <1>5
    <3> QED
      BY <3>1, <1>0
  <2>2. CASE p <= Len(F) /\ ~ (q <= Len(F))
    <3>1. p \in 1 .. Len(F) /\ row[p] = m + 1
      BY <2>2, <1>1, <1>2, <1>5
    <3>2. row[p] \in 1 .. m
      BY <3>1, <1>0
    <3> QED
      BY <3>1, <3>2
  <2>3. CASE ~ (p <= Len(F)) /\ q <= Len(F)
    <3>1. q \in 1 .. Len(F) /\ row[q] = m + 1
      BY <2>3, <1>1, <1>2, <1>5
    <3>2. row[q] \in 1 .. m
      BY <3>1, <1>0
    <3> QED
      BY <3>1, <3>2
  <2>4. CASE ~ (p <= Len(F)) /\ ~ (q <= Len(F))
    BY <2>4, <1>1, <1>2, <1>5
  <2> QED
    BY <2>1, <2>2, <2>3, <2>4
<1>6. ASSUME NEW x \in 1 .. m + 1, NEW j \in 1 .. Len(g[x])
      PROVE  \E p \in 1 .. Len(G) : r[p] = x /\ c[p] = j
  <2>1. CASE x = m + 1
    <3>1. Len(F) + j \in 1 .. Len(G) /\ ~ (Len(F) + j <= Len(F))
      BY <2>1, <1>1, <1>2
    <3>2. r[Len(F) + j] = m + 1 /\ c[Len(F) + j] = j
      BY <3>1, <1>1
    <3> QED
      BY <3>1, <3>2, <2>1
  <2>2. CASE x # m + 1
    <3>1. PICK p \in 1 .. Len(F) : row[p] = x /\ col[p] = j
      BY <2>2, <1>0
    <3>2. p \in 1 .. Len(G) /\ p <= Len(F)
      BY <1>1, <1>2
    <3>3. r[p] = x /\ c[p] = j
      BY <3>1, <3>2
    <3> QED
      BY <3>2, <3>3
  <2> QED
    BY <2>1, <2>2
<1> HIDE DEF r, c
<1>7. Spread(G, 1 .. m + 1, g, r, c)
  BY <1>3, <1>4, <1>5, <1>6 DEF Spread
<1> QED
  BY <1>7 DEF G

LEMMA SpreadSame ==
  ASSUME NEW F, NEW S, NEW f, NEW g, NEW row, NEW col, Spread(F, S, f, row, col),
         \A x \in S : f[x] = g[x]
  PROVE  Spread(F, S, g, row, col)
<1>1. \A p \in 1 .. Len(F) : row[p] \in S
  BY DEF Spread
<1> QED
  BY <1>1, SMTT(60) DEF Spread

\* The recursive function of FlattenSeq, step by step.
LEMMA Flattened ==
  ASSUME NEW X, NEW n \in Nat, NEW f \in [1 .. n -> Seq(X)]
  PROVE  /\ FlattenSeq(f) \in Seq(X)
         /\ \E row, col : Spread(FlattenSeq(f), 1 .. n, f, row, col)
<1>0. f \in Seq(Seq(X)) /\ Len(f) = n
  OBVIOUS
<1>1. CASE n = 0
  <2>1. f = << >> /\ FlattenSeq(f) = << >>
    BY <1>0, <1>1 DEF FlattenSeq
  <2> DEFINE e == [p \in 1 .. 0 |-> 0]
  <2>2. Spread(<< >>, 1 .. 0, << >>, e, e)
    BY DEF Spread
  <2>3. << >> \in Seq(X)
    OBVIOUS
  <2> HIDE DEF e
  <2> QED
    BY <2>1, <2>2, <2>3, <1>1
<1>2. CASE n > 0
  <2> DEFINE flatten == CHOOSE g : g = [i \in 1 .. Len(f) |-> IF i = 1 THEN f[i] ELSE g[i - 1] \o f[i]]
  <2>0. Len(f) # 0
    BY <1>0, <1>2
  <2>1. FlattenSeq(f) = flatten[Len(f)]
    BY <2>0, Zenon DEF FlattenSeq
  <2>2. Steps(f, n, flatten)
    <3>1. \E g : g = [i \in 1 .. Len(f) |-> IF i = 1 THEN f[i] ELSE g[i - 1] \o f[i]]
      BY <1>0, <1>2, StepsExist DEF Steps
    <3>2. flatten = [i \in 1 .. Len(f) |-> IF i = 1 THEN f[i] ELSE flatten[i - 1] \o f[i]]
      BY <3>1, Zenon
    <3> HIDE DEF flatten
    <3> QED
      BY <3>2, <1>0 DEF Steps
  <2> HIDE DEF flatten
  <2> DEFINE Ok(m) == /\ flatten[m] \in Seq(X)
                      /\ \E row, col : Spread(flatten[m], 1 .. m, f, row, col)
             Bad == {m \in 1 .. n : ~ Ok(m)}
  <2> SUFFICES ASSUME Bad # {} PROVE FALSE
    <3>1. n \in 1 .. n /\ n \notin Bad
      BY <1>2
    <3>2. Ok(n)
      BY <3>1
    <3> QED
      BY <3>2, <2>1, <1>0
  <2>3. PICK m \in Bad : \A k \in Bad : m <= k
    <3>1. Bad \in SUBSET Nat
      OBVIOUS
    <3> HIDE DEF Bad
    <3> QED
      BY <3>1, LeastNumber
  <2>4. CASE m = 1
    <3>1. flatten[1] = f[1] /\ f[1] \in Seq(X)
      BY <2>2, <1>2 DEF Steps
    <3> DEFINE r == [p \in 1 .. Len(f[1]) |-> 1]
               c == [p \in 1 .. Len(f[1]) |-> p]
    <3>2. Spread(f[1], 1 .. 1, f, r, c)
      BY <3>1 DEF Spread
    <3> HIDE DEF r, c
    <3> QED
      BY <3>1, <3>2, <2>3, <2>4
  <2>5. CASE m > 1
    <3>1. m - 1 \in 1 .. n /\ m \in 1 .. n /\ m - 1 \in Nat
      BY <2>3, <2>5
    <3>2. Ok(m - 1)
      <4>1. m - 1 \notin Bad
        <5> HIDE DEF Bad
        <5> SUFFICES ASSUME m - 1 \in Bad PROVE FALSE
          OBVIOUS
        <5>1. m <= m - 1
          BY <2>3
        <5> QED
          BY <5>1, <3>1
      <4> HIDE DEF Ok
      <4> QED
        BY <4>1, <3>1
    <3>3. flatten[m] = flatten[m - 1] \o f[m]
      <4>1. flatten = [i \in 1 .. n |-> IF i = 1 THEN f[i] ELSE flatten[i - 1] \o f[i]]
        BY <2>2 DEF Steps
      <4>2. \A i \in 1 .. n : flatten[i] = IF i = 1 THEN f[i] ELSE flatten[i - 1] \o f[i]
        BY <4>1, Zenon
      <4>3. m # 1 /\ m \in 1 .. n
        BY <2>5, <3>1
      <4> QED
        BY <4>2, <4>3
    <3>4. PICK row, col : Spread(flatten[m - 1], 1 .. m - 1, f, row, col)
      BY <3>2
    <3> DEFINE g == [i \in 1 .. (m - 1) + 1 |-> f[i]]
    <3>5. g \in [1 .. (m - 1) + 1 -> Seq(X)] /\ (m - 1) + 1 = m /\ g[m] = f[m] /\ f[m] \in Seq(X)
      BY <3>1
    <3>6. \A i \in 1 .. m : g[i] = f[i]
      BY <3>1
    <3>7. \A i \in 1 .. m - 1 : f[i] = g[i]
      BY <3>1
    <3> HIDE DEF g
    <3>8. Spread(flatten[m - 1], 1 .. m - 1, g, row, col)
      <4> DEFINE D == 1 .. m - 1
                 P == flatten[m - 1]
      <4>1. Spread(P, D, f, row, col) /\ \A x \in D : f[x] = g[x]
        BY <3>4, <3>7
      <4> HIDE DEF D, P
      <4>2. Spread(P, D, g, row, col)
        BY <4>1, SpreadSame
      <4> QED
        BY <4>2 DEF D, P
    <3>9. \E r, c : Spread(flatten[m - 1] \o g[(m - 1) + 1], 1 .. (m - 1) + 1, g, r, c)
      BY <3>1, <3>2, <3>5, <3>8, SpreadNext
    <3>10. PICK r, c : Spread(flatten[m], 1 .. m, g, r, c)
      BY <3>9, <3>3, <3>5
    <3>11. Spread(flatten[m], 1 .. m, f, r, c)
      BY <3>10, <3>6, SpreadSame
    <3>12. flatten[m] \in Seq(X)
      BY <3>2, <3>3, <3>5
    <3> QED
      BY <3>11, <3>12, <2>3
  <2> QED
    BY <2>3, <2>4, <2>5
<1> QED
  BY <1>1, <1>2

\* SetToSeq lists every element of a finite set once.
LEMMA Listing ==
  ASSUME NEW S, IsFiniteSet(S)
  PROVE  /\ Cardinality(S) \in Nat
         /\ SetToSeq(S) \in [1 .. Cardinality(S) -> S]
         /\ \A i, j \in 1 .. Cardinality(S) : SetToSeq(S)[i] = SetToSeq(S)[j] => i = j
         /\ \A x \in S : \E i \in 1 .. Cardinality(S) : SetToSeq(S)[i] = x
<1> DEFINE N == Cardinality(S)
           l == SetToSeq(S)
<1>1. N \in Nat /\ ExistsBijection(1 .. N, S)
  BY FS_CardinalityType
<1>2. \E f \in [1 .. N -> S] : IsInjective(f)
  <2>1. PICK f : f \in Bijection(1 .. N, S)
    BY <1>1 DEF ExistsBijection
  <2> QED
    BY <2>1 DEF Bijection, Injection, IsInjective
<1>3. l \in [1 .. N -> S] /\ IsInjective(l)
  BY <1>2, Zenon DEF SetToSeq
<1> HIDE DEF l
<1>4. \A i, j \in 1 .. N : l[i] = l[j] => i = j
  BY <1>3 DEF IsInjective
<1>5. l \in Injection(1 .. N, S)
  BY <1>3, <1>4 DEF Injection, IsInjective
<1>6. Cardinality(1 .. N) = N
  BY <1>1, FS_Interval
<1>7. l \in Surjection(1 .. N, S)
  BY <1>5, <1>6, FS_Injection
<1>8. \A x \in S : \E i \in 1 .. N : l[i] = x
  BY <1>7 DEF Surjection
<1> QED
  BY <1>1, <1>3, <1>4, <1>8 DEF l

\* What ForEach builds.
LEMMA ForEachSpread ==
  ASSUME NEW X, NEW S, IsFiniteSet(S), NEW g \in [S -> Seq(X)],
         NEW F, F = FlattenSeq([i \in 1 .. Cardinality(S) |-> g[SetToSeq(S)[i]]])
  PROVE  F \in Seq(X) /\ \E row, col : Spread(F, S, g, row, col)
<1> DEFINE N == Cardinality(S)
           l == SetToSeq(S)
           f == [i \in 1 .. N |-> g[l[i]]]
<1>1. /\ N \in Nat /\ l \in [1 .. N -> S]
      /\ \A i, j \in 1 .. N : l[i] = l[j] => i = j
      /\ \A x \in S : \E i \in 1 .. N : l[i] = x
  BY Listing
<1>0. F = FlattenSeq(f)
  OBVIOUS
<1> HIDE DEF N, l
<1>2. f \in [1 .. N -> Seq(X)] /\ \A i \in 1 .. N : f[i] = g[l[i]] /\ l[i] \in S
  BY <1>1
<1> HIDE DEF f
<1>3. F \in Seq(X) /\ \E row, col : Spread(F, 1 .. N, f, row, col)
  <2>1. FlattenSeq(f) \in Seq(X) /\ \E row, col : Spread(FlattenSeq(f), 1 .. N, f, row, col)
    BY <1>1, <1>2, Flattened
  <2> QED
    BY <2>1, <1>0
<1>4. PICK r, col : Spread(F, 1 .. N, f, r, col)
  BY <1>3
<1>5. /\ r \in [1 .. Len(F) -> 1 .. N] /\ col \in [1 .. Len(F) -> Nat]
      /\ \A p \in 1 .. Len(F) : col[p] \in 1 .. Len(f[r[p]]) /\ F[p] = f[r[p]][col[p]]
      /\ \A p, q \in 1 .. Len(F) : r[p] = r[q] /\ col[p] = col[q] => p = q
      /\ \A x \in 1 .. N : \A j \in 1 .. Len(f[x]) : \E p \in 1 .. Len(F) : r[p] = x /\ col[p] = j
  BY <1>4 DEF Spread
<1> DEFINE row == [p \in 1 .. Len(F) |-> l[r[p]]]
<1>6. row \in [1 .. Len(F) -> S] /\ \A p \in 1 .. Len(F) : row[p] = l[r[p]] /\ r[p] \in 1 .. N
  BY <1>5, <1>1
<1> HIDE DEF row
<1>7. \A p \in 1 .. Len(F) : f[r[p]] = g[row[p]]
  BY <1>2, <1>6
<1>8. \A p \in 1 .. Len(F) : col[p] \in 1 .. Len(g[row[p]]) /\ F[p] = g[row[p]][col[p]]
  BY <1>5, <1>7
<1>9. ASSUME NEW p \in 1 .. Len(F), NEW q \in 1 .. Len(F), row[p] = row[q], col[p] = col[q]
      PROVE  p = q
  <2>1. l[r[p]] = l[r[q]] /\ r[p] \in 1 .. N /\ r[q] \in 1 .. N
    BY <1>6, <1>9
  <2>2. r[p] = r[q]
    BY <2>1, <1>1
  <2> QED
    BY <2>2, <1>9, <1>5
<1>10. ASSUME NEW x \in S, NEW j \in 1 .. Len(g[x])
       PROVE  \E p \in 1 .. Len(F) : row[p] = x /\ col[p] = j
  <2>1. PICK i \in 1 .. N : l[i] = x
    BY <1>1
  <2>2. f[i] = g[x]
    BY <2>1, <1>2
  <2>3. PICK p \in 1 .. Len(F) : r[p] = i /\ col[p] = j
    BY <2>2, <1>5
  <2> QED
    BY <2>1, <2>3, <1>6
<1>11. Spread(F, S, g, row, col)
  BY <1>5, <1>6, <1>8, <1>9, <1>10 DEF Spread
<1> QED
  BY <1>3, <1>11

-----------------------------------------------------------------------------
(* The record of a source: what each operation of the ledger keeps.        *)

Statuses == Waiting \cup {"absent", "processing", "processed", "failed"}

Places == Opps \cup {Unassociated, Proposed}

Record == [rev : Nat, avail : Seq(Availability), assoc : Places, prior : Places, seq : Nat,
           status : Statuses, done : Nat, retry : BOOLEAN]

\* What a status says of an imported source.
StatusOK(r) ==
  /\ r.status \notin {"absent", "discovered"}
  /\ r.done <= r.rev /\ (r.done = r.rev <=> r.status = "processed")
  /\ r.status \in {"processed", "processing", "failed", "queued"} => Associated(r)
  /\ r.status \in {"processed", "queued"} => Latest(r) = "content"
  /\ r.status = "awaiting_association" => ~Associated(r)
  /\ r.status = "awaiting_content" => Associated(r) /\ Latest(r) # "content"
  /\ r.status = "failed" => r.retry

SourceOK(r) ==
  /\ r \in Record
  /\ r.rev = 0 => r.assoc = Unassociated /\ r.status = "absent"
  /\ r.rev > 0 => StatusOK(r)

\* What no operation but an import and a decision changes.
SameEvidence(q, r) == q.rev = r.rev /\ q.avail = r.avail /\ q.assoc = r.assoc /\ q.seq = r.seq

USE DEF Unassociated, Proposed

LEMMA DeriveOK ==
  ASSUME NEW r \in Record, r.rev > 0, r.status \in Waiting, r.done < r.rev
  PROVE  SourceOK(Derive(r)) /\ SameEvidence(Derive(r), r) /\ Derive(r).prior = r.prior
<1> DEFINE st == IF r.done = r.rev THEN "processed"
                 ELSE IF ~Associated(r) THEN "awaiting_association"
                 ELSE IF Latest(r) # "content" THEN "awaiting_content"
                 ELSE "queued"
           q == [r EXCEPT !.status = st]
<1>1. Derive(r) = q
  BY DEF Derive
<1>2. st \in {"awaiting_association", "awaiting_content", "queued"}
  BY DEF Record
<1>3. /\ st = "awaiting_association" => ~Associated(r)
      /\ st = "awaiting_content" => Associated(r) /\ Latest(r) # "content"
      /\ st = "queued" => Associated(r) /\ Latest(r) = "content"
  BY DEF Record
<1> HIDE DEF st
<1>4. /\ q \in Record /\ q.status = st /\ q.rev = r.rev /\ q.avail = r.avail /\ q.assoc = r.assoc
      /\ q.seq = r.seq /\ q.done = r.done /\ q.prior = r.prior
  BY <1>2 DEF Record, Statuses, Waiting
<1> HIDE DEF q
<1>5. Latest(q) = Latest(r) /\ (Associated(q) <=> Associated(r))
  BY <1>4 DEF Latest, Associated
<1>6. r.done \in Nat /\ r.rev \in Nat
  BY DEF Record
<1>7. StatusOK(q)
  BY <1>2, <1>3, <1>4, <1>5, <1>6 DEF StatusOK
<1> QED
  BY <1>1, <1>4, <1>6, <1>7 DEF SourceOK, SameEvidence

LEMMA NoSourceOK == SourceOK(NoSource)
  BY DEF SourceOK, NoSource, Record, Places, Statuses, Waiting

LEMMA FirstRevisionOK ==
  ASSUME NEW a \in Availability
  PROVE  SourceOK(FirstRevision(a)) /\ FirstRevision(a).rev = 1 /\ FirstRevision(a).assoc = Unassociated
         /\ FirstRevision(a).avail = <<a>>
<1> DEFINE r == [NoSource EXCEPT !.rev = 1, !.avail = <<a>>, !.seq = 1, !.status = "discovered"]
<1>1. /\ NoSource \in Record /\ NoSource.done = 0 /\ NoSource.assoc = Unassociated
      /\ <<a>> \in Seq(Availability) /\ "discovered" \in Statuses
  BY DEF NoSource, Record, Places, Statuses, Waiting
<1>2. r \in Record
  BY <1>1 DEF Record
<1>4. r.status \in Waiting /\ r.done < r.rev /\ r.rev = 1 /\ r.assoc = Unassociated /\ r.avail = <<a>>
  BY <1>1 DEF Record, Waiting
<1> HIDE DEF r
<1>3. SourceOK(Derive(r)) /\ SameEvidence(Derive(r), r)
  BY <1>2, <1>4, DeriveOK
<1> QED
  BY <1>4, <1>3 DEF FirstRevision, SameEvidence, r

LEMMA ImportedOK ==
  ASSUME NEW r, SourceOK(r), NEW a \in Availability
  PROVE  SourceOK(Imported(r, a)) /\ Imported(r, a).assoc = r.assoc /\ Imported(r, a).rev = r.rev + 1
         /\ Imported(r, a).status # "processed" /\ (Imported(r, a).status = "processing" => r.status = "processing")
<1>0. r \in Record /\ r.rev \in Nat
  BY DEF SourceOK, Record
<1>1. CASE r.rev = 0
  <2>1. Imported(r, a) = FirstRevision(a)
    BY <1>1 DEF Imported
  <2>2. FirstRevision(a).status \notin {"processed", "processing"}
    BY DEF FirstRevision, Derive, NoSource, Waiting
  <2> QED
    BY <2>1, <2>2, <1>1, FirstRevisionOK DEF SourceOK
<1>2. CASE r.rev > 0
  <2> DEFINE q == [r EXCEPT !.rev    = @ + 1,
                            !.avail  = Append(@, a),
                            !.status = IF @ = "processing" THEN @ ELSE "discovered",
                            !.retry  = r.status = "processing" /\ @]
  <2>1. Imported(r, a) = Derive(q)
    BY <1>2 DEF Imported
  <2>2. /\ q \in Record /\ q.rev = r.rev + 1 /\ q.assoc = r.assoc /\ q.done = r.done
        /\ q.status = IF r.status = "processing" THEN "processing" ELSE "discovered"
    <3>1. PICK st \in Statuses : st = IF r.status = "processing" THEN r.status ELSE "discovered"
      BY <1>0 DEF Record, Statuses, Waiting
    <3>2. PICK b \in BOOLEAN : b = (r.status = "processing" /\ r.retry)
      BY <1>0 DEF Record
    <3>3. r.avail \in Seq(Availability)
      BY <1>0 DEF Record
    <3>4. Append(r.avail, a) \in Seq(Availability)
      BY <3>3
    <3>5. PICK n \in Nat : n = r.rev + 1
      BY <1>0 DEF Record
    <3>6. [r EXCEPT !.rev = n, !.avail = Append(r.avail, a), !.status = st, !.retry = b] \in Record
      BY <1>0, <3>1, <3>2, <3>4, <3>5 DEF Record
    <3>7. q = [r EXCEPT !.rev = n, !.avail = Append(r.avail, a), !.status = st, !.retry = b]
      BY <3>1, <3>2, <3>5
    <3> QED
      BY <1>0, <3>6, <3>7 DEF Record
  <2>3. q.done < q.rev /\ q.rev > 0 /\ q.done \in Nat /\ q.rev \in Nat
    BY <1>0, <1>2, <2>2 DEF SourceOK, StatusOK, Record
  <2> HIDE DEF q
  <2>4. CASE r.status = "processing"
    <3>1. Derive(q) = q /\ q.status = "processing" /\ Associated(q)
      BY <2>2, <2>4, <1>2 DEF Derive, Waiting, SourceOK, StatusOK, Associated
    <3> QED
      BY <2>1, <2>2, <2>3, <2>4, <3>1 DEF SourceOK, StatusOK
  <2>5. CASE r.status # "processing"
    <3>1. q.status \in Waiting
      BY <2>2, <2>5 DEF Waiting
    <3>2. SourceOK(Derive(q)) /\ SameEvidence(Derive(q), q)
      BY <3>1, <2>2, <2>3, DeriveOK
    <3>3. Derive(q).status \notin {"processed", "processing"}
      BY <3>1, <2>3 DEF Derive, Record, Waiting
    <3> QED
      BY <3>2, <3>3, <2>1, <2>2 DEF SameEvidence
  <2> QED
    BY <2>4, <2>5
<1> QED
  BY <1>0, <1>1, <1>2

LEMMA DeriveRecord ==
  ASSUME NEW r \in Record
  PROVE  Derive(r) \in Record /\ SameEvidence(Derive(r), r) /\ Derive(r).done = r.done /\ Derive(r).prior = r.prior
<1>1. PICK st \in Statuses : Derive(r) = r \/ Derive(r) = [r EXCEPT !.status = st]
  BY DEF Derive, Statuses, Waiting
<1> QED
  BY <1>1 DEF Record, SameEvidence

\* A decision on its own.
LEMMA DecidedRecord ==
  ASSUME NEW r \in Record, NEW a \in Places
  PROVE  /\ Decided(r, a) \in Record /\ Decided(r, a).rev = r.rev /\ Decided(r, a).avail = r.avail
         /\ Decided(r, a).assoc = a /\ Decided(r, a).done = r.done
<1>1. PICK n \in Nat : n = r.seq + 1
  BY DEF Record
<1> DEFINE q == [r EXCEPT !.prior = r.assoc, !.assoc = a, !.seq = n]
<1>2. Decided(r, a) = Derive(q)
  BY <1>1 DEF Decided
<1>3. q \in Record /\ q.rev = r.rev /\ q.avail = r.avail /\ q.assoc = a /\ q.done = r.done
  BY <1>1 DEF Record
<1> HIDE DEF q
<1> QED
  BY <1>2, <1>3, DeriveRecord DEF SameEvidence

\* A decision about a source that waits.
LEMMA DecidedWaiting ==
  ASSUME NEW r \in Record, NEW a \in Places, r.rev > 0, r.status \in Waiting, r.done < r.rev
  PROVE  SourceOK(Decided(r, a)) /\ Decided(r, a).status # "processed"
<1>1. PICK n \in Nat : n = r.seq + 1
  BY DEF Record
<1> DEFINE q == [r EXCEPT !.prior = r.assoc, !.assoc = a, !.seq = n]
<1>2. Decided(r, a) = Derive(q)
  BY <1>1 DEF Decided
<1>3. q \in Record /\ q.rev = r.rev /\ q.done = r.done /\ q.status = r.status
  BY <1>1 DEF Record
<1> HIDE DEF q
<1>4. Derive(q).status # "processed"
  BY <1>3 DEF Derive, Record, Waiting
<1> QED
  BY <1>2, <1>3, <1>4, DeriveOK

LEMMA ResetOK ==
  ASSUME NEW r \in Record, r.rev > 0
  PROVE  /\ SourceOK(Derive(Reset(r))) /\ SameEvidence(Derive(Reset(r)), r)
         /\ Derive(Reset(r)).status \notin {"processed", "processing"}
<1> DEFINE q == Reset(r)
<1>1. "discovered" \in Statuses /\ FALSE \in BOOLEAN
  BY DEF Statuses, Waiting
<1>2. q \in Record
  BY <1>1 DEF Record, Reset
<1>3. /\ q.status = "discovered" /\ q.done = 0 /\ q.rev = r.rev /\ q.avail = r.avail /\ q.assoc = r.assoc
      /\ q.seq = r.seq
  BY DEF Record, Reset
<1> HIDE DEF q
<1>4. q.rev > 0 /\ q.status \in Waiting /\ q.done < q.rev
  BY <1>3 DEF Waiting
<1>5. SourceOK(Derive(q)) /\ SameEvidence(Derive(q), q)
  BY <1>2, <1>4, DeriveOK
<1>6. Derive(q).status \notin {"processed", "processing"}
  BY <1>2, <1>3, <1>4 DEF Derive, Record, Waiting
<1> QED
  BY <1>3, <1>5, <1>6 DEF SameEvidence, q

\* A source that has no association waits.
LEMMA Unassociating ==
  ASSUME NEW r, SourceOK(r), r.rev > 0, ~Associated(r)
  PROVE  r \in Record /\ r.status \in Waiting /\ r.done < r.rev
  BY DEF SourceOK, StatusOK, Record, Statuses, Waiting

LEMMA ProposedOK ==
  ASSUME NEW r, SourceOK(r), r.rev > 0, ~Associated(r), NamesAssumption
  PROVE  /\ SourceOK(ProposedFor(r)) /\ ~Associated(ProposedFor(r)) /\ ProposedFor(r).rev = r.rev
         /\ ProposedFor(r).status # "processed"
<1>1. r \in Record /\ r.status \in Waiting /\ r.done < r.rev
  BY Unassociating
<1>2. "proposed" \in Places /\ "proposed" \notin Opps
  BY DEF Places, NamesAssumption
<1>3. SourceOK(Decided(r, "proposed")) /\ Decided(r, "proposed").status # "processed"
  BY <1>1, <1>2, DecidedWaiting
<1>4. Decided(r, "proposed").rev = r.rev /\ Decided(r, "proposed").assoc = "proposed"
  BY <1>1, <1>2, DecidedRecord
<1> QED
  BY <1>2, <1>3, <1>4 DEF ProposedFor, Associated

LEMMA ConfirmedOK ==
  ASSUME NEW r, SourceOK(r), r.rev > 0, NEW o \in Opps
  PROVE  /\ SourceOK(Confirmed(r, o)) /\ Confirmed(r, o).assoc = o /\ Confirmed(r, o).rev = r.rev
         /\ Confirmed(r, o).status = "processed" => Confirmed(r, o) = r
<1>0. r \in Record /\ o \in Places
  BY DEF SourceOK, Places
<1>1. CASE r.assoc = o
  BY <1>1 DEF Confirmed
<1>2. CASE r.assoc # o /\ Associated(r)
  <2> DEFINE d == Decided(r, o)
  <2>1. Confirmed(r, o) = Derive(Reset(d))
    BY <1>2 DEF Confirmed
  <2>2. d \in Record /\ d.rev = r.rev /\ d.assoc = o
    BY <1>0, DecidedRecord
  <2> HIDE DEF d
  <2>3. /\ SourceOK(Derive(Reset(d))) /\ SameEvidence(Derive(Reset(d)), d)
        /\ Derive(Reset(d)).status \notin {"processed", "processing"}
    BY <2>2, ResetOK
  <2> QED
    BY <2>1, <2>2, <2>3 DEF SameEvidence
<1>3. CASE r.assoc # o /\ ~Associated(r)
  <2>1. Confirmed(r, o) = Decided(r, o)
    BY <1>3 DEF Confirmed
  <2>2. r.status \in Waiting /\ r.done < r.rev
    BY <1>3, Unassociating
  <2> QED
    BY <1>0, <2>1, <2>2, DecidedWaiting, DecidedRecord
<1> QED
  BY <1>1, <1>2, <1>3

LEMMA ClearedOK ==
  ASSUME NEW r, SourceOK(r), r.rev > 0
  PROVE  /\ SourceOK(Cleared(r)) /\ Cleared(r).assoc = Unassociated /\ Cleared(r).rev = r.rev
         /\ Cleared(r).status = "processed" => Cleared(r) = r
<1>0. r \in Record /\ Unassociated \in Places
  BY DEF SourceOK, Places
<1>1. CASE r.assoc = Unassociated
  BY <1>1 DEF Cleared
<1>2. CASE r.assoc # Unassociated
  <2> DEFINE d == Decided(r, Unassociated)
  <2>1. Cleared(r) = Derive(Reset(d))
    BY <1>2 DEF Cleared
  <2>2. d \in Record /\ d.rev = r.rev /\ d.assoc = Unassociated
    BY <1>0, DecidedRecord
  <2> HIDE DEF d
  <2>3. /\ SourceOK(Derive(Reset(d))) /\ SameEvidence(Derive(Reset(d)), d)
        /\ Derive(Reset(d)).status \notin {"processed", "processing"}
    BY <2>2, ResetOK
  <2> QED
    BY <2>1, <2>2, <2>3 DEF SameEvidence
<1> QED
  BY <1>1, <1>2

\* The operations of a run: nothing becomes processed, and the evidence stays.
Steady(q, r) ==
  /\ SourceOK(q) /\ SameEvidence(q, r)
  /\ q.status = "processed" => r.status = "processed" /\ q.done = r.done

LEMMA FailedOK ==
  ASSUME NEW r, SourceOK(r)
  PROVE  Steady(Failed(r), r)
<1>0. r \in Record
  BY DEF SourceOK
<1>1. CASE r.status # "processing"
  BY <1>1 DEF Failed, Steady, SameEvidence
<1>2. CASE r.status = "processing"
  <2> DEFINE q == [r EXCEPT !.status = "failed", !.retry = TRUE]
  <2>1. "failed" \in Statuses
    BY DEF Statuses
  <2>2. q \in Record
    BY <1>0, <2>1 DEF Record
  <2>3. /\ q.status = "failed" /\ q.retry = TRUE /\ q.done = r.done /\ q.rev = r.rev /\ q.avail = r.avail
        /\ q.assoc = r.assoc /\ q.seq = r.seq
    BY <1>0 DEF Record
  <2>4. Failed(r) = q
    BY <1>2 DEF Failed
  <2> HIDE DEF q
  <2>5. SourceOK(q)
    BY <1>2, <2>2, <2>3 DEF SourceOK, StatusOK, Associated, Latest
  <2> QED
    BY <2>3, <2>4, <2>5 DEF Steady, SameEvidence
<1> QED
  BY <1>1, <1>2

LEMMA RetriedOK ==
  ASSUME NEW r, SourceOK(r)
  PROVE  Steady(Retried(r), r) /\ Retried(r).status # "failed"
<1>0. r \in Record /\ r.rev \in Nat
  BY DEF SourceOK, Record
<1>1. CASE ~ (r.status = "failed" /\ r.retry)
  <2>1. r.status # "failed"
    BY <1>0, <1>1 DEF SourceOK, StatusOK
  <2> QED
    BY <1>1, <2>1 DEF Retried, Steady, SameEvidence
<1>2. CASE r.status = "failed" /\ r.retry
  <2> DEFINE q == [r EXCEPT !.status = "discovered", !.retry = FALSE]
  <2>1. "discovered" \in Statuses
    BY DEF Statuses, Waiting
  <2>2. q \in Record
    BY <1>0, <2>1 DEF Record
  <2>3. /\ q.status = "discovered" /\ q.done = r.done /\ q.rev = r.rev /\ q.avail = r.avail
        /\ q.assoc = r.assoc /\ q.seq = r.seq
    BY <1>0 DEF Record
  <2>4. Retried(r) = Derive(q)
    BY <1>2 DEF Retried
  <2>5. r.rev > 0 /\ r.done < r.rev
    BY <1>0, <1>2 DEF SourceOK, StatusOK, Record
  <2> HIDE DEF q
  <2>6. SourceOK(Derive(q)) /\ SameEvidence(Derive(q), q)
    BY <2>2, <2>3, <2>5, DeriveOK DEF Waiting
  <2>7. Derive(q).status \notin {"processed", "failed"}
    BY <2>2, <2>3, <2>5 DEF Derive, Record, Waiting
  <2> QED
    BY <2>3, <2>4, <2>6, <2>7 DEF Steady, SameEvidence
<1> QED
  BY <1>1, <1>2

LEMMA ProcessingOK ==
  ASSUME NEW r, SourceOK(r), CanProcess(r)
  PROVE  Steady(Processing(r), r)
<1>0. r \in Record
  BY DEF SourceOK
<1>1. r.rev > 0 /\ StatusOK(r) /\ Associated(r) /\ r.done # r.rev
  BY <1>0 DEF SourceOK, StatusOK, CanProcess, Record
<1> DEFINE q == [r EXCEPT !.status = "processing"]
<1>2. "processing" \in Statuses
  BY DEF Statuses
<1>3. q \in Record
  BY <1>0, <1>2 DEF Record
<1>4. /\ q.status = "processing" /\ q.done = r.done /\ q.rev = r.rev /\ q.avail = r.avail
      /\ q.assoc = r.assoc /\ q.seq = r.seq
  BY <1>0 DEF Record
<1>5. Processing(r) = q
  BY DEF Processing
<1> HIDE DEF q
<1>6. SourceOK(q)
  BY <1>1, <1>3, <1>4 DEF SourceOK, StatusOK, Associated
<1> QED
  BY <1>4, <1>5, <1>6 DEF Steady, SameEvidence

LEMMA ReprocessableOK ==
  ASSUME NEW r, SourceOK(r)
  PROVE  /\ Steady(Reprocessable(r), r)
         /\ Reprocessable(r).status # "processed"
<1>0. r \in Record /\ r.rev \in Nat
  BY DEF SourceOK, Record
<1>1. CASE r.rev = 0 \/ r.status = "processing"
  BY <1>1 DEF Reprocessable, Steady, SameEvidence, SourceOK
<1>2. CASE ~ (r.rev = 0 \/ r.status = "processing")
  <2>1. Reprocessable(r) = Derive(Reset(r)) /\ r.rev > 0
    BY <1>0, <1>2 DEF Reprocessable
  <2> QED
    BY <1>0, <2>1, ResetOK DEF Steady
<1> QED
  BY <1>1, <1>2

\* mark_processed at the end of a commit, which found the source unchanged.
LEMMA MarkedOK ==
  ASSUME NEW r, SourceOK(r), r.rev > 0, Associated(r), Latest(r) = "content"
  PROVE  SourceOK(MarkedProcessed(r, r.rev)) /\ SameEvidence(MarkedProcessed(r, r.rev), r)
         /\ MarkedProcessed(r, r.rev).done = r.rev /\ MarkedProcessed(r, r.rev).status = "processed"
<1>0. r \in Record /\ r.rev \in Nat
  BY DEF SourceOK, Record
<1> DEFINE q == [r EXCEPT !.status = "processed", !.done = r.rev, !.retry = FALSE]
<1>2. "processed" \in Statuses
  BY DEF Statuses
<1>3. q \in Record
  BY <1>0, <1>2 DEF Record
<1>4. /\ q.status = "processed" /\ q.done = r.rev /\ q.rev = r.rev /\ q.avail = r.avail
      /\ q.assoc = r.assoc /\ q.seq = r.seq
  BY <1>0 DEF Record
<1>5. MarkedProcessed(r, r.rev) = q
  BY DEF MarkedProcessed
<1> HIDE DEF q
<1>6. SourceOK(q)
  BY <1>0, <1>3, <1>4 DEF SourceOK, StatusOK, Associated, Latest
<1> QED
  BY <1>4, <1>5, <1>6 DEF SameEvidence

-----------------------------------------------------------------------------
(* What the state is made of.                                              *)

Ids == Sources \cup {None}

Sayings     == {"nothing", "open", "proposed", "done"}
MoveTargets == {"open", "proposed", "blocked", "completed", "dismissed"}
ChangeTypes == {"action_transition", "overview_revision", "completion_suggested", "action_created", "action_linked",
                "possible_duplicate_flagged", "association_corrected", "suggestion_retracted", "overview_retired",
                "overview_reverted"}

Version == [cites : SUBSET (Ids \X Nat), from : SUBSET Sources, by : Ids \X Nat,
            rt : {"model", "gmail_forget", "association_correction"}, obs : Sayings]
Hint    == [src : Sources, rev : Nat, live : BOOLEAN]
Move    == [to : MoveTargets, by : {"analysis", "user", "undo"}]
Trail   == {t \in Seq(Move) : Len(t) > 0 => t[1].by = "analysis"}
Action  == [trans : Trail, origin : Nat, evidence : SUBSET Nat, hints : SUBSET Hint,
            dup : BOOLEAN, retracted : BOOLEAN]
Change  == [type : ChangeTypes, subject : Sources \cup Nat, n : Nat, src : Ids]
Marker  == [o : Opps \cup {None}, rev : Nat, base : Nat, seq : Nat]
JobRec  == [phase : {"none", "ready", "model", "commit", "resume"}, o : Opps \cup {None},
            rev : Nat, base : Nat, seq : Nat, obs : Sayings]
Startup == [s : Ids, kind : {"none", "first", "again"}, snap : Record, base : Nat]
Holder  == [kind : {"none", "commit", "correct", "forget", "human", "repair"}, s : Ids]

GoodRecord == {r \in Record : SourceOK(r)}

Writes ==
  [w : {"action"}, o : Opps, s : Sources, val : Action]
  \cup [w : {"change"}, o : Opps, val : Change]
  \cup [w : {"source"}, s : Sources, val : GoodRecord]
  \cup [w : {"pending"}, s : Sources, val : Marker]
  \cup [w : {"version"}, o : Opps, val : Version]
  \cup [w : {"retired"}, o : Opps, val : Sources]
  \cup [w : {"receipt"}, s : Sources, val : {"pending", "complete"}]

StoredTypes ==
  /\ ledger \in [Sources -> Record] /\ \A s \in Sources : SourceOK(ledger[s])
  /\ receipts \in [Sources -> {"none", "pending", "complete"}]
  /\ history \in [Opps -> Seq(Version)]
  /\ retired \in [Opps -> Ids]
  /\ actions \in [Opps -> [Sources -> Action]]
  /\ changes \in [Opps -> Seq(Change)]
  /\ pending \in [Sources -> Marker]

RunTypes ==
  /\ jobs \in [Sources -> JobRec] /\ \A s \in Sources : jobs[s].phase # "none" => jobs[s].o \in Opps
  /\ start \in Startup /\ SourceOK(start.snap)
  /\ start # NoStart => start.s \in Sources /\ Associated(start.snap)
  /\ work \in Holder /\ todo \in Seq(Writes) /\ (todo = <<>> <=> work = NoWork)
  /\ work.kind = "commit" => work.s \in Sources
  /\ counts \in [requests : Nat, faults : Nat, torn : BOOLEAN]

CenterTypes == StoredTypes /\ RunTypes

LEMMA WriteTypes ==
  ASSUME NEW x \in Writes
  PROVE  /\ x.w \in {"action", "change", "source", "pending", "version", "retired", "receipt"}
         /\ x.w = "action"  => x.o \in Opps /\ x.s \in Sources /\ x.val \in Action
         /\ x.w = "change"  => x.o \in Opps /\ x.val \in Change
         /\ x.w = "source"  => x.s \in Sources /\ x.val \in Record /\ SourceOK(x.val)
         /\ x.w = "pending" => x.s \in Sources /\ x.val \in Marker
         /\ x.w = "version" => x.o \in Opps /\ x.val \in Version
         /\ x.w = "retired" => x.o \in Opps /\ x.val \in Sources
         /\ x.w = "receipt" => x.s \in Sources /\ x.val \in {"pending", "complete"}
  BY DEF Writes, GoodRecord

\* Sequences over a smaller and a larger set.
LEMMA SeqOver ==
  ASSUME NEW X, NEW Y, NEW F \in Seq(X), \A p \in 1 .. Len(F) : F[p] \in Y
  PROVE  F \in Seq(Y)
  OBVIOUS

LEMMA SeqJoin ==
  ASSUME NEW X, NEW F \in Seq(X), NEW G \in Seq(X)
  PROVE  /\ F \o G \in Seq(X) /\ Len(F \o G) = Len(F) + Len(G)
         /\ \A p \in 1 .. Len(F) : (F \o G)[p] = F[p]
         /\ \A p \in 1 .. Len(G) : (F \o G)[Len(F) + p] = G[p]
         /\ \A p \in 1 .. Len(F \o G) : p <= Len(F) \/ (p - Len(F) \in 1 .. Len(G) /\ (F \o G)[p] = G[p - Len(F)])
  OBVIOUS

LEMMA SeqOne ==
  ASSUME NEW X, NEW x \in X
  PROVE  <<x>> \in Seq(X) /\ Len(<<x>>) = 1 /\ <<x>>[1] = x
  OBVIOUS

LEMMA SeqEmpty ==
  ASSUME NEW X, NEW F \in Seq(X)
  PROVE  Len(F) \in Nat /\ (Len(F) = 0 => F = <<>>)
  OBVIOUS

LEMMA SeqNone == ASSUME NEW X PROVE <<>> \in Seq(X) /\ Len(<<>>) = 0
  OBVIOUS

\* The writes of one file.
LEMMA OneWrite ==
  ASSUME NEW o \in Opps, NEW s \in Sources
  PROVE  /\ \A a \in Action : [w |-> "action", o |-> o, s |-> s, val |-> a] \in Writes
         /\ \A e \in Change : [w |-> "change", o |-> o, val |-> e] \in Writes
         /\ \A r \in GoodRecord : [w |-> "source", s |-> s, val |-> r] \in Writes
         /\ \A m \in Marker : [w |-> "pending", s |-> s, val |-> m] \in Writes
         /\ \A v \in Version : [w |-> "version", o |-> o, val |-> v] \in Writes
         /\ [w |-> "retired", o |-> o, val |-> s] \in Writes
         /\ \A st \in {"pending", "complete"} : [w |-> "receipt", s |-> s, val |-> st] \in Writes
  BY DEF Writes

-----------------------------------------------------------------------------
(* What the operations write.                                              *)

\* Changes other than those of a user's transition.
Logged(o) == {x \in Writes : x.w = "change" /\ x.o = o /\ x.val.type # "action_transition"}

\* The change of a user's transition.
Records(x, o, s, n) ==
  x.w = "change" /\ x.o = o /\ x.val.type = "action_transition" /\ x.val.subject = s /\ x.val.n = n

Recorded(o, s, n) == \E i \in 1 .. Len(changes[o]) :
  changes[o][i].type = "action_transition" /\ changes[o][i].subject = s /\ changes[o][i].n = n

LEMMA ChangeWritten ==
  ASSUME NEW o \in Opps, NEW type \in ChangeTypes, NEW subject \in Sources \cup Nat, NEW n \in Nat, NEW src \in Ids
  PROVE  LET x == [w |-> "change", o |-> o, val |-> Entry(type, subject, n, src)] IN
         /\ WriteChange(o, Entry(type, subject, n, src)) = <<x>>
         /\ x \in Writes /\ x.w = "change" /\ x.o = o
         /\ x.val.type = type /\ x.val.subject = subject /\ x.val.n = n
<1>1. Entry(type, subject, n, src) \in Change
  BY DEF Entry, Change
<1>2. [w |-> "change", o |-> o, val |-> Entry(type, subject, n, src)] \in Writes
  BY <1>1 DEF Writes
<1> QED
  BY <1>2 DEF WriteChange, Entry

LEMMA LoggedWritten ==
  ASSUME NEW o \in Opps, NEW type \in ChangeTypes, NEW subject \in Sources \cup Nat, NEW n \in Nat, NEW src \in Ids,
         type # "action_transition"
  PROVE  /\ WriteChange(o, Entry(type, subject, n, src)) \in Seq(Logged(o))
         /\ EnsureChange(o, type, subject, src, n) \in Seq(Logged(o))
<1> DEFINE x == [w |-> "change", o |-> o, val |-> Entry(type, subject, n, src)]
<1>1. /\ WriteChange(o, Entry(type, subject, n, src)) = <<x>>
      /\ x \in Writes /\ x.w = "change" /\ x.o = o /\ x.val.type = type
  BY ChangeWritten
<1> HIDE DEF x
<1>2. x \in Logged(o)
  BY <1>1 DEF Logged
<1>3. <<x>> \in Seq(Logged(o)) /\ <<>> \in Seq(Logged(o))
  BY <1>2
<1> QED
  BY <1>1, <1>3 DEF EnsureChange

\* _change_exists of a transition.
LEMMA ChangeRecorded ==
  ASSUME StoredTypes, NEW o \in Opps, NEW s, NEW n
  PROVE  ChangeExists(o, "action_transition", s, n) <=> Recorded(o, s, n)
<1>1. DOMAIN changes[o] = 1 .. Len(changes[o])
  BY DEF StoredTypes
<1> QED
  BY <1>1 DEF ChangeExists, Recorded, ToSet

\* No transition is recorded twice by F.
Once(F) ==
  \A p, q \in 1 .. Len(F) :
    /\ F[p].w = "change" /\ F[q].w = "change" /\ F[p].o = F[q].o
    /\ F[p].val.type = "action_transition" /\ F[q].val.type = "action_transition"
    /\ F[p].val.subject = F[q].val.subject /\ F[p].val.n = F[q].val.n
    => p = q

\* The repair of an action's changes.
Repaired(o, s) ==
  {x \in Writes : \E n \in 1 .. Len(actions[o][s].trans) :
     Records(x, o, s, n) /\ actions[o][s].trans[n].by # "analysis" /\ ~Recorded(o, s, n)}

LEMMA RepairDone ==
  ASSUME StoredTypes, NEW o \in Opps, NEW s \in Sources
  PROVE  /\ RepairWrites(o, s) \in Seq(Repaired(o, s)) /\ Once(RepairWrites(o, s))
         /\ \A n \in 1 .. Len(actions[o][s].trans) :
              actions[o][s].trans[n].by # "analysis" =>
                \/ Recorded(o, s, n)
                \/ \E p \in 1 .. Len(RepairWrites(o, s)) : Records(RepairWrites(o, s)[p], o, s, n)
<1> DEFINE missing == {n \in 1 .. Len(actions[o][s].trans) :
                         /\ actions[o][s].trans[n].by # "analysis"
                         /\ ~ChangeExists(o, "action_transition", s, n)}
           W(n) == WriteChange(o, Entry("action_transition", s, n, None))
           x(n) == [w |-> "change", o |-> o, val |-> Entry("action_transition", s, n, None)]
           g == [n \in missing |-> W(n)]
           F == RepairWrites(o, s)
<1>1. F = FlattenSeq([i \in 1 .. Cardinality(missing) |-> W(SetToSeq(missing)[i])])
  BY Zenon DEF RepairWrites, ForEach
<1>2. Len(actions[o][s].trans) \in Nat /\ actions[o][s].trans \in Seq(Move)
  BY DEF StoredTypes, Action, Trail
<1>3. IsFiniteSet(missing) /\ missing \subseteq Nat
  <2>1. missing \subseteq 1 .. Len(actions[o][s].trans)
    OBVIOUS
  <2>2. IsFiniteSet(1 .. Len(actions[o][s].trans))
    BY <1>2, FS_Interval
  <2> HIDE DEF missing
  <2>3. missing \in SUBSET (1 .. Len(actions[o][s].trans)) /\ 1 .. Len(actions[o][s].trans) \subseteq Nat
    BY <2>1, <1>2
  <2> QED
    BY <2>2, <2>3, FS_Subset
<1>4. \A n \in missing : /\ n \in 1 .. Len(actions[o][s].trans) /\ actions[o][s].trans[n].by # "analysis"
                        /\ ~Recorded(o, s, n)
  BY ChangeRecorded
<1>5. \A n \in 1 .. Len(actions[o][s].trans) : actions[o][s].trans[n].by # "analysis" =>
        Recorded(o, s, n) \/ n \in missing
  BY ChangeRecorded
<1> HIDE DEF missing
<1>6. \A n \in missing : W(n) = <<x(n)>> /\ x(n) \in Repaired(o, s) /\ Records(x(n), o, s, n)
  <2> SUFFICES ASSUME NEW n \in missing PROVE W(n) = <<x(n)>> /\ x(n) \in Repaired(o, s) /\ Records(x(n), o, s, n)
    OBVIOUS
  <2>1. W(n) = <<x(n)>> /\ x(n) \in Writes /\ Records(x(n), o, s, n)
    <3> HIDE DEF x, W
    <3>0. n \in Nat
      BY <1>3
    <3>1. "action_transition" \in ChangeTypes /\ s \in Sources \cup Nat /\ n \in Nat /\ None \in Ids
      BY <3>0 DEF Ids, ChangeTypes
    <3>2. /\ W(n) = <<x(n)>> /\ x(n) \in Writes /\ x(n).w = "change" /\ x(n).o = o
          /\ x(n).val.type = "action_transition" /\ x(n).val.subject = s /\ x(n).val.n = n
      BY <3>1, ChangeWritten DEF x, W
    <3> QED
      BY <3>2 DEF Records
  <2> HIDE DEF x, W
  <2> QED
    BY <2>1, <1>4 DEF Repaired
<1> HIDE DEF x
<1>7. g \in [missing -> Seq(Repaired(o, s))] /\ \A n \in missing : Len(g[n]) = 1 /\ g[n][1] = x(n)
  <2>1. \A n \in missing : <<x(n)>> \in Seq(Repaired(o, s)) /\ Len(<<x(n)>>) = 1 /\ <<x(n)>>[1] = x(n)
    BY <1>6
  <2> HIDE DEF W
  <2> QED
    BY <1>6, <2>1
<1>8. F = FlattenSeq([i \in 1 .. Cardinality(missing) |-> g[SetToSeq(missing)[i]]])
  <2>1. \A i \in 1 .. Cardinality(missing) : SetToSeq(missing)[i] \in missing
    BY <1>3, Listing
  <2>2. [i \in 1 .. Cardinality(missing) |-> W(SetToSeq(missing)[i])]
          = [i \in 1 .. Cardinality(missing) |-> g[SetToSeq(missing)[i]]]
    <3> HIDE DEF W
    <3> QED
      BY <2>1
  <2> HIDE DEF g, F, W
  <2> QED
    BY <1>1, <2>2
<1> HIDE DEF g, F
<1>9. F \in Seq(Repaired(o, s)) /\ \E row, col : Spread(F, missing, g, row, col)
  BY <1>3, <1>7, <1>8, ForEachSpread
<1>10. PICK row, col : Spread(F, missing, g, row, col)
  BY <1>9
<1>11. \A p \in 1 .. Len(F) : row[p] \in missing /\ col[p] = 1 /\ F[p] = x(row[p])
  BY <1>10, <1>7 DEF Spread
<1>12. \A p, q \in 1 .. Len(F) : row[p] = row[q] => p = q
  BY <1>10, <1>11 DEF Spread
<1>13. Once(F)
  BY <1>11, <1>12, <1>6 DEF Once, Records
<1>14. \A n \in missing : \E p \in 1 .. Len(F) : Records(F[p], o, s, n)
  <2> SUFFICES ASSUME NEW n \in missing PROVE \E p \in 1 .. Len(F) : Records(F[p], o, s, n)
    OBVIOUS
  <2>1. 1 \in 1 .. Len(g[n])
    BY <1>7
  <2>2. PICK p \in 1 .. Len(F) : row[p] = n
    BY <2>1, <1>10 DEF Spread
  <2> QED
    BY <2>2, <1>11, <1>6
<1> QED
  BY <1>5, <1>9, <1>13, <1>14 DEF F

\* What an application to an opportunity may do to an action: it keeps what is
\* there, adds hints of the source, or opens the source's own action.
AppliedAction(o, s, x) ==
  /\ x.w = "action" /\ x.o = o
  /\ \/ /\ x.val.trans = actions[o][x.s].trans /\ x.val.trans # <<>>
        /\ x.val.retracted = actions[o][x.s].retracted
     \/ x.s = s /\ actions[o][s].trans = <<>> /\ Len(x.val.trans) = 1
  /\ \A h \in x.val.hints : h \in actions[o][x.s].hints \/ h.src = s

Applied(o, s) == {x \in Writes : x \in Logged(o) \/ AppliedAction(o, s, x)}

\* What a source says of an action is evident from it, or will be once x is written.
Evident(o, s, r)   == actions[o][s].trans # <<>> /\ r \in actions[o][s].evidence
Brings(x, o, s, r) == x.w = "action" /\ x.o = o /\ x.s = s /\ x.val.trans # <<>> /\ r \in x.val.evidence

\* An action that keeps its evidence, and one that gets the evidence of a revision.
SameAction(x) == x.val.trans = actions[x.o][x.s].trans /\ x.val.evidence = actions[x.o][x.s].evidence

LinkedAction(o, s, rev, x) ==
  /\ x.o = o /\ x.s = s /\ x.val.trans # <<>>
  /\ x.val.evidence = (IF actions[o][s].trans = <<>> THEN {} ELSE actions[o][s].evidence) \cup {rev}

Hinting(o, s)      == {x \in Applied(o, s) : x.w = "action" => SameAction(x)}
Linking(o, s, rev) == {x \in Applied(o, s) : x.w = "action" => LinkedAction(o, s, rev, x)}

LEMMA LoggedIsApplied ==
  ASSUME NEW o, NEW s, NEW F \in Seq(Logged(o))
  PROVE  F \in Seq(Applied(o, s)) /\ F \in Seq(Hinting(o, s)) /\ \A rev : F \in Seq(Linking(o, s, rev))
<1>1. \A x \in Logged(o) : x \in Applied(o, s) /\ x.w # "action"
  BY DEF Logged, Applied
<1>2. \A p \in 1 .. Len(F) : F[p] \in Applied(o, s) /\ F[p] \in Hinting(o, s) /\ \A rev : F[p] \in Linking(o, s, rev)
  BY <1>1 DEF Hinting, Linking
<1> QED
  BY <1>2, SeqOver

LEMMA HintsApplied ==
  ASSUME StoredTypes, IsFiniteSet(Sources), NEW o \in Opps, NEW s \in Sources, NEW rev \in Nat
  PROVE  HintWrites(o, s, rev) \in Seq(Hinting(o, s))
<1> DEFINE open == {t \in Sources : LET a == actions[o][t] IN
                      Exists(a) /\ ~a.retracted /\ Status(a) \in {"open", "blocked"}}
           New(t) == \A h \in actions[o][t].hints : <<h.src, h.rev>> # <<s, rev>>
           Hinted(t) == [actions[o][t] EXCEPT !.hints = @ \cup {[src |-> s, rev |-> rev, live |-> TRUE]}]
           A(t) == IF New(t) THEN WriteAction(o, t, Hinted(t)) ELSE <<>>
           W(t) == A(t) \o EnsureChange(o, "completion_suggested", t, s, rev)
           g == [t \in open |-> W(t)]
           F == HintWrites(o, s, rev)
<1>1. F = FlattenSeq([i \in 1 .. Cardinality(open) |-> W(SetToSeq(open)[i])])
  BY Zenon DEF HintWrites, ForEach
<1>2. open \in SUBSET Sources /\ \A t \in open : actions[o][t].trans # <<>>
  BY DEF Exists
<1> HIDE DEF open
<1>3. IsFiniteSet(open)
  BY <1>2, FS_Subset
<1>4. ASSUME NEW t \in open PROVE A(t) \in Seq(Hinting(o, s))
  <2>0. t \in Sources /\ actions[o][t] \in Action
    BY <1>2 DEF StoredTypes
  <2>1. PICK a \in Action : a = actions[o][t]
    BY <2>0
  <2>2. PICK h \in Hint : h = [src |-> s, rev |-> rev, live |-> TRUE]
    BY DEF Hint
  <2>3. PICK b : b = [a EXCEPT !.hints = @ \cup {h}]
    OBVIOUS
  <2>4. b \in Action /\ b.trans = a.trans /\ b.retracted = a.retracted /\ b.hints = a.hints \cup {h} /\ b.evidence = a.evidence
    BY <2>1, <2>2, <2>3 DEF Action
  <2>5. Hinted(t) = b
    BY <2>1, <2>2, <2>3
  <2> DEFINE x == [w |-> "action", o |-> o, s |-> t, val |-> b]
  <2>6. x \in Writes /\ x.w = "action" /\ x.o = o /\ x.s = t /\ x.val = b
    BY <2>0, <2>4, OneWrite
  <2> HIDE DEF x
  <2>7. h.src = s
    BY <2>2
  <2>8. x \in Hinting(o, s)
    BY <2>1, <2>4, <2>6, <2>7, <1>2 DEF Hinting, Applied, AppliedAction, SameAction
  <2>9. WriteAction(o, t, Hinted(t)) = <<x>>
    BY <2>5 DEF WriteAction, x
  <2>10. <<x>> \in Seq(Hinting(o, s)) /\ <<>> \in Seq(Hinting(o, s))
    BY <2>8
  <2> HIDE DEF New, Hinted
  <2> QED
    BY <2>9, <2>10
<1>5. ASSUME NEW t \in open PROVE W(t) \in Seq(Hinting(o, s))
  <2>1. EnsureChange(o, "completion_suggested", t, s, rev) \in Seq(Hinting(o, s))
    <3>1. "completion_suggested" \in ChangeTypes /\ t \in Sources \cup Nat /\ s \in Ids
      BY <1>2 DEF ChangeTypes, Ids
    <3>2. EnsureChange(o, "completion_suggested", t, s, rev) \in Seq(Logged(o))
      BY <3>1, LoggedWritten
    <3> QED
      BY <3>2, LoggedIsApplied
  <2>2. A(t) \in Seq(Hinting(o, s))
    BY <1>4
  <2> HIDE DEF A
  <2> QED
    BY <2>1, <2>2
<1> HIDE DEF W
<1>6. g \in [open -> Seq(Hinting(o, s))]
  BY <1>5
<1>7. F = FlattenSeq([i \in 1 .. Cardinality(open) |-> g[SetToSeq(open)[i]]])
  <2>1. \A i \in 1 .. Cardinality(open) : SetToSeq(open)[i] \in open
    BY <1>3, Listing
  <2>2. [i \in 1 .. Cardinality(open) |-> W(SetToSeq(open)[i])]
          = [i \in 1 .. Cardinality(open) |-> g[SetToSeq(open)[i]]]
    BY <2>1
  <2> HIDE DEF g, F
  <2> QED
    BY <1>1, <2>2
<1> HIDE DEF g, F
<1>8. F \in Seq(Hinting(o, s))
  BY <1>3, <1>6, <1>7, ForEachSpread
<1> QED
  BY <1>8 DEF F

LEMMA NoActionType == NoAction \in Action /\ NoAction.hints = {} /\ NoAction.trans = <<>>
<1>1. <<>> \in Trail /\ {} \in SUBSET Nat /\ {} \in SUBSET Hint /\ 0 \in Nat /\ FALSE \in BOOLEAN
  BY SeqNone DEF Trail
<1>2. NoAction \in Action
  BY <1>1 DEF NoAction, Action
<1>3. NoAction.hints = {} /\ NoAction.trans = <<>>
  BY DEF NoAction
<1> QED
  BY <1>2, <1>3

LEMMA ActionsApplied ==
  ASSUME StoredTypes, NEW o \in Opps, NEW s \in Sources, NEW rev \in Nat, NEW obs \in {"open", "proposed"}
  PROVE  LET F == ActionWrites(o, s, rev, obs) IN
         F \in Seq(Linking(o, s, rev)) /\ (Evident(o, s, rev) \/ \E p \in 1 .. Len(F) : Brings(F[p], o, s, rev))
<1>1. PICK a \in Action : a = actions[o][s]
  BY DEF StoredTypes
<1>2. PICK dup \in BOOLEAN : dup = \E t \in Sources \ {s} : Exists(actions[o][t]) /\ ~actions[o][t].retracted
  OBVIOUS
<1> DEFINE Created(flag) == EnsureChange(o, "action_created", s, s, rev)
                            \o (IF flag THEN EnsureChange(o, "possible_duplicate_flagged", s, s, rev) ELSE <<>>)
           Linked == EnsureChange(o, "action_linked", s, s, rev)
           new == [NoAction EXCEPT !.trans = <<[to |-> IF dup THEN "proposed" ELSE obs, by |-> "analysis"]>>,
                                   !.origin = rev, !.evidence = {rev}, !.dup = dup]
           more == [a EXCEPT !.evidence = @ \cup {rev}]
<1>3. s \in Sources \cup Nat /\ s \in Ids
      /\ {"action_created", "possible_duplicate_flagged", "action_linked"} \subseteq ChangeTypes
  BY DEF Ids, ChangeTypes
<1>4. /\ EnsureChange(o, "action_created", s, s, rev) \in Seq(Logged(o))
      /\ EnsureChange(o, "possible_duplicate_flagged", s, s, rev) \in Seq(Logged(o))
      /\ Linked \in Seq(Logged(o)) /\ <<>> \in Seq(Logged(o))
  BY <1>3, LoggedWritten
<1> HIDE DEF Linked
<1>5. \A flag : Created(flag) \in Seq(Logged(o))
  BY <1>4
<1>6. \A flag : Created(flag) \in Seq(Linking(o, s, rev))
  BY <1>5, LoggedIsApplied
<1>7. Linked \in Seq(Linking(o, s, rev))
  BY <1>4, LoggedIsApplied
<1> HIDE DEF Created
<1>8. a.trans = <<>> => \E x \in Linking(o, s, rev) : WriteAction(o, s, new) = <<x>> /\ Brings(x, o, s, rev)
  <2> HAVE a.trans = <<>>
  <2>10. PICK m : m = [to |-> IF dup THEN "proposed" ELSE obs, by |-> "analysis"]
    OBVIOUS
  <2>1. m \in Move /\ m = [to |-> IF dup THEN "proposed" ELSE obs, by |-> "analysis"] /\ m.by = "analysis"
    BY <2>10 DEF Move, MoveTargets
  <2>2. PICK ms \in Trail : ms = <<m>> /\ Len(ms) = 1
    <3>1. <<m>> \in Seq(Move) /\ Len(<<m>>) = 1 /\ <<m>>[1] = m
      BY <2>1, SeqOne
    <3>2. <<m>> \in Trail
      BY <2>1, <3>1 DEF Trail
    <3> QED
      BY <3>1, <3>2
  <2>9. PICK z \in Action : z = NoAction /\ z.hints = {}
    BY NoActionType
  <2>3. PICK b : b = [z EXCEPT !.trans = ms, !.origin = rev, !.evidence = {rev}, !.dup = dup]
    OBVIOUS
  <2>4. b \in Action /\ b.trans = ms /\ b.hints = {} /\ b.evidence = {rev}
    BY <2>2, <2>3, <2>9, <1>2 DEF Action
  <2>5. new = b
    BY <2>1, <2>2, <2>3, <2>9
  <2> DEFINE x == [w |-> "action", o |-> o, s |-> s, val |-> b]
  <2>6. x \in Writes /\ x.w = "action" /\ x.o = o /\ x.s = s /\ x.val = b
    BY <2>4, OneWrite
  <2>7. WriteAction(o, s, new) = <<x>>
    BY <2>5 DEF WriteAction
  <2> HIDE DEF x, new
  <2>8. x \in Applied(o, s)
    BY <2>2, <2>4, <2>6, <1>1 DEF Applied, AppliedAction
  <2>11. ms # <<>>
    BY <2>2
  <2>12. LinkedAction(o, s, rev, x) /\ Brings(x, o, s, rev)
    BY <2>4, <2>6, <2>11, <1>1 DEF LinkedAction, Brings
  <2> QED
    BY <2>7, <2>8, <2>12 DEF Linking
<1>9. a.trans # <<>> => \E x \in Linking(o, s, rev) : WriteAction(o, s, more) = <<x>> /\ Brings(x, o, s, rev)
  <2> HAVE a.trans # <<>>
  <2>1. more \in Action /\ more.trans = a.trans /\ more.hints = a.hints /\ more.retracted = a.retracted
        /\ more.evidence = a.evidence \cup {rev}
    BY <1>1 DEF Action
  <2> DEFINE x == [w |-> "action", o |-> o, s |-> s, val |-> more]
  <2>2. x \in Writes /\ x.w = "action" /\ x.o = o /\ x.s = s /\ x.val = more
    BY <2>1, OneWrite
  <2>3. WriteAction(o, s, more) = <<x>>
    BY DEF WriteAction
  <2> HIDE DEF x, more
  <2>4. x \in Applied(o, s)
    BY <2>1, <2>2, <1>1 DEF Applied, AppliedAction
  <2>5. LinkedAction(o, s, rev, x) /\ Brings(x, o, s, rev)
    BY <2>1, <2>2, <1>1 DEF LinkedAction, Brings
  <2> QED
    BY <2>3, <2>4, <2>5 DEF Linking
<1>10. ActionWrites(o, s, rev, obs) =
         IF ~Exists(a) THEN WriteAction(o, s, new) \o Created(dup)
         ELSE IF rev \notin a.evidence THEN WriteAction(o, s, more) \o Linked
         ELSE IF a.origin = rev THEN Created(a.dup)
         ELSE Linked
  BY <1>1, <1>2, Zenon DEF ActionWrites, Created, Linked
<1> HIDE DEF new, more
<1> DEFINE F == ActionWrites(o, s, rev, obs)
           X == Linking(o, s, rev)
<1> HIDE DEF F, X
<1>11. ASSUME NEW x \in X, Brings(x, o, s, rev), NEW G \in Seq(X), F = <<x>> \o G
       PROVE  F \in Seq(X) /\ \E p \in 1 .. Len(F) : Brings(F[p], o, s, rev)
  <2>1. <<x>> \in Seq(X) /\ Len(<<x>>) = 1 /\ <<x>>[1] = x
    BY SeqOne
  <2>2. F \in Seq(X) /\ 1 \in 1 .. Len(F) /\ F[1] = x
    BY <1>11, <2>1
  <2> QED
    BY <1>11, <2>2
<1>12. CASE ~Exists(a)
  <2>1. PICK x \in X : WriteAction(o, s, new) = <<x>> /\ Brings(x, o, s, rev)
    BY <1>8, <1>12 DEF Exists, X
  <2>2. F = <<x>> \o Created(dup) /\ Created(dup) \in Seq(X)
    BY <1>6, <1>10, <1>12, <2>1 DEF F, X
  <2> QED
    BY <1>11, <2>1, <2>2 DEF F, X
<1>13. CASE Exists(a) /\ rev \notin a.evidence
  <2>1. PICK x \in X : WriteAction(o, s, more) = <<x>> /\ Brings(x, o, s, rev)
    BY <1>9, <1>13 DEF Exists, X
  <2>2. F = <<x>> \o Linked /\ Linked \in Seq(X)
    BY <1>7, <1>10, <1>13, <2>1 DEF F, X
  <2> QED
    BY <1>11, <2>1, <2>2 DEF F, X
<1>14. CASE Exists(a) /\ rev \in a.evidence
  <2>1. F = Created(a.dup) \/ F = Linked
    BY <1>10, <1>14 DEF F
  <2>2. F \in Seq(X)
    BY <1>6, <1>7, <2>1 DEF X
  <2>3. Evident(o, s, rev)
    BY <1>1, <1>14 DEF Evident, Exists
  <2> QED
    BY <2>2, <2>3 DEF F, X
<1> QED
  BY <1>12, <1>13, <1>14

\* The application of what the model said: all actions keep their evidence, or one
\* gets the revision's, and what a commitment asks for is evident in the end.
Applying(F, o, s, rev, obs) ==
  /\ \/ \A p \in 1 .. Len(F) : F[p].w = "action" => SameAction(F[p])
     \/ \A p \in 1 .. Len(F) : F[p].w = "action" => LinkedAction(o, s, rev, F[p])
  /\ obs \in {"open", "proposed"} => Evident(o, s, rev) \/ \E p \in 1 .. Len(F) : Brings(F[p], o, s, rev)

LEMMA ApplyDone ==
  ASSUME StoredTypes, IsFiniteSet(Sources), NEW o \in Opps, NEW s \in Sources, NEW rev \in Nat, NEW n \in Nat,
         NEW obs \in Sayings
  PROVE  /\ ApplyWrites(o, s, rev, n, obs) \in Seq(Applied(o, s))
         /\ Applying(ApplyWrites(o, s, rev, n, obs), o, s, rev, obs)
<1> DEFINE A == EnsureChange(o, "overview_revision", n, s, rev)
           R == CASE obs = "nothing" -> <<>>
                  [] obs = "done"    -> HintWrites(o, s, rev)
                  [] OTHER           -> ActionWrites(o, s, rev, obs)
           F == ApplyWrites(o, s, rev, n, obs)
<1>1. F = A \o R
  BY Zenon DEF ApplyWrites
<1>2. A \in Seq(Hinting(o, s)) /\ A \in Seq(Linking(o, s, rev))
  <2>1. "overview_revision" \in ChangeTypes /\ n \in Sources \cup Nat /\ s \in Ids
    BY DEF ChangeTypes, Ids
  <2>2. A \in Seq(Logged(o))
    BY <2>1, LoggedWritten
  <2> HIDE DEF A
  <2> QED
    BY <2>2, LoggedIsApplied
<1>3. obs \notin {"open", "proposed"} => R \in Seq(Hinting(o, s))
  BY HintsApplied, SeqNone DEF Sayings
<1>4. obs \in {"open", "proposed"} =>
        R \in Seq(Linking(o, s, rev)) /\ (Evident(o, s, rev) \/ \E p \in 1 .. Len(R) : Brings(R[p], o, s, rev))
  <2> HAVE obs \in {"open", "proposed"}
  <2>1. R = ActionWrites(o, s, rev, obs)
    OBVIOUS
  <2> HIDE DEF R
  <2> QED
    BY <2>1, ActionsApplied
<1> HIDE DEF A, R, F
<1>5. CASE obs \notin {"open", "proposed"}
  <2>1. F \in Seq(Hinting(o, s))
    BY <1>1, <1>2, <1>3, <1>5, SeqJoin
  <2>2. \A p \in 1 .. Len(F) : F[p] \in Applied(o, s) /\ (F[p].w = "action" => SameAction(F[p]))
    BY <2>1 DEF Hinting
  <2>3. F \in Seq(Applied(o, s))
    BY <2>1, <2>2, SeqOver
  <2> QED
    BY <1>5, <2>2, <2>3 DEF Applying, F
<1>6. CASE obs \in {"open", "proposed"}
  <2> DEFINE X == Linking(o, s, rev)
  <2>1. A \in Seq(X) /\ R \in Seq(X)
    BY <1>2, <1>4, <1>6
  <2> HIDE DEF X
  <2>2. F \in Seq(X) /\ \A p \in 1 .. Len(R) : Len(A) + p \in 1 .. Len(F) /\ F[Len(A) + p] = R[p]
    BY <1>1, <2>1
  <2>3. \A p \in 1 .. Len(F) : F[p] \in Applied(o, s) /\ (F[p].w = "action" => LinkedAction(o, s, rev, F[p]))
    BY <2>2 DEF Linking, X
  <2>4. F \in Seq(Applied(o, s))
    BY <2>2, <2>3, SeqOver
  <2>5. Evident(o, s, rev) \/ \E p \in 1 .. Len(F) : Brings(F[p], o, s, rev)
    BY <1>4, <1>6, <2>2
  <2> QED
    BY <2>3, <2>4, <2>5 DEF Applying, F
<1> QED
  BY <1>5, <1>6

\* The end of an application: the source is marked, the marker dropped.
Finished(o, s) ==
  {x \in Writes : \/ x \in Applied(o, s)
                  \/ x.w = "pending" /\ x.s = s
                  \/ x.w = "source" /\ x.s = s /\ SameEvidence(x.val, ledger[s]) /\ x.val.done = ledger[s].rev}

LEMMA NoPendingType == NoPending \in Marker
  BY DEF NoPending, Marker

LEMMA PendingWritten ==
  ASSUME NEW X, NEW s \in Sources, NEW m \in Marker,
         \A x \in Writes : x.w = "pending" /\ x.s = s /\ x.val = m => x \in X
  PROVE  WritePending(s, m) \in Seq(X) /\ WritePending(s, m) = <<[w |-> "pending", s |-> s, val |-> m]>>
<1>1. PICK x : x = [w |-> "pending", s |-> s, val |-> m]
  OBVIOUS
<1>2. x \in Writes /\ x.w = "pending" /\ x.s = s /\ x.val = m
  BY <1>1 DEF Writes
<1>3. <<x>> \in Seq(X)
  BY <1>2
<1> QED
  BY <1>1, <1>3 DEF WritePending

\* The writes of _complete: the source is marked after its actions.
Completing(F, o, s, rev, obs) ==
  /\ Applying(F, o, s, rev, obs)
  /\ \A p, q \in 1 .. Len(F) : F[p].w = "source" /\ F[q].w = "action" => q < p
  /\ \A p \in 1 .. Len(F) : F[p].w = "pending" => F[p].val = NoPending

Ending(o, s) == {x \in Finished(o, s) : x.w \in {"source", "pending"} /\ (x.w = "pending" => x.val = NoPending)}

LEMMA CompleteDone ==
  ASSUME StoredTypes, IsFiniteSet(Sources), NEW o \in Opps, NEW s \in Sources, NEW n \in Nat, NEW obs \in Sayings,
         ledger[s].rev > 0, Latest(ledger[s]) = "content", Associated(ledger[s])
  PROVE  /\ CompleteWrites(o, s, ledger[s].rev, n, obs) \in Seq(Finished(o, s))
         /\ Completing(CompleteWrites(o, s, ledger[s].rev, n, obs), o, s, ledger[s].rev, obs)
<1>1. PICK r \in Record : r = ledger[s] /\ SourceOK(r) /\ r.rev \in Nat
  BY DEF StoredTypes, Record
<1> DEFINE X == Finished(o, s)
           A == ApplyWrites(o, s, r.rev, n, obs)
           E == IF r.status = "processed" /\ r.done = r.rev THEN WritePending(s, NoPending)
                ELSE IF r.status = "processing"
                THEN WriteSource(s, MarkedProcessed(r, r.rev)) \o WritePending(s, NoPending)
                ELSE <<>>
           F == CompleteWrites(o, s, r.rev, n, obs)
<1>2. A \in Seq(X) /\ Applying(A, o, s, r.rev, obs) /\ \A p \in 1 .. Len(A) : A[p].w \in {"change", "action"}
  <2>1. A \in Seq(Applied(o, s)) /\ Applying(A, o, s, r.rev, obs)
    BY <1>1, ApplyDone
  <2>2. \A x \in Applied(o, s) : x \in X /\ x.w \in {"change", "action"}
    BY DEF Applied, Finished, Logged, AppliedAction
  <2> HIDE DEF A, X
  <2>3. \A p \in 1 .. Len(A) : A[p] \in X /\ A[p].w \in {"change", "action"}
    BY <2>1, <2>2
  <2> QED
    BY <2>1, <2>3, SeqOver
<1>3. WritePending(s, NoPending) \in Seq(Ending(o, s))
  BY NoPendingType, PendingWritten DEF Ending, Finished
<1>4. WriteSource(s, MarkedProcessed(r, r.rev)) \in Seq(Ending(o, s))
  <2>1. PICK q : q = MarkedProcessed(r, r.rev) /\ SourceOK(q) /\ SameEvidence(q, r) /\ q.done = r.rev
    BY <1>1, MarkedOK
  <2>2. PICK x : x = [w |-> "source", s |-> s, val |-> q]
    OBVIOUS
  <2>3. q \in GoodRecord
    BY <2>1 DEF GoodRecord, SourceOK
  <2>4. x \in Writes /\ x.w = "source" /\ x.s = s /\ x.val = q
    BY <2>2, <2>3 DEF Writes
  <2>5. x \in Ending(o, s)
    BY <2>1, <2>4, <1>1 DEF Ending, Finished
  <2>6. <<x>> \in Seq(Ending(o, s))
    BY <2>5
  <2> QED
    BY <2>1, <2>2, <2>6 DEF WriteSource
<1>5. <<>> \in Seq(Ending(o, s))
  OBVIOUS
<1>6. E \in Seq(Ending(o, s))
  BY <1>3, <1>4, <1>5
<1>7. F = A \o E
  BY <1>1 DEF CompleteWrites
<1> HIDE DEF E, A, F
<1>8. /\ E \in Seq(X)
      /\ \A p \in 1 .. Len(E) : E[p].w \in {"source", "pending"} /\ (E[p].w = "pending" => E[p].val = NoPending)
  <2>1. \A x \in Ending(o, s) : x \in X /\ x.w \in {"source", "pending"} /\ (x.w = "pending" => x.val = NoPending)
    BY DEF Ending
  <2> HIDE DEF X
  <2>2. \A p \in 1 .. Len(E) : E[p] \in Ending(o, s)
    BY <1>6
  <2>3. E \in Seq(X)
    BY <1>6, <2>1, <2>2, SeqOver
  <2> QED
    BY <2>1, <2>2, <2>3
<1> HIDE DEF X
<1>9. /\ F \in Seq(X) /\ Len(A) \in Nat /\ Len(F) \in Nat
      /\ \A p \in 1 .. Len(A) : p \in 1 .. Len(F) /\ F[p] = A[p]
      /\ \A p \in 1 .. Len(F) :
           \/ p \in 1 .. Len(A) /\ F[p] = A[p]
           \/ p > Len(A) /\ p - Len(A) \in 1 .. Len(E) /\ F[p] = E[p - Len(A)]
  BY <1>2, <1>7, <1>8
<1>10. \A p \in 1 .. Len(F) :
         \/ p \in 1 .. Len(A) /\ F[p] = A[p] /\ F[p].w \in {"change", "action"}
         \/ p > Len(A) /\ F[p].w \in {"source", "pending"} /\ (F[p].w = "pending" => F[p].val = NoPending)
  BY <1>2, <1>8, <1>9
<1>11. \A p, q \in 1 .. Len(F) : F[p].w = "source" /\ F[q].w = "action" => q < p
  <2> SUFFICES ASSUME NEW p \in 1 .. Len(F), NEW q \in 1 .. Len(F), F[p].w = "source", F[q].w = "action" PROVE q < p
    OBVIOUS
  <2>1. p > Len(A) /\ q \in 1 .. Len(A)
    BY <1>10
  <2> QED
    BY <1>9, <2>1
<1>12. \A p \in 1 .. Len(F) : F[p].w = "action" => p \in 1 .. Len(A) /\ F[p] = A[p]
  BY <1>10
<1>13. Applying(F, o, s, r.rev, obs)
  <2>1. \/ \A p \in 1 .. Len(F) : F[p].w = "action" => SameAction(F[p])
        \/ \A p \in 1 .. Len(F) : F[p].w = "action" => LinkedAction(o, s, r.rev, F[p])
    BY <1>2, <1>12 DEF Applying
  <2>2. obs \in {"open", "proposed"} => Evident(o, s, r.rev) \/ \E p \in 1 .. Len(F) : Brings(F[p], o, s, r.rev)
    BY <1>2, <1>9 DEF Applying
  <2> QED
    BY <2>1, <2>2 DEF Applying
<1>14. Completing(F, o, s, r.rev, obs)
  BY <1>10, <1>11, <1>13 DEF Completing
<1> QED
  BY <1>1, <1>9, <1>14 DEF F, X

\* What a retraction does to an action: it loses what the source gave it.
RetractedAction(s, o, x) ==
  /\ x.w = "action" /\ x.o = o
  /\ x.val.trans = actions[o][x.s].trans /\ x.val.evidence = actions[o][x.s].evidence
  /\ actions[o][x.s].retracted => x.val.retracted
  /\ x.s = s /\ x.val.trans # <<>> => x.val.retracted
  /\ \A h \in x.val.hints : h.live => h.src # s /\ \E k \in actions[o][x.s].hints : k.live /\ k.src = h.src

Retracted(s, o) ==
  {x \in Writes : x \in Logged(o) \/ (x.w = "pending" /\ x.s = s /\ x.val = NoPending) \/ RetractedAction(s, o, x)}

WritesAction(F, o, t) == \E p \in 1 .. Len(F) : F[p].w = "action" /\ F[p].o = o /\ F[p].s = t

Dropped(hints, s) == {[h EXCEPT !.live = @ /\ h.src # s] : h \in hints}

LEMMA HintsRetracted ==
  ASSUME NEW s, NEW hints \in SUBSET Hint
  PROVE  /\ Dropped(hints, s) \in SUBSET Hint
         /\ \A h \in Dropped(hints, s) : h.live => h.src # s /\ \E k \in hints : k.live /\ k.src = h.src
<1> DEFINE G(h) == [h EXCEPT !.live = @ /\ h.src # s]
           hs == {G(h) : h \in hints}
<1> SUFFICES ASSUME NEW h \in hints
             PROVE  G(h) \in Hint /\ (G(h).live => G(h).src # s /\ h.live /\ G(h).src = h.src)
  <2>1. ASSUME NEW h \in hints PROVE G(h) \in Hint /\ (G(h).live => G(h).src # s /\ h.live /\ G(h).src = h.src)
    OBVIOUS
  <2> HIDE DEF G
  <2>2. hs \in SUBSET Hint /\ \A h \in hs : h.live => h.src # s /\ \E k \in hints : k.live /\ k.src = h.src
    BY <2>1
  <2>3. Dropped(hints, s) = hs
    BY DEF Dropped, G
  <2> HIDE DEF hs
  <2> QED
    BY <2>2, <2>3
<1>1. PICK c \in BOOLEAN : c = (h.live /\ h.src # s)
  OBVIOUS
<1>2. PICK g : g = [h EXCEPT !.live = c]
  OBVIOUS
<1>3. g \in Hint /\ g.live = c /\ g.src = h.src
  BY <1>1, <1>2 DEF Hint
<1>4. G(h) = g
  BY <1>1, <1>2
<1> HIDE DEF G
<1> QED
  BY <1>1, <1>3, <1>4

LEMMA RetractDone ==
  ASSUME StoredTypes, IsFiniteSet(Sources), NEW o \in Opps, NEW s \in Sources
  PROVE  /\ RetractWrites(s, o) \in Seq(Retracted(s, o))
         /\ Exists(actions[o][s]) /\ ~actions[o][s].retracted => WritesAction(RetractWrites(s, o), o, s)
         /\ \A t \in Sources : \A h \in actions[o][t].hints :
              h.src = s /\ h.live => WritesAction(RetractWrites(s, o), o, t)
<1> DEFINE Live(t)    == \E h \in actions[o][t].hints : h.src = s /\ h.live
           Own(t)     == t = s /\ Exists(actions[o][t]) /\ ~actions[o][t].retracted
           Updated(t) == [actions[o][t] EXCEPT
                            !.retracted = @ \/ Own(t),
                            !.hints = {[h EXCEPT !.live = @ /\ h.src # s] : h \in @}]
           W(t) == WriteAction(o, t, Updated(t))
                   \o (IF Own(t) THEN WriteChange(o, Entry("association_corrected", t, 0, s)) ELSE <<>>)
                   \o (IF Live(t) THEN WriteChange(o, Entry("suggestion_retracted", t, 0, s)) ELSE <<>>)
           S == {t \in Sources : Own(t) \/ Live(t)}
           g == [t \in S |-> W(t)]
           F == FlattenSeq([i \in 1 .. Cardinality(S) |-> W(SetToSeq(S)[i])])
           D == IF pending[s].o = o THEN WritePending(s, NoPending) ELSE <<>>
           X == Retracted(s, o)
<1>1. RetractWrites(s, o) = D \o F
  BY Zenon DEF RetractWrites, ForEach
<1>2. S \in SUBSET Sources
  OBVIOUS
<1>3. IsFiniteSet(S)
  BY <1>2, FS_Subset
<1>4. ASSUME NEW t \in Sources
      PROVE  \E x \in X : /\ WriteAction(o, t, Updated(t)) = <<x>>
                          /\ x.w = "action" /\ x.o = o /\ x.s = t
  <2>1. PICK a \in Action : a = actions[o][t]
    BY DEF StoredTypes
  <2>2. PICK b \in BOOLEAN : b = (a.retracted \/ Own(t))
    OBVIOUS
  <2>20. PICK hints \in SUBSET Hint : hints = a.hints
    BY <2>1 DEF Action
  <2>21. PICK hs \in SUBSET Hint : hs = Dropped(hints, s)
    BY <2>20, HintsRetracted
  <2>3. hs \in SUBSET Hint /\ \A h \in hs : h.live => h.src # s /\ \E k \in a.hints : k.live /\ k.src = h.src
    BY <2>20, <2>21, HintsRetracted
  <2>4. PICK u : u = [a EXCEPT !.retracted = b, !.hints = hs]
    OBVIOUS
  <2>5. u \in Action /\ u.trans = a.trans /\ u.retracted = b /\ u.hints = hs /\ u.evidence = a.evidence
    BY <2>1, <2>2, <2>3, <2>4 DEF Action
  <2>6. Updated(t) = u
    BY <2>1, <2>2, <2>20, <2>21, <2>4 DEF Dropped
  <2>7. PICK x : x = [w |-> "action", o |-> o, s |-> t, val |-> u]
    OBVIOUS
  <2>8. x \in Writes /\ x.w = "action" /\ x.o = o /\ x.s = t /\ x.val = u
    BY <2>5, <2>7, OneWrite
  <2>9. (a.retracted => b) /\ (t = s /\ a.trans # <<>> => b)
    BY <2>1, <2>2 DEF Exists
  <2>10. RetractedAction(s, o, x)
    BY <2>1, <2>3, <2>5, <2>8, <2>9 DEF RetractedAction
  <2>11. x \in X
    BY <2>8, <2>10 DEF Retracted
  <2>12. WriteAction(o, t, Updated(t)) = <<x>>
    BY <2>6, <2>7 DEF WriteAction
  <2> QED
    BY <2>8, <2>11, <2>12
<1>5. Logged(o) \subseteq X
  BY DEF Logged, Retracted
<1>6. ASSUME NEW t \in Sources
      PROVE  /\ WriteChange(o, Entry("association_corrected", t, 0, s)) \in Seq(X)
             /\ WriteChange(o, Entry("suggestion_retracted", t, 0, s)) \in Seq(X)
  <2>1. {"association_corrected", "suggestion_retracted"} \subseteq ChangeTypes /\ t \in Sources \cup Nat /\ s \in Ids
    BY DEF ChangeTypes, Ids
  <2>2. /\ WriteChange(o, Entry("association_corrected", t, 0, s)) \in Seq(Logged(o))
        /\ WriteChange(o, Entry("suggestion_retracted", t, 0, s)) \in Seq(Logged(o))
    BY <2>1, LoggedWritten
  <2> HIDE DEF X
  <2>3. \A Q \in Seq(Logged(o)) : Q \in Seq(X)
    BY <1>5
  <2> QED
    BY <2>2, <2>3
<1> HIDE DEF X
<1>7. ASSUME NEW t \in Sources
      PROVE  W(t) \in Seq(X) /\ Len(W(t)) > 0 /\ W(t)[1].w = "action" /\ W(t)[1].o = o /\ W(t)[1].s = t
  <2>1. PICK x \in X : /\ WriteAction(o, t, Updated(t)) = <<x>>
                       /\ x.w = "action" /\ x.o = o /\ x.s = t
    BY <1>4
  <2>2. PICK P \in Seq(X) : P = IF Own(t) THEN WriteChange(o, Entry("association_corrected", t, 0, s)) ELSE <<>>
    BY <1>6, SeqNone
  <2>3. PICK Q \in Seq(X) : Q = IF Live(t) THEN WriteChange(o, Entry("suggestion_retracted", t, 0, s)) ELSE <<>>
    BY <1>6, SeqNone
  <2>4. W(t) = (<<x>> \o P) \o Q
    BY <2>1, <2>2, <2>3, Zenon
  <2>5. <<x>> \in Seq(X)
    BY <2>1
  <2>6. (<<x>> \o P) \o Q \in Seq(X) /\ Len((<<x>> \o P) \o Q) > 0 /\ ((<<x>> \o P) \o Q)[1] = x
    <3>1. <<x>> \o P \in Seq(X) /\ Len(<<x>> \o P) > 0 /\ (<<x>> \o P)[1] = x
      BY <2>5, <2>2
    <3> DEFINE M == <<x>> \o P
    <3> HIDE DEF M
    <3>2. M \in Seq(X) /\ Len(M) > 0 /\ M[1] = x /\ Len(M) \in Nat
      BY <3>1 DEF M
    <3>3. M \o Q \in Seq(X) /\ Len(M \o Q) > 0 /\ (M \o Q)[1] = x
      BY <3>2, <2>3
    <3> QED
      BY <3>3 DEF M
  <2> HIDE DEF W
  <2> QED
    BY <2>1, <2>4, <2>6
<1> HIDE DEF W
<1>8. g \in [S -> Seq(X)]
  BY <1>7
<1>9. F = FlattenSeq([i \in 1 .. Cardinality(S) |-> g[SetToSeq(S)[i]]])
  <2> HIDE DEF S
  <2>1. \A i \in 1 .. Cardinality(S) : SetToSeq(S)[i] \in S
    BY <1>3, Listing
  <2>2. [i \in 1 .. Cardinality(S) |-> W(SetToSeq(S)[i])]
          = [i \in 1 .. Cardinality(S) |-> g[SetToSeq(S)[i]]]
    BY <2>1
  <2> QED
    BY <2>2
<1>10. \A t \in S : Len(g[t]) > 0 /\ g[t][1].w = "action" /\ g[t][1].o = o /\ g[t][1].s = t
  BY <1>7, <1>2
<1>11. \A t \in Sources : Own(t) \/ Live(t) => t \in S
  OBVIOUS
<1> HIDE DEF F, g, S
<1>12. F \in Seq(X) /\ \E row, col : Spread(F, S, g, row, col)
  BY <1>3, <1>8, <1>9, ForEachSpread
<1>13. PICK row, col : Spread(F, S, g, row, col)
  BY <1>12
<1>14. D \in Seq(X)
  <2>1. WritePending(s, NoPending) \in Seq(X)
    BY NoPendingType, PendingWritten DEF X, Retracted
  <2> QED
    BY <2>1
<1>15. ASSUME NEW t \in S PROVE WritesAction(D \o F, o, t)
  <2>1. 1 \in 1 .. Len(g[t])
    BY <1>10, <1>8
  <2>2. PICK p \in 1 .. Len(F) : row[p] = t /\ col[p] = 1
    BY <2>1, <1>13 DEF Spread
  <2>3. F[p] = g[t][1]
    BY <2>2, <1>13 DEF Spread
  <2>4. Len(D) + p \in 1 .. Len(D \o F) /\ (D \o F)[Len(D) + p] = F[p]
    BY <1>12, <1>14
  <2> HIDE DEF D
  <2> QED
    BY <2>3, <2>4, <1>10 DEF WritesAction
<1>16. D \o F \in Seq(X)
  BY <1>12, <1>14, SeqJoin
<1> HIDE DEF D
<1> QED
  BY <1>1, <1>11, <1>15, <1>16 DEF X

\* A set of numbers below a bound has a largest one.
LEMMA LargestNumber ==
  ASSUME NEW T \in SUBSET Nat, T # {}, NEW b \in Nat, \A x \in T : x <= b
  PROVE  \E x \in T : \A y \in T : y <= x
<1> DEFINE U == {u \in Nat : \A x \in T : x <= u}
<1>1. U \in SUBSET Nat /\ b \in U
  OBVIOUS
<1>2. PICK u \in U : \A k \in U : u <= k
  BY <1>1, LeastNumber
<1>3. u \in T
  <2> SUFFICES ASSUME u \notin T PROVE FALSE
    OBVIOUS
  <2>1. \A x \in T : x < u
    BY <1>2
  <2>2. PICK x \in T : TRUE
    OBVIOUS
  <2>3. u - 1 \in U
    BY <2>1, <2>2, <1>2
  <2> QED
    BY <2>3, <1>2
<1> QED
  BY <1>2, <1>3

\* What the reversion of an overview writes: one version, equal to the last one
\* without the source, and the sources that it drops.
RevertVersion(s, o, v) ==
  \E i \in CleanVersions(o, s) :
    /\ \A j \in CleanVersions(o, s) : j <= i
    /\ v.cites = history[o][i].cites /\ v.from = history[o][i].from
    /\ v.rt = "association_correction" /\ v.by = <<None, 0>> /\ v.obs = "nothing"

Reverted(s, o) ==
  {x \in Writes : \/ x \in Logged(o)
                  \/ x.w = "version" /\ x.o = o /\ RevertVersion(s, o, x.val)
                  \/ x.w = "source" /\ x.s # s /\ Steady(x.val, ledger[x.s]) /\ x.val.status # "processed"}

WritesVersion(F, o) == \E p \in 1 .. Len(F) : F[p].w = "version" /\ F[p].o = o
WritesSource(F, t)  == \E p \in 1 .. Len(F) : F[p].w = "source" /\ F[p].s = t

\* A source of the last version that v lacks.
Drops(o, v, t) == \E c \in Last(history[o]).cites \ v.cites : c[1] = t

LEMMA RevertDone ==
  ASSUME StoredTypes, IsFiniteSet(Sources), NEW o \in Opps, NEW s \in Sources, retired[o] \in {None, s}, None \notin Sources
  PROVE  /\ RevertWrites(s, o) \in Seq(Reverted(s, o))
         /\ \A p \in 1 .. Len(RevertWrites(s, o)) : RevertWrites(s, o)[p].w = "version" =>
              /\ p = 1 /\ retired[o] = None /\ CitesNow(o, s)
              /\ \A t \in Sources \ {s} : receipts[t] = "none" /\ Drops(o, RevertWrites(s, o)[p].val, t)
                                            => WritesSource(RevertWrites(s, o), t)
         /\ retired[o] = s => RevertWrites(s, o) \in Seq(Logged(o))
         /\ retired[o] = None /\ CitesNow(o, s) /\ ~MustRetire(o, s) => WritesVersion(RevertWrites(s, o), o)
<1> DEFINE F == RevertWrites(s, o)
           X == Reverted(s, o)
<1>1. Logged(o) \subseteq X
  BY DEF Logged, Reverted
<1>2. \A type \in {"overview_retired", "overview_reverted"}, n \in Nat :
        WriteChange(o, Entry(type, n, 0, s)) \in Seq(Logged(o))
  BY LoggedWritten DEF ChangeTypes, Ids
<1>3. \A Q \in Seq(Logged(o)) : /\ Q \in Seq(X)
                                /\ \A p \in 1 .. Len(Q) : Q[p].w # "version"
  <2>1. \A x \in Logged(o) : x.w # "version"
    BY DEF Logged
  <2> HIDE DEF X
  <2> QED
    BY <1>1, <2>1
<1>4. CASE retired[o] = s \/ MustRetire(o, s)
  <2>1. F = <<>> \/ F = WriteChange(o, Entry("overview_retired", 1, 0, s))
    BY <1>4 DEF RevertWrites
  <2>2. F \in Seq(Logged(o))
    BY <2>1, <1>2, SeqNone
  <2> HIDE DEF F, X
  <2>3. F \in Seq(X) /\ \A p \in 1 .. Len(F) : F[p].w # "version"
    BY <2>2, <1>3
  <2>4. retired[o] = s \/ MustRetire(o, s)
    BY <1>4
  <2>5. retired[o] = s => retired[o] # None
    OBVIOUS
  <2> QED
    BY <2>2, <2>3, <2>4, <2>5 DEF F, X
<1>5. CASE ~ (retired[o] = s \/ MustRetire(o, s)) /\ ~CitesNow(o, s)
  <2>1. F = <<>>
    BY <1>5 DEF RevertWrites
  <2> QED
    BY <2>1, <1>5
<1>6. CASE ~ (retired[o] = s \/ MustRetire(o, s)) /\ CitesNow(o, s)
  <2> DEFINE C == CleanVersions(o, s)
             i == CHOOSE k \in C : \A j \in C : j <= k
             target == history[o][i]
             v == [target EXCEPT !.by = <<None, 0>>, !.rt = "association_correction", !.obs = "nothing"]
             T == {t \in Sources \ {s} : /\ receipts[t] = "none"
                                         /\ \E c \in Last(history[o]).cites \ target.cites : c[1] = t}
             W(t) == WriteSource(t, Reprocessable(ledger[t]))
             g == [t \in T |-> W(t)]
             G == FlattenSeq([k \in 1 .. Cardinality(T) |-> W(SetToSeq(T)[k])])
             E == WriteChange(o, Entry("overview_reverted", Len(history[o]) + 1, 0, s))
  <2>1. F = (WriteVersion(o, v) \o G) \o E
    BY <1>6, Zenon DEF RevertWrites, ForEach
  <2>2. retired[o] = None /\ C # {}
    BY <1>6 DEF MustRetire
  <2>3. history[o] \in Seq(Version) /\ Len(history[o]) \in Nat
    BY DEF StoredTypes
  <2>4. C \subseteq 1 .. Len(history[o])
    BY DEF CleanVersions, Visible
  <2>5. i \in C /\ \A j \in C : j <= i
    <3> HIDE DEF C
    <3>1. C \in SUBSET Nat /\ \A j \in C : j <= Len(history[o])
      BY <2>3, <2>4
    <3>2. \E k \in C : \A j \in C : j <= k
      BY <3>1, <2>2, <2>3, LargestNumber
    <3> QED
      BY <3>2, Zenon
  <2> HIDE DEF i
  <2>6. i \in 1 .. Len(history[o]) /\ target \in Version
    BY <2>3, <2>4, <2>5
  <2>7. PICK tv \in Version : tv = target
    BY <2>6
  <2>8. PICK nv : nv = [tv EXCEPT !.by = <<None, 0>>, !.rt = "association_correction", !.obs = "nothing"]
    OBVIOUS
  <2>9. /\ nv \in Version /\ nv.cites = tv.cites /\ nv.from = tv.from
        /\ nv.rt = "association_correction" /\ nv.by = <<None, 0>> /\ nv.obs = "nothing"
    <3>1. <<None, 0>> \in Ids \X Nat /\ "nothing" \in Sayings
      BY DEF Ids, Sayings
    <3> QED
      BY <3>1, <2>7, <2>8 DEF Version
  <2>10. v = nv
    BY <2>7, <2>8
  <2>11. PICK x : x = [w |-> "version", o |-> o, val |-> nv]
    OBVIOUS
  <2>12. x \in Writes /\ x.w = "version" /\ x.o = o /\ x.val = nv
    BY <2>9, <2>11 DEF Writes
  <2>13. RevertVersion(s, o, nv)
    BY <2>5, <2>7, <2>9 DEF RevertVersion
  <2>14. x \in X /\ WriteVersion(o, v) = <<x>>
    BY <2>10, <2>11, <2>12, <2>13 DEF WriteVersion, Reverted
  <2> HIDE DEF X, v
  <2>15. E \in Seq(X) /\ \A p \in 1 .. Len(E) : E[p].w # "version"
    <3>1. PICK n \in Nat : n = Len(history[o]) + 1
      BY <2>3
    <3>2. "overview_reverted" \in {"overview_retired", "overview_reverted"}
      OBVIOUS
    <3>3. WriteChange(o, Entry("overview_reverted", n, 0, s)) \in Seq(Logged(o))
      BY <1>2, <3>2
    <3>4. E \in Seq(Logged(o))
      BY <3>1, <3>3
    <3> HIDE DEF E
    <3> QED
      BY <3>4, <1>3
  <2> HIDE DEF E
  <2>16. T \in SUBSET Sources /\ \A t \in T : t # s
    OBVIOUS
  <2>17. \A t \in Sources \ {s} : receipts[t] = "none" /\ Drops(o, nv, t) => t \in T
    BY <2>7, <2>9 DEF Drops
  <2> HIDE DEF T, target
  <2>18. IsFiniteSet(T)
    BY <2>16, FS_Subset
  <2> DEFINE y(t) == [w |-> "source", s |-> t, val |-> Reprocessable(ledger[t])]
  <2>19. ASSUME NEW t \in T PROVE W(t) = <<y(t)>> /\ y(t) \in X /\ y(t).w = "source" /\ y(t).s = t
    <3>1. t \in Sources /\ t # s /\ SourceOK(ledger[t])
      BY <2>16 DEF StoredTypes
    <3>2. PICK q : q = Reprocessable(ledger[t]) /\ Steady(q, ledger[t]) /\ q.status # "processed"
      BY <3>1, ReprocessableOK
    <3>3. q \in GoodRecord
      BY <3>2 DEF GoodRecord, Steady, SourceOK
    <3>4. PICK z : z = [w |-> "source", s |-> t, val |-> q]
      OBVIOUS
    <3>5. z \in Writes /\ z.w = "source" /\ z.s = t /\ z.val = q
      BY <3>1, <3>3, <3>4 DEF Writes
    <3>6. z \in X
      BY <3>1, <3>2, <3>5 DEF X, Reverted
    <3> QED
      BY <3>2, <3>4, <3>5, <3>6 DEF WriteSource
  <2> HIDE DEF W, y
  <2>20. g \in [T -> Seq(X)] /\ \A t \in T : Len(g[t]) = 1 /\ g[t][1] = y(t)
    <3>1. \A t \in T : <<y(t)>> \in Seq(X) /\ Len(<<y(t)>>) = 1 /\ <<y(t)>>[1] = y(t)
      BY <2>19, SeqOne
    <3> QED
      BY <2>19, <3>1
  <2>21. G = FlattenSeq([k \in 1 .. Cardinality(T) |-> g[SetToSeq(T)[k]]])
    <3>1. \A k \in 1 .. Cardinality(T) : SetToSeq(T)[k] \in T
      BY <2>18, Listing
    <3>2. [k \in 1 .. Cardinality(T) |-> W(SetToSeq(T)[k])] = [k \in 1 .. Cardinality(T) |-> g[SetToSeq(T)[k]]]
      BY <3>1
    <3> QED
      BY <3>2
  <2> HIDE DEF g, G
  <2>22. G \in Seq(X) /\ \E row, col : Spread(G, T, g, row, col)
    BY <2>18, <2>20, <2>21, ForEachSpread
  <2>23. PICK row, col : Spread(G, T, g, row, col)
    BY <2>22
  <2>24. \A p \in 1 .. Len(G) : row[p] \in T /\ G[p] = y(row[p])
    BY <2>20, <2>23 DEF Spread
  <2>25. \A p \in 1 .. Len(G) : G[p].w = "source"
    BY <2>19, <2>24
  <2>26. ASSUME NEW t \in T PROVE \E p \in 1 .. Len(G) : G[p].w = "source" /\ G[p].s = t
    <3>1. 1 \in 1 .. Len(g[t])
      BY <2>20
    <3>2. PICK p \in 1 .. Len(G) : row[p] = t
      BY <3>1, <2>23 DEF Spread
    <3> QED
      BY <3>2, <2>24, <2>19
  <2> DEFINE M == <<x>> \o G
  <2>27. /\ M \in Seq(X) /\ Len(M) = Len(G) + 1 /\ M[1] = x
         /\ \A p \in 1 .. Len(G) : M[p + 1] = G[p]
         /\ \A p \in 1 .. Len(M) : p # 1 => p - 1 \in 1 .. Len(G) /\ M[p] = G[p - 1]
    BY <2>14, <2>22
  <2>28. F = M \o E /\ Len(G) \in Nat
    BY <2>1, <2>14, <2>22
  <2> HIDE DEF M
  <2>29. /\ F \in Seq(X) /\ Len(F) = Len(M) + Len(E) /\ Len(M) \in Nat /\ Len(E) \in Nat
         /\ \A p \in 1 .. Len(M) : F[p] = M[p]
         /\ \A p \in 1 .. Len(F) : p <= Len(M) \/ (p - Len(M) \in 1 .. Len(E) /\ F[p] = E[p - Len(M)])
    <3>1. M \in Seq(X) /\ E \in Seq(X)
      BY <2>15, <2>27
    <3> HIDE DEF F
    <3>2. /\ M \o E \in Seq(X) /\ Len(M \o E) = Len(M) + Len(E)
          /\ \A p \in 1 .. Len(M) : (M \o E)[p] = M[p]
          /\ \A p \in 1 .. Len(M \o E) :
               p <= Len(M) \/ (p - Len(M) \in 1 .. Len(E) /\ (M \o E)[p] = E[p - Len(M)])
      BY <3>1, SeqJoin
    <3>3. Len(M) \in Nat /\ Len(E) \in Nat
      BY <3>1
    <3> QED
      BY <3>2, <3>3, <2>28
  <2> HIDE DEF F
  <2>30. F[1] = x /\ 1 \in 1 .. Len(F)
    BY <2>27, <2>28, <2>29
  <2>31. \A t \in T : WritesSource(F, t)
    <3> SUFFICES ASSUME NEW t \in T PROVE WritesSource(F, t)
      OBVIOUS
    <3>1. PICK p \in 1 .. Len(G) : G[p].w = "source" /\ G[p].s = t
      BY <2>26
    <3>2. p + 1 \in 1 .. Len(M) /\ M[p + 1] = G[p] /\ p + 1 \in 1 .. Len(F)
      BY <2>27, <2>28, <2>29
    <3>3. F[p + 1] = G[p]
      BY <3>2, <2>29
    <3> QED
      BY <3>1, <3>2, <3>3 DEF WritesSource
  <2>32. ASSUME NEW p \in 1 .. Len(F), F[p].w = "version" PROVE p = 1
    <3> SUFFICES ASSUME p # 1 PROVE FALSE
      OBVIOUS
    <3>1. CASE p <= Len(M)
      <4>1. p \in 1 .. Len(M) /\ F[p] = M[p]
        BY <3>1, <2>29
      <4>2. p - 1 \in 1 .. Len(G) /\ F[p] = G[p - 1]
        BY <4>1, <2>27
      <4> QED
        BY <4>2, <2>25, <2>32
    <3>2. CASE ~ (p <= Len(M))
      BY <3>2, <2>29, <2>15, <2>32
    <3> QED
      BY <3>1, <3>2
  <2>33. WritesVersion(F, o)
    BY <2>30, <2>12 DEF WritesVersion
  <2>34. \A t \in Sources \ {s} : receipts[t] = "none" /\ Drops(o, F[1].val, t) => WritesSource(F, t)
    BY <2>12, <2>17, <2>30, <2>31
  <2>35. \A p \in 1 .. Len(F) : F[p].w = "version" => p = 1 /\ retired[o] = None /\ CitesNow(o, s)
           /\ \A t \in Sources \ {s} : receipts[t] = "none" /\ Drops(o, F[p].val, t) => WritesSource(F, t)
    BY <2>2, <2>32, <2>34, <1>6
  <2>36. retired[o] # s
    BY <2>2
  <2> QED
    BY <2>29, <2>33, <2>35, <2>36 DEF F, X
<1> QED
  BY <1>4, <1>5, <1>6

WritesRetired(F, o) == \E p \in 1 .. Len(F) : F[p].w = "retired" /\ F[p].o = o

\* What two sequences write, one after the other.
LEMMA WritesJoin ==
  ASSUME NEW X, NEW F \in Seq(X), NEW G \in Seq(X), NEW o, NEW t
  PROVE  /\ WritesAction(F, o, t) \/ WritesAction(G, o, t) => WritesAction(F \o G, o, t)
         /\ WritesVersion(F, o) \/ WritesVersion(G, o) => WritesVersion(F \o G, o)
         /\ WritesRetired(F, o) \/ WritesRetired(G, o) => WritesRetired(F \o G, o)
         /\ WritesSource(F, t) \/ WritesSource(G, t) => WritesSource(F \o G, t)
<1> DEFINE J == F \o G
<1>1. /\ J \in Seq(X) /\ Len(J) = Len(F) + Len(G) /\ Len(F) \in Nat /\ Len(G) \in Nat
      /\ \A p \in 1 .. Len(F) : J[p] = F[p]
      /\ \A p \in 1 .. Len(G) : J[Len(F) + p] = G[p]
  BY SeqJoin
<1> HIDE DEF J
<1>2. \A p \in 1 .. Len(F) : p \in 1 .. Len(J)
  BY <1>1
<1>3. \A p \in 1 .. Len(G) : Len(F) + p \in 1 .. Len(J)
  BY <1>1
<1>5. ASSUME NEW q \in 1 .. Len(F) PROVE \E p \in 1 .. Len(J) : J[p] = F[q]
  BY <1>1, <1>2
<1>6. ASSUME NEW q \in 1 .. Len(G) PROVE \E p \in 1 .. Len(J) : J[p] = G[q]
  BY <1>1, <1>3
<1>7. WritesAction(F, o, t) \/ WritesAction(G, o, t) => WritesAction(J, o, t)
  BY <1>5, <1>6, Zenon DEF WritesAction
<1>8. WritesVersion(F, o) \/ WritesVersion(G, o) => WritesVersion(J, o)
  BY <1>5, <1>6, Zenon DEF WritesVersion
<1>9. WritesRetired(F, o) \/ WritesRetired(G, o) => WritesRetired(J, o)
  BY <1>5, <1>6, Zenon DEF WritesRetired
<1>10. WritesSource(F, t) \/ WritesSource(G, t) => WritesSource(J, t)
  BY <1>5, <1>6, Zenon DEF WritesSource
<1> QED
  BY <1>7, <1>8, <1>9, <1>10 DEF J

\* What a correction writes.
Corrected(s, to) ==
  {x \in Writes :
     \/ \E o \in Opps : x \in Logged(o)
     \/ x.w = "pending" /\ x.s = s /\ x.val = NoPending
     \/ x.w = "action" /\ RetractedAction(s, x.o, x)
     \/ x.w = "version" /\ x.o = ledger[s].assoc /\ RevertVersion(s, x.o, x.val) /\ CitesNow(x.o, s)
        /\ Associated(ledger[s]) /\ to # ledger[s].assoc /\ retired[x.o] = None
     \/ x.w = "source" /\ x.s # s /\ Steady(x.val, ledger[x.s]) /\ x.val.status # "processed"
     \/ x.w = "source" /\ x.s = s /\ x.val.assoc = to /\ x.val.status # "processed"
     \/ x.w = "retired" /\ x.o = ledger[s].assoc /\ x.val = s /\ retired[x.o] = None}

LEMMA RetractedIsCorrected ==
  ASSUME NEW o \in Opps, NEW s \in Sources, NEW to, NEW F \in Seq(Retracted(s, o))
  PROVE  F \in Seq(Corrected(s, to)) /\ \A p \in 1 .. Len(F) : F[p].w \notin {"version", "source", "retired"}
<1>1. ASSUME NEW x \in Retracted(s, o) PROVE x \in Corrected(s, to) /\ x.w \notin {"version", "source", "retired"}
  <2>1. x \in Writes /\ (x \in Logged(o) \/ (x.w = "pending" /\ x.s = s /\ x.val = NoPending) \/ RetractedAction(s, o, x))
    BY DEF Retracted
  <2>2. RetractedAction(s, o, x) => x.w = "action" /\ x.o = o
    BY DEF RetractedAction
  <2>3. x \in Logged(o) => x.w = "change"
    BY DEF Logged
  <2> QED
    BY <2>1, <2>2, <2>3 DEF Corrected
<1> QED
  BY <1>1, SeqOver

\* What its writes are for.
CorrectionFor(F, s, to) ==
  LET r == ledger[s]
      o == r.assoc
      moved == Associated(r) /\ to # o
  IN /\ F \in Seq(Corrected(s, to))
     /\ \A p, q \in 1 .. Len(F) : F[p].w = "version" /\ F[q].w = "version" => p = q
     /\ \A p \in 1 .. Len(F) : F[p].w = "version" =>
          \A t \in Sources \ {s} : receipts[t] = "none" /\ Drops(o, F[p].val, t) => WritesSource(F, t)
     /\ WritesSource(F, s) \/ to = r.assoc
     /\ moved =>
          /\ WritesSource(F, s)
          /\ Exists(actions[o][s]) /\ ~actions[o][s].retracted => WritesAction(F, o, s)
          /\ \A t \in Sources : \A h \in actions[o][t].hints : h.src = s /\ h.live => WritesAction(F, o, t)
          /\ retired[o] = None /\ CitesNow(o, s) => WritesVersion(F, o) \/ WritesRetired(F, o)
     /\ ~moved => \A p \in 1 .. Len(F) : F[p].w # "version"

LEMMA CorrectDone ==
  ASSUME StoredTypes, NamesAssumption, NEW s \in Sources, NEW to \in Opps \cup {Unassociated}, Known(s),
         Associated(ledger[s]) /\ to # ledger[s].assoc => CanCorrect(ledger[s].assoc, s)
  PROVE  CorrectionFor(CorrectionWrites(s, to), s, to)
<1>1. PICK r \in Record : r = ledger[s] /\ SourceOK(r) /\ r.rev > 0
  BY DEF StoredTypes, Known, Record
<1> DEFINE o == r.assoc
           new == IF to \in Opps THEN Confirmed(r, to) ELSE Cleared(r)
           X == Corrected(s, to)
           F == CorrectionWrites(s, to)
<1>2. SourceOK(new) /\ new.assoc = to /\ (new.status = "processed" => new = r)
  BY <1>1, ConfirmedOK, ClearedOK
<1>3. IsFiniteSet(Sources) /\ None \notin Sources
  BY DEF NamesAssumption
<1>4. new # r => \E x \in X : WriteSource(s, new) = <<x>> /\ x.w = "source" /\ x.s = s
  <2> HAVE new # r
  <2>1. new \in GoodRecord /\ new.status # "processed"
    BY <1>2 DEF GoodRecord, SourceOK
  <2> HIDE DEF new
  <2>2. PICK x : x = [w |-> "source", s |-> s, val |-> new]
    OBVIOUS
  <2>3. x \in Writes /\ x.w = "source" /\ x.s = s /\ x.val = new
    BY <2>1, <2>2 DEF Writes
  <2>4. x \in X
    BY <2>1, <2>3, <1>2 DEF Corrected
  <2> QED
    BY <2>2, <2>3, <2>4 DEF WriteSource
<1> HIDE DEF new
<1>5. CASE Associated(r) /\ to # o
  <2>0. o \in Opps /\ ledger[s] = r
    BY <1>1, <1>5 DEF Associated
  <2>1. new # r
    BY <1>2, <1>5
  <2>2. PICK x \in X : WriteSource(s, new) = <<x>> /\ x.w = "source" /\ x.s = s
    BY <1>4, <2>1
  <2>3. retired[o] \in {None, s}
    BY <1>1, <1>5, <2>0 DEF CanCorrect
  <2> DEFINE A == IF MustRetire(o, s) THEN WriteRetired(o, s) ELSE <<>>
             B == RetractWrites(s, o)
             C == RevertWrites(s, o)
  <2>4. F = ((A \o <<x>>) \o B) \o C
    BY <1>1, <1>5, <2>2 DEF CorrectionWrites, new
  <2>5. A \in Seq(X) /\ (MustRetire(o, s) => WritesRetired(A, o)) /\ \A p \in 1 .. Len(A) : A[p].w = "retired"
    <3>1. PICK y : y = [w |-> "retired", o |-> o, val |-> s]
      OBVIOUS
    <3>2. y \in Writes /\ y.w = "retired" /\ y.o = o /\ y.val = s
      BY <3>1, <2>0 DEF Writes
    <3>3. MustRetire(o, s) => y \in X
      BY <3>2, <2>0 DEF Corrected, MustRetire
    <3> HIDE DEF X
    <3>4. /\ MustRetire(o, s) => <<y>> \in Seq(X)
          /\ Len(<<y>>) = 1 /\ <<y>>[1] = y /\ <<>> \in Seq(X) /\ Len(<<>>) = 0
      BY <3>3, SeqOne, SeqNone
    <3>5. A = (IF MustRetire(o, s) THEN <<y>> ELSE <<>>)
      BY <3>1 DEF WriteRetired
    <3> HIDE DEF A
    <3>6. CASE MustRetire(o, s)
      BY <3>6, <3>5, <3>4, <3>2 DEF WritesRetired
    <3>7. CASE ~MustRetire(o, s)
      BY <3>7, <3>5, <3>4
    <3> QED
      BY <3>6, <3>7
  <2> HIDE DEF A
  <2>6. /\ B \in Seq(X)
        /\ \A p \in 1 .. Len(B) : B[p].w \notin {"version", "source", "retired"}
        /\ Exists(actions[o][s]) /\ ~actions[o][s].retracted => WritesAction(B, o, s)
        /\ \A t \in Sources : \A h \in actions[o][t].hints : h.src = s /\ h.live => WritesAction(B, o, t)
    <3>1. /\ B \in Seq(Retracted(s, o))
          /\ Exists(actions[o][s]) /\ ~actions[o][s].retracted => WritesAction(B, o, s)
          /\ \A t \in Sources : \A h \in actions[o][t].hints : h.src = s /\ h.live => WritesAction(B, o, t)
      BY <1>3, <2>0, RetractDone
    <3> HIDE DEF B
    <3> QED
      BY <3>1, <2>0, RetractedIsCorrected
  <2> HIDE DEF B
  <2>7. /\ C \in Seq(Reverted(s, o))
        /\ \A p \in 1 .. Len(C) : C[p].w = "version" =>
             /\ p = 1 /\ retired[o] = None /\ CitesNow(o, s)
             /\ \A t \in Sources \ {s} : receipts[t] = "none" /\ Drops(o, C[p].val, t) => WritesSource(C, t)
        /\ retired[o] = None /\ CitesNow(o, s) /\ ~MustRetire(o, s) => WritesVersion(C, o)
    BY <1>3, <2>0, <2>3, RevertDone
  <2> HIDE DEF C
  <2>8. \A p \in 1 .. Len(C) : C[p] \in X
    <3> SUFFICES ASSUME NEW p \in 1 .. Len(C) PROVE C[p] \in X
      OBVIOUS
    <3>1. C[p] \in Reverted(s, o)
      BY <2>7
    <3>2. PICK y : y = C[p]
      OBVIOUS
    <3>3. y.w = "version" => retired[o] = None /\ CitesNow(o, s)
      BY <3>2, <2>7
    <3>4. /\ y \in Writes
          /\ \/ y \in Logged(o)
             \/ y.w = "version" /\ y.o = o /\ RevertVersion(s, o, y.val)
             \/ y.w = "source" /\ y.s # s /\ Steady(y.val, ledger[y.s]) /\ y.val.status # "processed"
      BY <3>1, <3>2 DEF Reverted
    <3>5. y \in X
      BY <3>3, <3>4, <2>0, <1>5 DEF Corrected
    <3> QED
      BY <3>2, <3>5
  <2>9. C \in Seq(X)
    BY <2>7, <2>8, SeqOver
  <2> HIDE DEF X
  <2>10. <<x>> \in Seq(X) /\ Len(<<x>>) = 1 /\ <<x>>[1] = x
    BY <2>2, SeqOne
  <2> DEFINE P == A \o <<x>>
             Q == P \o B
  <2>11. P \in Seq(X) /\ WritesSource(P, s) /\ (MustRetire(o, s) => WritesRetired(P, o))
         /\ \A p \in 1 .. Len(P) : P[p].w # "version"
    <3>1. WritesSource(<<x>>, s)
      BY <2>2, <2>10 DEF WritesSource
    <3>2. P \in Seq(X)
      BY <2>5, <2>10, SeqJoin
    <3>3. WritesSource(P, s) /\ (MustRetire(o, s) => WritesRetired(P, o))
      BY <2>5, <2>10, <3>1, WritesJoin
    <3>4. \A p \in 1 .. Len(P) : \/ p \in 1 .. Len(A) /\ P[p] = A[p]
                                 \/ P[p] = x
      BY <2>5, <2>10
    <3> HIDE DEF P
    <3> QED
      BY <3>2, <3>3, <3>4, <2>5, <2>2
  <2> HIDE DEF P
  <2>12. /\ Q \in Seq(X) /\ WritesSource(Q, s) /\ (MustRetire(o, s) => WritesRetired(Q, o))
         /\ \A p \in 1 .. Len(Q) : Q[p].w # "version"
         /\ Exists(actions[o][s]) /\ ~actions[o][s].retracted => WritesAction(Q, o, s)
         /\ \A t \in Sources : \A h \in actions[o][t].hints : h.src = s /\ h.live => WritesAction(Q, o, t)
    <3>1. Q \in Seq(X)
      BY <2>6, <2>11, SeqJoin
    <3>2. /\ WritesSource(Q, s) /\ (MustRetire(o, s) => WritesRetired(Q, o))
          /\ \A t : WritesAction(B, o, t) => WritesAction(Q, o, t)
      BY <2>6, <2>11, WritesJoin
    <3>3. \A p \in 1 .. Len(Q) : \/ p \in 1 .. Len(P) /\ Q[p] = P[p]
                                 \/ p - Len(P) \in 1 .. Len(B) /\ Q[p] = B[p - Len(P)]
      BY <2>6, <2>11
    <3>4. \A p \in 1 .. Len(Q) : Q[p].w # "version"
      <4> HIDE DEF Q
      <4> QED
        BY <3>3, <2>6, <2>11
    <3> QED
      BY <3>1, <3>2, <3>4, <2>6
  <2>13. F = Q \o C
    BY <2>4 DEF P
  <2> HIDE DEF Q, F
  <2>14. /\ F \in Seq(X) /\ Len(F) = Len(Q) + Len(C) /\ Len(Q) \in Nat /\ Len(C) \in Nat
         /\ \A p \in 1 .. Len(F) : \/ p \in 1 .. Len(Q) /\ F[p] = Q[p]
                                   \/ p - Len(Q) \in 1 .. Len(C) /\ F[p] = C[p - Len(Q)]
    BY <2>9, <2>12, <2>13
  <2>15. /\ WritesSource(F, s) /\ (MustRetire(o, s) => WritesRetired(F, o))
         /\ WritesVersion(C, o) => WritesVersion(F, o)
         /\ \A t : WritesAction(Q, o, t) => WritesAction(F, o, t)
         /\ \A t : WritesSource(C, t) => WritesSource(F, t)
    BY <2>9, <2>12, <2>13, WritesJoin
  <2>16. ASSUME NEW p \in 1 .. Len(F), F[p].w = "version"
         PROVE  /\ p = Len(Q) + 1
                /\ \A t \in Sources \ {s} : receipts[t] = "none" /\ Drops(o, F[p].val, t) => WritesSource(F, t)
    <3>1. p - Len(Q) \in 1 .. Len(C) /\ F[p] = C[p - Len(Q)]
      BY <2>14, <2>16, <2>12
    <3>2. /\ p - Len(Q) = 1
          /\ \A t \in Sources \ {s} : receipts[t] = "none" /\ Drops(o, F[p].val, t) => WritesSource(C, t)
      BY <3>1, <2>7, <2>16
    <3> QED
      BY <3>2, <2>14, <2>15
  <2>17. retired[o] = None /\ CitesNow(o, s) => WritesVersion(F, o) \/ WritesRetired(F, o)
    BY <2>7, <2>15
  <2>18. /\ Exists(actions[o][s]) /\ ~actions[o][s].retracted => WritesAction(F, o, s)
         /\ \A t \in Sources : \A h \in actions[o][t].hints : h.src = s /\ h.live => WritesAction(F, o, t)
    BY <2>12, <2>15
  <2>19. /\ \A p, q \in 1 .. Len(F) : F[p].w = "version" /\ F[q].w = "version" => p = q
         /\ \A p \in 1 .. Len(F) : F[p].w = "version" =>
              \A t \in Sources \ {s} : receipts[t] = "none" /\ Drops(o, F[p].val, t) => WritesSource(F, t)
    BY <2>16
  <2> QED
    BY <2>0, <2>14, <2>15, <2>17, <2>18, <2>19, <1>5 DEF CorrectionFor, X, F
<1>6. CASE ~ (Associated(r) /\ to # o)
  <2> DEFINE A == IF new # r THEN WriteSource(s, new) ELSE <<>>
             B == IF Unfinished(s) THEN RetractWrites(s, r.prior) \o RevertWrites(s, r.prior) ELSE <<>>
  <2>1. F = A \o B
    BY <1>1, <1>6 DEF CorrectionWrites, new
  <2>2. A \in Seq(X) /\ (WritesSource(A, s) \/ to = o) /\ \A p \in 1 .. Len(A) : A[p].w # "version"
    <3>1. CASE new = r
      <4>1. A = <<>> /\ to = o
        BY <3>1, <1>2
      <4> HIDE DEF X, A
      <4> QED
        BY <4>1, SeqNone
    <3>2. CASE new # r
      <4>1. PICK x \in X : WriteSource(s, new) = <<x>> /\ x.w = "source" /\ x.s = s
        BY <3>2, <1>4
      <4> HIDE DEF X
      <4>2. A = <<x>> /\ <<x>> \in Seq(X) /\ Len(<<x>>) = 1 /\ <<x>>[1] = x
        BY <4>1, <3>2, SeqOne
      <4> HIDE DEF A
      <4> QED
        BY <4>1, <4>2 DEF WritesSource
    <3> QED
      BY <3>1, <3>2
  <2>3. B \in Seq(X) /\ \A p \in 1 .. Len(B) : B[p].w # "version"
    <3>1. CASE ~Unfinished(s)
      <4>1. B = <<>>
        BY <3>1
      <4> HIDE DEF X, B
      <4> QED
        BY <4>1, SeqNone
    <3>2. CASE Unfinished(s)
      <4>1. r.prior \in Opps /\ retired[r.prior] = s
        BY <1>1, <3>2 DEF Unfinished
      <4>2. PICK d \in Opps : d = r.prior /\ retired[d] = s
        BY <4>1
      <4> DEFINE P == RetractWrites(s, d)
                 Q == RevertWrites(s, d)
      <4>3. B = P \o Q
        BY <3>2, <4>2
      <4>4. P \in Seq(Retracted(s, d))
        BY <1>3, RetractDone
      <4>5. Q \in Seq(Logged(d))
        BY <1>3, <4>2, RevertDone
      <4> HIDE DEF P, Q, B
      <4>6. Logged(d) \subseteq Retracted(s, d)
        BY DEF Logged, Retracted
      <4>7. Q \in Seq(Retracted(s, d))
        BY <4>5, <4>6
      <4>8. B \in Seq(Retracted(s, d))
        BY <4>3, <4>4, <4>7, SeqJoin
      <4> QED
        BY <4>8, RetractedIsCorrected
    <3> QED
      BY <3>1, <3>2
  <2> HIDE DEF A, B, X, F
  <2>4. /\ F \in Seq(X)
        /\ \A p \in 1 .. Len(F) : \/ p \in 1 .. Len(A) /\ F[p] = A[p]
                                  \/ p - Len(A) \in 1 .. Len(B) /\ F[p] = B[p - Len(A)]
    BY <2>1, <2>2, <2>3
  <2>5. \A p \in 1 .. Len(F) : F[p].w # "version"
    BY <2>2, <2>3, <2>4
  <2>6. WritesSource(A, s) => WritesSource(F, s)
    BY <2>1, <2>2, <2>3, WritesJoin
  <2> QED
    BY <1>1, <1>6, <2>2, <2>4, <2>5, <2>6 DEF CorrectionFor, X, F
<1> QED
  BY <1>5, <1>6

\* What the removal of a mail leaves of an overview.
ForgetVersion(s, o, v) ==
  /\ v.cites = {c \in Last(history[o]).cites : c[1] # s} /\ v.from = Last(history[o]).from \ {s}
  /\ v.by = <<s, 0>> /\ v.rt = "gmail_forget" /\ v.obs = "nothing" /\ retired[o] = None /\ ~SeenByModel(o, s)
  /\ \E f \in Attributed(o, s) : s \notin history[o][f - 1].from /\ \A j \in Attributed(o, s) : f <= j

LEMMA OverviewDone ==
  ASSUME StoredTypes, NEW o \in Opps, NEW s \in Sources
  PROVE  \/ OverviewRepair(s, o) = <<>>
         \/ \E x \in Writes : /\ OverviewRepair(s, o) = <<x>>
                              /\ x.w = "version" /\ x.o = o /\ ForgetVersion(s, o, x.val)
<1> DEFINE A == Attributed(o, s)
           first == CHOOSE i \in A : \A j \in A : i <= j
           H == history[o]
           cur == Last(H)
           from == IF \E i \in (first + 1) .. Len(H) : i \notin A /\ H[i].rt = "model" THEN cur.from ELSE cur.from \ {s}
           v == [cites |-> {c \in cur.cites : c[1] # s}, by |-> <<s, 0>>, rt |-> "gmail_forget", from |-> from,
                 obs |-> "nothing"]
<1> SUFFICES ASSUME OverviewRepair(s, o) # <<>>
             PROVE  \E x \in Writes : /\ OverviewRepair(s, o) = <<x>>
                                      /\ x.w = "version" /\ x.o = o /\ ForgetVersion(s, o, x.val)
  OBVIOUS
<1>1. /\ OverviewRepair(s, o) = WriteVersion(o, v)
      /\ A # {} /\ ~SeenByModel(o, s) /\ s \notin H[first - 1].from /\ retired[o] = None
  BY DEF OverviewRepair
<1>2. H \in Seq(Version) /\ Len(H) \in Nat
  BY DEF StoredTypes
<1>3. A \in SUBSET Nat /\ A \subseteq 2 .. Len(H)
  BY <1>2 DEF Attributed
<1>4. first \in A /\ \A j \in A : first <= j
  <2> HIDE DEF A
  <2>1. \E i \in A : \A j \in A : i <= j
    BY <1>1, <1>3, LeastNumber
  <2> QED
    BY <2>1, Zenon
<1> HIDE DEF first
<1>5. ~ \E i \in (first + 1) .. Len(H) : i \notin A /\ H[i].rt = "model"
  <2> SUFFICES ASSUME NEW i \in (first + 1) .. Len(H), i \notin A, H[i].rt = "model" PROVE FALSE
    OBVIOUS
  <2>1. first \in Nat /\ first < i /\ i \in 1 .. Len(H)
    BY <1>2, <1>3, <1>4
  <2>2. first \in Attributed(o, s) /\ i \notin Attributed(o, s) /\ H[i].rt # "gmail_forget"
    BY <1>4
  <2> HIDE DEF A
  <2>3. SeenByModel(o, s)
    BY <2>1, <2>2 DEF SeenByModel
  <2> QED
    BY <2>3, <1>1
<1>6. from = cur.from \ {s}
  BY <1>5
<1>7. Len(H) > 0 /\ cur \in Version
  <2>1. first \in 2 .. Len(H)
    BY <1>3, <1>4
  <2>2. Len(H) > 0 /\ Len(H) \in 1 .. Len(H)
    BY <2>1, <1>2
  <2> QED
    BY <2>2, <1>2 DEF Last
<1> HIDE DEF from
<1>8. PICK nv : nv = v
  OBVIOUS
<1>9. /\ nv \in Version /\ nv.cites = {c \in cur.cites : c[1] # s} /\ nv.from = cur.from \ {s}
      /\ nv.by = <<s, 0>> /\ nv.rt = "gmail_forget" /\ nv.obs = "nothing"
  <2>1. {c \in cur.cites : c[1] # s} \in SUBSET (Ids \X Nat) /\ cur.from \ {s} \in SUBSET Sources
        /\ <<s, 0>> \in Ids \X Nat /\ "nothing" \in Sayings
    BY <1>7 DEF Version, Ids, Sayings
  <2> QED
    BY <2>1, <1>6, <1>8 DEF Version
<1>10. PICK x : x = [w |-> "version", o |-> o, val |-> nv]
  OBVIOUS
<1>11. x \in Writes /\ x.w = "version" /\ x.o = o /\ x.val = nv
  BY <1>9, <1>10 DEF Writes
<1>12. OverviewRepair(s, o) = <<x>>
  BY <1>1, <1>8, <1>10 DEF WriteVersion
<1>13. ForgetVersion(s, o, nv)
  BY <1>1, <1>4, <1>9 DEF ForgetVersion
<1> QED
  BY <1>11, <1>12, <1>13

\* What a removal writes.
Forgot(s) ==
  {x \in Writes :
     \/ \E o \in Opps : x \in Logged(o)
     \/ x.w = "pending" /\ x.s = s /\ x.val = NoPending
     \/ x.w = "action" /\ RetractedAction(s, x.o, x)
     \/ x.w = "version" /\ ForgetVersion(s, x.o, x.val)
     \/ x.w = "source" /\ x.s = s /\ x.val = NoSource
     \/ x.w = "receipt" /\ x.s = s}

\* One version of each overview.
OneVersion(F) == \A p, q \in 1 .. Len(F) : F[p].w = "version" /\ F[q].w = "version" /\ F[p].o = F[q].o => p = q

ForgettingOf(F, s) ==
  /\ F \in Seq(Forgot(s)) /\ OneVersion(F)
  /\ receipts[s] = "none" => F # <<>> /\ F[1].w = "receipt" /\ F[1].s = s

LEMMA ForgetDone ==
  ASSUME StoredTypes, NamesAssumption, NEW s \in Sources
  PROVE  ForgettingOf(ForgetWrites(s), s)
<1> DEFINE Mentions(o) == \E t \in Sources : LET a == actions[o][t] IN
                            Exists(a) /\ (t = s \/ \E h \in a.hints : h.src = s)
           Affected(o) == \E v \in ToSet(history[o]) : CitesOf(v, s)
           M == {o \in Opps : Mentions(o)}
           N == {o \in Opps : Affected(o)}
           A == IF receipts[s] = "none" THEN WriteReceipt(s, "pending") ELSE <<>>
           B == WritePending(s, NoPending)
           C == FlattenSeq([i \in 1 .. Cardinality(M) |-> RetractWrites(s, SetToSeq(M)[i])])
           D == FlattenSeq([i \in 1 .. Cardinality(N) |-> OverviewRepair(s, SetToSeq(N)[i])])
           E == WriteSource(s, NoSource)
           G == WriteReceipt(s, "complete")
           F == ForgetWrites(s)
           X == Forgot(s)
           c == [o \in M |-> RetractWrites(s, o)]
           d == [o \in N |-> OverviewRepair(s, o)]
           Plain(Q) == \A p \in 1 .. Len(Q) : Q[p].w # "version"
<1>0. IsFiniteSet(Sources) /\ IsFiniteSet(Opps)
  BY DEF NamesAssumption
<1>1. F = ((((A \o B) \o C) \o D) \o E) \o G
  BY Zenon DEF ForgetWrites, ForEach
<1>2. M \in SUBSET Opps /\ N \in SUBSET Opps
  OBVIOUS
<1> HIDE DEF M, N
<1>3. IsFiniteSet(M) /\ IsFiniteSet(N)
  BY <1>0, <1>2, FS_Subset
<1>4. \A st \in {"pending", "complete"} :
        \E x \in X : WriteReceipt(s, st) = <<x>> /\ x.w = "receipt" /\ x.s = s
  <2> SUFFICES ASSUME NEW st \in {"pending", "complete"}
               PROVE  \E x \in X : WriteReceipt(s, st) = <<x>> /\ x.w = "receipt" /\ x.s = s
    OBVIOUS
  <2>1. PICK x : x = [w |-> "receipt", s |-> s, val |-> st]
    OBVIOUS
  <2>2. x \in Writes /\ x.w = "receipt" /\ x.s = s
    BY <2>1 DEF Writes
  <2>3. x \in X
    BY <2>2 DEF Forgot
  <2> QED
    BY <2>1, <2>2, <2>3 DEF WriteReceipt
<1>5. B \in Seq(X) /\ Plain(B)
  <2>1. B \in Seq(X) /\ B = <<[w |-> "pending", s |-> s, val |-> NoPending]>>
    BY NoPendingType, PendingWritten DEF Forgot
  <2> QED
    BY <2>1
<1>6. E \in Seq(X) /\ Plain(E)
  <2>1. PICK x : x = [w |-> "source", s |-> s, val |-> NoSource]
    OBVIOUS
  <2>2. NoSource \in GoodRecord
    BY NoSourceOK DEF GoodRecord, SourceOK
  <2>3. x \in Writes /\ x.w = "source" /\ x.s = s /\ x.val = NoSource
    BY <2>1, <2>2 DEF Writes
  <2>4. x \in X
    BY <2>3 DEF Forgot
  <2>5. E = <<x>>
    BY <2>1 DEF WriteSource
  <2> HIDE DEF X, E
  <2>6. <<x>> \in Seq(X) /\ Len(<<x>>) = 1 /\ <<x>>[1] = x
    BY <2>4, SeqOne
  <2> QED
    BY <2>3, <2>5, <2>6
<1> HIDE DEF B, E
<1>7. A \in Seq(X) /\ Plain(A) /\ (receipts[s] = "none" => Len(A) = 1 /\ A[1].w = "receipt" /\ A[1].s = s)
  <2>1. PICK x \in X : WriteReceipt(s, "pending") = <<x>> /\ x.w = "receipt" /\ x.s = s
    BY <1>4
  <2>2. A = IF receipts[s] = "none" THEN <<x>> ELSE <<>>
    BY <2>1
  <2> HIDE DEF X, A
  <2>3. <<x>> \in Seq(X) /\ Len(<<x>>) = 1 /\ <<x>>[1] = x /\ <<>> \in Seq(X) /\ Len(<<>>) = 0
    BY <2>1, SeqOne, SeqNone
  <2>4. CASE receipts[s] = "none"
    BY <2>1, <2>2, <2>3, <2>4
  <2>5. CASE receipts[s] # "none"
    BY <2>2, <2>3, <2>5
  <2> QED
    BY <2>4, <2>5
<1>8. G \in Seq(X) /\ Plain(G)
  <2>1. PICK x \in X : WriteReceipt(s, "complete") = <<x>> /\ x.w = "receipt" /\ x.s = s
    BY <1>4
  <2> HIDE DEF X
  <2>2. <<x>> \in Seq(X) /\ Len(<<x>>) = 1 /\ <<x>>[1] = x
    BY <2>1, SeqOne
  <2>3. G = <<x>>
    BY <2>1
  <2> HIDE DEF G
  <2> QED
    BY <2>1, <2>2, <2>3
<1> HIDE DEF A, G
<1>9. ASSUME NEW o \in Opps PROVE RetractWrites(s, o) \in Seq(X) /\ Plain(RetractWrites(s, o))
  <2>1. RetractWrites(s, o) \in Seq(Retracted(s, o))
    BY <1>0, RetractDone
  <2>2. ASSUME NEW x \in Retracted(s, o) PROVE x \in X /\ x.w # "version"
    <3>1. x \in Writes /\ (x \in Logged(o) \/ (x.w = "pending" /\ x.s = s /\ x.val = NoPending) \/ RetractedAction(s, o, x))
      BY DEF Retracted
    <3>2. RetractedAction(s, o, x) => x.w = "action" /\ x.o = o
      BY DEF RetractedAction
    <3>3. x \in Logged(o) => x.w = "change"
      BY DEF Logged
    <3> QED
      BY <3>1, <3>2, <3>3 DEF Forgot
  <2> HIDE DEF X
  <2> QED
    BY <2>1, <2>2
<1>10. ASSUME NEW o \in Opps
       PROVE  /\ OverviewRepair(s, o) \in Seq(X) /\ Len(OverviewRepair(s, o)) \in {0, 1}
              /\ \A p \in 1 .. Len(OverviewRepair(s, o)) : OverviewRepair(s, o)[p].o = o
  <2> DEFINE R == OverviewRepair(s, o)
  <2>1. CASE R = <<>>
    <3> HIDE DEF X, R
    <3> QED
      BY <2>1, SeqNone DEF R
  <2>2. CASE R # <<>>
    <3>1. PICK x \in Writes : R = <<x>> /\ x.w = "version" /\ x.o = o /\ ForgetVersion(s, o, x.val)
      BY <2>2, OverviewDone
    <3>2. x \in X
      BY <3>1 DEF Forgot
    <3> HIDE DEF X, R
    <3>3. <<x>> \in Seq(X) /\ Len(<<x>>) = 1 /\ <<x>>[1] = x
      BY <3>2, SeqOne
    <3> QED
      BY <3>1, <3>3 DEF R
  <2> QED
    BY <2>1, <2>2
<1> HIDE DEF X
<1>11. C \in Seq(X) /\ Plain(C)
  <2>1. c \in [M -> Seq(X)] /\ \A o \in M : Plain(c[o])
    BY <1>2, <1>9
  <2>2. C = FlattenSeq([i \in 1 .. Cardinality(M) |-> c[SetToSeq(M)[i]]])
    <3>1. \A i \in 1 .. Cardinality(M) : SetToSeq(M)[i] \in M
      BY <1>3, Listing
    <3>2. [i \in 1 .. Cardinality(M) |-> RetractWrites(s, SetToSeq(M)[i])]
            = [i \in 1 .. Cardinality(M) |-> c[SetToSeq(M)[i]]]
      BY <3>1
    <3> QED
      BY <3>2
  <2> HIDE DEF C, c
  <2>3. C \in Seq(X) /\ \E row, col : Spread(C, M, c, row, col)
    BY <1>3, <2>1, <2>2, ForEachSpread
  <2>4. PICK row, col : Spread(C, M, c, row, col)
    BY <2>3
  <2>5. \A p \in 1 .. Len(C) : row[p] \in M /\ col[p] \in 1 .. Len(c[row[p]]) /\ C[p] = c[row[p]][col[p]]
    BY <2>4 DEF Spread
  <2> QED
    BY <2>1, <2>3, <2>5
<1>12. D \in Seq(X) /\ OneVersion(D)
  <2>1. d \in [N -> Seq(X)] /\ \A o \in N : Len(d[o]) \in {0, 1} /\ \A p \in 1 .. Len(d[o]) : d[o][p].o = o
    BY <1>2, <1>10
  <2>2. D = FlattenSeq([i \in 1 .. Cardinality(N) |-> d[SetToSeq(N)[i]]])
    <3>1. \A i \in 1 .. Cardinality(N) : SetToSeq(N)[i] \in N
      BY <1>3, Listing
    <3>2. [i \in 1 .. Cardinality(N) |-> OverviewRepair(s, SetToSeq(N)[i])]
            = [i \in 1 .. Cardinality(N) |-> d[SetToSeq(N)[i]]]
      BY <3>1
    <3> QED
      BY <3>2
  <2> HIDE DEF D, d
  <2>3. D \in Seq(X) /\ \E row, col : Spread(D, N, d, row, col)
    BY <1>3, <2>1, <2>2, ForEachSpread
  <2>4. PICK row, col : Spread(D, N, d, row, col)
    BY <2>3
  <2>5. \A p \in 1 .. Len(D) : row[p] \in N /\ col[p] \in 1 .. Len(d[row[p]]) /\ D[p] = d[row[p]][col[p]]
    BY <2>4 DEF Spread
  <2>6. \A p \in 1 .. Len(D) : D[p].o = row[p] /\ col[p] = 1
    BY <2>1, <2>5
  <2>7. \A p, q \in 1 .. Len(D) : row[p] = row[q] /\ col[p] = col[q] => p = q
    BY <2>4 DEF Spread
  <2> QED
    BY <2>3, <2>6, <2>7 DEF OneVersion
<1> HIDE DEF C, D, F, Plain
<1> DEFINE P == (A \o B) \o C
           Q == E \o G
<1>13. P \in Seq(X) /\ Plain(P) /\ (receipts[s] = "none" => Len(P) > 0 /\ P[1].w = "receipt" /\ P[1].s = s)
  <2> DEFINE R == A \o B
  <2>1. /\ R \in Seq(X) /\ Len(R) \in Nat
        /\ \A p \in 1 .. Len(R) : \/ p \in 1 .. Len(A) /\ R[p] = A[p]
                                  \/ p - Len(A) \in 1 .. Len(B) /\ R[p] = B[p - Len(A)]
        /\ Len(A) = 1 => Len(R) > 0 /\ R[1] = A[1]
    BY <1>5, <1>7
  <2> HIDE DEF R
  <2>2. Plain(R)
    BY <2>1, <1>5, <1>7 DEF Plain
  <2>3. P = R \o C
    BY DEF R
  <2>4. /\ P \in Seq(X) /\ Len(P) \in Nat
        /\ \A p \in 1 .. Len(P) : \/ p \in 1 .. Len(R) /\ P[p] = R[p]
                                  \/ p - Len(R) \in 1 .. Len(C) /\ P[p] = C[p - Len(R)]
        /\ Len(R) > 0 => Len(P) > 0 /\ P[1] = R[1]
    BY <2>1, <2>3, <1>11
  <2> HIDE DEF P
  <2>5. Plain(P)
    BY <2>2, <2>4, <1>11 DEF Plain
  <2> QED
    BY <2>1, <2>4, <2>5, <1>7
<1>14. Q \in Seq(X) /\ Plain(Q)
  <2>1. /\ Q \in Seq(X)
        /\ \A p \in 1 .. Len(Q) : \/ p \in 1 .. Len(E) /\ Q[p] = E[p]
                                  \/ p - Len(E) \in 1 .. Len(G) /\ Q[p] = G[p - Len(E)]
    BY <1>6, <1>8
  <2> HIDE DEF Q
  <2> QED
    BY <2>1, <1>6, <1>8 DEF Plain
<1>15. F = (P \o D) \o Q
  BY <1>1, <1>6, <1>8, <1>12, <1>13
<1> HIDE DEF P, Q
<1> DEFINE R == P \o D
<1>16. /\ R \in Seq(X) /\ Len(R) = Len(P) + Len(D) /\ Len(P) \in Nat /\ Len(D) \in Nat
       /\ \A p \in 1 .. Len(R) : \/ p \in 1 .. Len(P) /\ R[p] = P[p]
                                 \/ p - Len(P) \in 1 .. Len(D) /\ R[p] = D[p - Len(P)]
       /\ Len(P) > 0 => R[1] = P[1]
  BY <1>12, <1>13
<1> HIDE DEF R
<1>17. OneVersion(R)
  <2> SUFFICES ASSUME NEW p \in 1 .. Len(R), NEW q \in 1 .. Len(R),
                      R[p].w = "version", R[q].w = "version", R[p].o = R[q].o
               PROVE  p = q
    BY DEF OneVersion
  <2>1. /\ p - Len(P) \in 1 .. Len(D) /\ R[p] = D[p - Len(P)]
        /\ q - Len(P) \in 1 .. Len(D) /\ R[q] = D[q - Len(P)]
    BY <1>13, <1>16 DEF Plain
  <2>2. p - Len(P) = q - Len(P)
    BY <2>1, <1>12 DEF OneVersion
  <2> QED
    BY <2>2, <1>16
<1>18. /\ F \in Seq(X) /\ Len(F) = Len(R) + Len(Q) /\ Len(R) \in Nat /\ Len(Q) \in Nat
       /\ \A p \in 1 .. Len(F) : \/ p \in 1 .. Len(R) /\ F[p] = R[p]
                                 \/ p - Len(R) \in 1 .. Len(Q) /\ F[p] = Q[p - Len(R)]
       /\ Len(R) > 0 => F[1] = R[1]
  BY <1>14, <1>15, <1>16 DEF R
<1>19. OneVersion(F)
  BY <1>14, <1>17, <1>18 DEF OneVersion, Plain
<1>20. receipts[s] = "none" => Len(F) > 0 /\ F[1].w = "receipt" /\ F[1].s = s
  BY <1>13, <1>16, <1>18
<1>21. Len(F) > 0 => F # <<>>
  BY <1>18
<1> QED
  BY <1>18, <1>19, <1>20, <1>21 DEF ForgettingOf, X, F

\* What a user's transition does to the action.
MovedAction(o, s, x) ==
  /\ x.w = "action" /\ x.o = o /\ x.s = s
  /\ x.val.retracted = actions[o][s].retracted /\ x.val.hints = actions[o][s].hints
  /\ x.val.evidence = actions[o][s].evidence
  /\ \E m \in Move : x.val.trans = Append(actions[o][s].trans, m) /\ m.by # "analysis"

LEMMA HumanDone ==
  ASSUME StoredTypes, NEW o \in Opps, NEW s \in Sources, NEW to \in MoveTargets, NEW by \in {"user", "undo"},
         Exists(actions[o][s])
  PROVE  \E x, y \in Writes : /\ HumanWrites(o, s, to, by) = (RepairWrites(o, s) \o <<x>>) \o <<y>>
                              /\ MovedAction(o, s, x)
                              /\ Records(y, o, s, Len(actions[o][s].trans) + 1)
<1>1. PICK a \in Action : a = actions[o][s]
  BY DEF StoredTypes
<1>2. PICK m \in Move : m = [to |-> to, by |-> by] /\ m.by # "analysis"
  <2>1. PICK m : m = [to |-> to, by |-> by]
    OBVIOUS
  <2>2. m.by = by /\ by # "analysis" /\ m \in Move
    BY <2>1 DEF Move
  <2> QED
    BY <2>1, <2>2
<1>3. PICK ms \in Trail : ms = Append(a.trans, m)
  <2>1. a.trans \in Trail /\ a.trans \in Seq(Move) /\ a.trans # <<>>
    BY <1>1 DEF Action, Trail, Exists
  <2>2. Append(a.trans, m) \in Seq(Move) /\ Len(a.trans) > 0 /\ Append(a.trans, m)[1] = a.trans[1]
    BY <2>1, <1>2
  <2>3. Append(a.trans, m) \in Trail
    BY <2>1, <2>2 DEF Trail
  <2> QED
    BY <2>3
<1>4. PICK b : b = [a EXCEPT !.trans = ms]
  OBVIOUS
<1>5. b \in Action /\ b.trans = ms /\ b.retracted = a.retracted /\ b.hints = a.hints /\ b.evidence = a.evidence
  BY <1>1, <1>3, <1>4 DEF Action
<1>6. PICK x : x = [w |-> "action", o |-> o, s |-> s, val |-> b]
  OBVIOUS
<1>7. x \in Writes /\ x.w = "action" /\ x.o = o /\ x.s = s /\ x.val = b
  BY <1>5, <1>6, OneWrite
<1>8. WriteAction(o, s, [a EXCEPT !.trans = Append(@, [to |-> to, by |-> by])]) = <<x>>
  BY <1>1, <1>2, <1>3, <1>4, <1>6 DEF WriteAction
<1>9. PICK n \in Nat : n = Len(a.trans) + 1
  <2>1. a.trans \in Seq(Move)
    BY <1>1 DEF Action, Trail
  <2> QED
    BY <2>1
<1>10. PICK y : y = [w |-> "change", o |-> o, val |-> Entry("action_transition", s, n, None)]
  OBVIOUS
<1>11. /\ WriteChange(o, Entry("action_transition", s, n, None)) = <<y>>
       /\ y \in Writes /\ Records(y, o, s, n)
  <2>1. "action_transition" \in ChangeTypes /\ s \in Sources \cup Nat /\ n \in Nat /\ None \in Ids
    BY <1>9 DEF Ids, ChangeTypes
  <2>2. /\ WriteChange(o, Entry("action_transition", s, n, None)) = <<y>>
        /\ y \in Writes /\ y.w = "change" /\ y.o = o
        /\ y.val.type = "action_transition" /\ y.val.subject = s /\ y.val.n = n
    BY <2>1, <1>10, ChangeWritten
  <2> QED
    BY <2>2 DEF Records
<1>12. HumanWrites(o, s, to, by) = (RepairWrites(o, s) \o <<x>>) \o <<y>>
  BY <1>1, <1>8, <1>9, <1>11 DEF HumanWrites
<1>13. MovedAction(o, s, x)
  BY <1>1, <1>2, <1>3, <1>5, <1>7 DEF MovedAction
<1> QED
  BY <1>1, <1>7, <1>9, <1>11, <1>12, <1>13

\* The repair before a list of changes.
AllRepaired(o) == {x \in Writes : \E s \in Sources : x \in Repaired(o, s)}

LEMMA ListDone ==
  ASSUME StoredTypes, IsFiniteSet(Sources), NEW o \in Opps
  PROVE  /\ ForEach(Sources, LAMBDA s : RepairWrites(o, s)) \in Seq(AllRepaired(o))
         /\ Once(ForEach(Sources, LAMBDA s : RepairWrites(o, s)))
<1> DEFINE F == FlattenSeq([i \in 1 .. Cardinality(Sources) |-> RepairWrites(o, SetToSeq(Sources)[i])])
           g == [s \in Sources |-> RepairWrites(o, s)]
           X == AllRepaired(o)
<1>1. ForEach(Sources, LAMBDA s : RepairWrites(o, s)) = F
  BY Zenon DEF ForEach
<1>2. ASSUME NEW s \in Sources
      PROVE  /\ RepairWrites(o, s) \in Seq(X) /\ Once(RepairWrites(o, s))
             /\ \A p \in 1 .. Len(RepairWrites(o, s)) : RepairWrites(o, s)[p].val.subject = s
  <2>1. RepairWrites(o, s) \in Seq(Repaired(o, s)) /\ Once(RepairWrites(o, s))
    BY RepairDone
  <2>2. \A x \in Repaired(o, s) : x \in X /\ x.val.subject = s
    BY DEF Repaired, AllRepaired, Records
  <2> HIDE DEF X
  <2> QED
    BY <2>1, <2>2
<1> HIDE DEF X
<1>3. /\ g \in [Sources -> Seq(X)]
      /\ \A s \in Sources : Once(g[s]) /\ \A p \in 1 .. Len(g[s]) : g[s][p].val.subject = s
  BY <1>2
<1>4. F = FlattenSeq([i \in 1 .. Cardinality(Sources) |-> g[SetToSeq(Sources)[i]]])
  <2>1. \A i \in 1 .. Cardinality(Sources) : SetToSeq(Sources)[i] \in Sources
    BY Listing
  <2>2. [i \in 1 .. Cardinality(Sources) |-> RepairWrites(o, SetToSeq(Sources)[i])]
          = [i \in 1 .. Cardinality(Sources) |-> g[SetToSeq(Sources)[i]]]
    BY <2>1
  <2> QED
    BY <2>2
<1> HIDE DEF F, g
<1>5. F \in Seq(X) /\ \E row, col : Spread(F, Sources, g, row, col)
  BY <1>3, <1>4, ForEachSpread
<1>6. PICK row, col : Spread(F, Sources, g, row, col)
  BY <1>5
<1>7. \A p \in 1 .. Len(F) : row[p] \in Sources /\ col[p] \in 1 .. Len(g[row[p]]) /\ F[p] = g[row[p]][col[p]]
  BY <1>6 DEF Spread
<1>8. \A p, q \in 1 .. Len(F) : row[p] = row[q] /\ col[p] = col[q] => p = q
  BY <1>6 DEF Spread
<1>9. Once(F)
  <2> SUFFICES ASSUME NEW p \in 1 .. Len(F), NEW q \in 1 .. Len(F),
                      F[p].w = "change", F[q].w = "change", F[p].o = F[q].o,
                      F[p].val.type = "action_transition", F[q].val.type = "action_transition",
                      F[p].val.subject = F[q].val.subject, F[p].val.n = F[q].val.n
               PROVE  p = q
    BY DEF Once
  <2>1. F[p].val.subject = row[p] /\ F[q].val.subject = row[q]
    BY <1>3, <1>7, SMTT(60)
  <2>2. row[p] = row[q]
    BY <2>1
  <2>3. Once(g[row[p]]) /\ col[p] \in 1 .. Len(g[row[p]]) /\ col[q] \in 1 .. Len(g[row[p]])
        /\ F[p] = g[row[p]][col[p]] /\ F[q] = g[row[p]][col[q]]
    BY <1>3, <1>7, <2>2
  <2>4. col[p] = col[q]
    BY <2>3 DEF Once
  <2> QED
    BY <2>2, <2>4, <1>8
<1> QED
  BY <1>1, <1>5, <1>9 DEF X

-----------------------------------------------------------------------------
(* The steps, by what they do.                                             *)

Counts == [requests : Nat, faults : Nat, torn : BOOLEAN]

LEMMA Counted ==
  ASSUME counts \in Counts
  PROVE  /\ Requested => counts' \in Counts /\ counts'.torn = counts.torn
         /\ Chance("faults", MaxFaults) => counts' \in Counts /\ counts'.torn = counts.torn
         /\ Cut => counts' \in Counts /\ counts'.torn = (counts.torn \/ work.kind = "correct")
<1>1. counts.requests + 1 \in Nat /\ counts.faults + 1 \in Nat
  BY DEF Counts
<1>2. ASSUME Requested PROVE counts' \in Counts /\ counts'.torn = counts.torn
  BY <1>1, <1>2 DEF Requested, Chance, Counts
<1>3. ASSUME Chance("faults", MaxFaults) PROVE counts' \in Counts /\ counts'.torn = counts.torn
  BY <1>1, <1>3 DEF Chance, Counts
<1>4. ASSUME Cut PROVE counts' \in Counts /\ counts'.torn = (counts.torn \/ work.kind = "correct")
  <2>1. PICK b \in BOOLEAN : b = (counts.torn \/ work.kind = "correct")
    OBVIOUS
  <2>2. PICK n \in Nat : n = counts.faults + 1
    BY <1>1
  <2>3. counts' = [counts EXCEPT !.faults = n, !.torn = b]
    BY <1>4, <2>1, <2>2 DEF Cut
  <2>4. counts' \in Counts /\ counts'.torn = b
    BY <2>1, <2>2, <2>3 DEF Counts
  <2> QED
    BY <2>1, <2>4
<1> QED
  BY <1>2, <1>3, <1>4

\* What happens to a record without the lock of an operation: no association
\* with an opportunity is made or lost, and nothing becomes processed.
Calm(q, r) ==
  /\ SourceOK(q)
  /\ q.assoc = r.assoc \/ (~Associated(q) /\ ~Associated(r))
  /\ q.status = "processed" => r.status = "processed" /\ q.done = r.done /\ q.assoc = r.assoc

\* A step of the ledger and of the runs, which leaves the rest alone.
Settled ==
  /\ UNCHANGED <<receipts, history, retired, actions, changes, work, todo>>
  /\ counts'.torn = counts.torn
  /\ \A t \in Sources : Calm(ledger'[t], ledger[t])
  /\ \/ Idle
     \/ ledger' = ledger /\ \A t \in Sources : jobs'[t] = jobs[t] \/ jobs[t].phase = "model"

LEMMA CalmSame == ASSUME NEW r, SourceOK(r) PROVE Calm(r, r)
  BY DEF Calm

LEMMA CalmSteady == ASSUME NEW q, NEW r, Steady(q, r) PROVE Calm(q, r)
  BY DEF Calm, Steady, SameEvidence

LEMMA SteadyChain == ASSUME NEW p, NEW q, NEW r, Steady(p, q), Steady(q, r) PROVE Steady(p, r)
  BY DEF Steady, SameEvidence

\* The record of one source changes.
LEMMA OneRecord ==
  ASSUME StoredTypes, NEW s \in Sources, NEW q, Calm(q, ledger[s]), ledger' = [ledger EXCEPT ![s] = q]
  PROVE  /\ ledger' \in [Sources -> Record] /\ \A t \in Sources : SourceOK(ledger'[t])
         /\ \A t \in Sources : Calm(ledger'[t], ledger[t])
<1>1. ledger \in [Sources -> Record] /\ \A t \in Sources : SourceOK(ledger[t])
  BY DEF StoredTypes
<1>2. q \in Record /\ SourceOK(q)
  BY DEF Calm, SourceOK
<1>3. \A t \in Sources : ledger'[t] = IF t = s THEN q ELSE ledger[t]
  BY <1>1
<1>4. ledger' \in [Sources -> Record]
  BY <1>1, <1>2
<1> QED
  BY <1>1, <1>2, <1>3, <1>4, CalmSame

\* An idle step of the ledger.
LEMMA LedgerStep ==
  ASSUME CenterTypes, Idle, NEW s \in Sources, NEW q, Calm(q, ledger[s]), ledger' = [ledger EXCEPT ![s] = q],
         counts' \in Counts, counts'.torn = counts.torn, pending' \in [Sources -> Marker],
         jobs' \in [Sources -> JobRec], \A t \in Sources : jobs'[t].phase # "none" => jobs'[t].o \in Opps,
         start' \in {start, NoStart},
         UNCHANGED <<receipts, history, retired, actions, changes, work, todo>>
  PROVE  CenterTypes' /\ Settled
<1>1. /\ ledger' \in [Sources -> Record] /\ \A t \in Sources : SourceOK(ledger'[t])
      /\ \A t \in Sources : Calm(ledger'[t], ledger[t])
  BY OneRecord DEF CenterTypes
<1>2. StoredTypes'
  BY <1>1 DEF CenterTypes, StoredTypes
<1>3. NoStart \in Startup /\ SourceOK(NoStart.snap)
  BY NoSourceOK DEF NoStart, Startup, SourceOK, Ids
<1>4. RunTypes'
  BY <1>3 DEF CenterTypes, RunTypes, Counts
<1> QED
  BY <1>1, <1>2, <1>4 DEF CenterTypes, Settled

LEMMA ImportStep ==
  ASSUME CenterAssumption, CenterTypes, NEW s \in Sources, NEW a \in Imports, Import(s, a)
  PROVE  CenterTypes' /\ Settled
<1>1. a \in Availability /\ SourceOK(ledger[s])
  BY DEF CenterAssumption, CenterTypes, StoredTypes
<1>2. Calm(Imported(ledger[s], a), ledger[s])
  <2>1. /\ SourceOK(Imported(ledger[s], a)) /\ Imported(ledger[s], a).assoc = ledger[s].assoc
        /\ Imported(ledger[s], a).status # "processed"
    BY <1>1, ImportedOK
  <2> QED
    BY <2>1 DEF Calm
<1>3. counts' \in Counts /\ counts'.torn = counts.torn
  BY Counted DEF Import, CenterTypes, RunTypes, Counts
<1> QED
  BY <1>2, <1>3, LedgerStep DEF Import, CenterTypes, RunTypes, StoredTypes

LEMMA ProposeStep ==
  ASSUME NamesAssumption, CenterTypes, NEW s \in Sources, Propose(s)
  PROVE  CenterTypes' /\ Settled
<1>1. SourceOK(ledger[s]) /\ ledger[s].rev > 0 /\ ~Associated(ledger[s])
  BY DEF CenterTypes, StoredTypes, Propose, Known
<1>2. Calm(ProposedFor(ledger[s]), ledger[s])
  BY <1>1, ProposedOK DEF Calm
<1>3. counts' \in Counts /\ counts'.torn = counts.torn
  BY Counted DEF Propose, CenterTypes, RunTypes, Counts
<1> QED
  BY <1>2, <1>3, LedgerStep DEF Propose, CenterTypes, RunTypes, StoredTypes

LEMMA RetryStep ==
  ASSUME CenterTypes, NEW s \in Sources, Retry(s)
  PROVE  CenterTypes' /\ Settled
<1>1. SourceOK(ledger[s])
  BY DEF CenterTypes, StoredTypes
<1>2. Calm(Retried(ledger[s]), ledger[s])
  BY <1>1, RetriedOK, CalmSteady
<1>3. counts' \in Counts /\ counts'.torn = counts.torn
  BY Counted DEF Retry, CenterTypes, RunTypes, Counts
<1> QED
  BY <1>2, <1>3, LedgerStep DEF Retry, CenterTypes, RunTypes, StoredTypes

\* A step that leaves the ledger alone.
LEMMA RunStep ==
  ASSUME CenterTypes, UNCHANGED <<ledger, receipts, history, retired, actions, changes, work, todo>>,
         counts' \in Counts, counts'.torn = counts.torn, pending' \in [Sources -> Marker],
         jobs' \in [Sources -> JobRec], \A t \in Sources : jobs'[t].phase # "none" => jobs'[t].o \in Opps,
         Idle \/ \A t \in Sources : jobs'[t] = jobs[t] \/ jobs[t].phase = "model",
         start' \in Startup, SourceOK(start'.snap), start' # NoStart => start'.s \in Sources /\ Associated(start'.snap)
  PROVE  CenterTypes' /\ Settled
<1>1. \A t \in Sources : SourceOK(ledger[t])
  BY DEF CenterTypes, StoredTypes
<1>2. \A t \in Sources : Calm(ledger'[t], ledger[t])
  BY <1>1, CalmSame
<1>3. StoredTypes'
  BY DEF CenterTypes, StoredTypes
<1>4. RunTypes'
  BY DEF CenterTypes, RunTypes, Counts
<1> QED
  BY <1>2, <1>3, <1>4 DEF CenterTypes, Settled

LEMMA NoStartType == NoStart \in Startup /\ SourceOK(NoStart.snap)
  BY NoSourceOK DEF NoStart, Startup, SourceOK, Ids

LEMMA BeginStep ==
  ASSUME CenterAssumption, CenterTypes, NEW s \in Sources, NEW kind \in {"first", "again"}, NEW base \in 0 .. MaxVersions,
         BeginStart(s, kind, base)
  PROVE  CenterTypes' /\ Settled
<1>1. counts' \in Counts /\ counts'.torn = counts.torn
  BY Counted DEF BeginStart, CenterTypes, RunTypes, Counts
<1>2. PICK r \in Record : r = ledger[s] /\ SourceOK(r) /\ Associated(r)
  BY DEF CenterTypes, StoredTypes, BeginStart
<1>3. base \in Nat /\ s \in Ids
  BY DEF CenterAssumption, Ids
<1>4. PICK st : st = [s |-> s, kind |-> kind, snap |-> r, base |-> base]
  OBVIOUS
<1>5. st \in Startup /\ st.snap = r /\ st.s = s
  BY <1>2, <1>3, <1>4 DEF Startup
<1>6. start' = st
  BY <1>2, <1>4 DEF BeginStart
<1> QED
  BY <1>1, <1>2, <1>5, <1>6, RunStep DEF BeginStart, CenterTypes, RunTypes, StoredTypes, stored

LEMMA RefusedStep ==
  ASSUME CenterTypes, StartRefused
  PROVE  CenterTypes' /\ Settled
  BY NoStartType, RunStep DEF StartRefused, CenterTypes, RunTypes, StoredTypes, stored, Counts

LEMMA AnswerStep ==
  ASSUME CenterAssumption, CenterTypes, NEW s \in Sources, NEW obs \in Observations, Answer(s, obs)
  PROVE  CenterTypes' /\ Settled
<1>1. PICK j \in JobRec : j = jobs[s] /\ j.phase = "model" /\ j.o \in Opps
  BY DEF Answer, CenterTypes, RunTypes
<1>2. obs \in Sayings
  BY DEF CenterAssumption, Sayings
<1>3. PICK k : k = [j EXCEPT !.phase = "commit", !.obs = obs]
  OBVIOUS
<1>4. k \in JobRec /\ k.o = j.o
  BY <1>1, <1>2, <1>3 DEF JobRec
<1>5. jobs' = [jobs EXCEPT ![s] = k]
  BY <1>1, <1>3 DEF Answer, CenterTypes, RunTypes
<1>6. /\ jobs' \in [Sources -> JobRec] /\ \A t \in Sources : jobs'[t].phase # "none" => jobs'[t].o \in Opps
      /\ \A t \in Sources : jobs'[t] = jobs[t] \/ jobs[t].phase = "model"
  BY <1>1, <1>4, <1>5 DEF CenterTypes, RunTypes
<1> QED
  BY <1>6, RunStep DEF Answer, CenterTypes, RunTypes, StoredTypes, stored, Counts

LEMMA NoJobType == NoJob \in JobRec /\ NoJob.phase = "none"
  BY DEF NoJob, JobRec, Sayings

\* A job that ends.
LEMMA JobEnds ==
  ASSUME CenterTypes, NEW s \in Sources, jobs' = [jobs EXCEPT ![s] = NoJob]
  PROVE  jobs' \in [Sources -> JobRec] /\ \A t \in Sources : jobs'[t].phase # "none" => jobs'[t].o \in Opps
<1>1. jobs \in [Sources -> JobRec] /\ \A t \in Sources : jobs[t].phase # "none" => jobs[t].o \in Opps
  BY DEF CenterTypes, RunTypes
<1>2. \A t \in Sources : jobs'[t] = IF t = s THEN NoJob ELSE jobs[t]
  BY <1>1
<1> QED
  BY <1>1, <1>2, NoJobType

\* A job that starts or goes on.
LEMMA JobGoesOn ==
  ASSUME CenterTypes, NEW s \in Sources, NEW j \in JobRec, j.o \in Opps, jobs' = [jobs EXCEPT ![s] = j]
  PROVE  jobs' \in [Sources -> JobRec] /\ \A t \in Sources : jobs'[t].phase # "none" => jobs'[t].o \in Opps
<1>1. jobs \in [Sources -> JobRec] /\ \A t \in Sources : jobs[t].phase # "none" => jobs[t].o \in Opps
  BY DEF CenterTypes, RunTypes
<1>2. \A t \in Sources : jobs'[t] = IF t = s THEN j ELSE jobs[t]
  BY <1>1
<1> QED
  BY <1>1, <1>2

LEMMA Launched ==
  ASSUME CenterTypes, NEW s \in Sources, NEW phase \in {"ready", "resume"}, NEW o \in Opps, NEW rev \in Nat,
         NEW base \in Nat, NEW seq \in Nat, Launch(s, phase, o, rev, base, seq)
  PROVE  jobs' \in [Sources -> JobRec] /\ \A t \in Sources : jobs'[t].phase # "none" => jobs'[t].o \in Opps
<1>0. PICK z \in JobRec : z = NoJob
  BY NoJobType
<1>1. PICK j : j = [z EXCEPT !.phase = phase, !.o = o, !.rev = rev, !.base = base, !.seq = seq]
  OBVIOUS
<1>2. j \in JobRec /\ j.o \in Opps
  BY <1>0, <1>1 DEF JobRec
<1>3. jobs' = [jobs EXCEPT ![s] = j]
  BY <1>0, <1>1 DEF Launch
<1> QED
  BY <1>2, <1>3, JobGoesOn

LEMMA FailStep ==
  ASSUME CenterTypes, Idle, NEW s \in Sources, FailJob(s), counts' \in Counts, counts'.torn = counts.torn,
         UNCHANGED <<receipts, history, retired, actions, changes, pending, start, work, todo>>
  PROVE  CenterTypes' /\ Settled
<1>1. SourceOK(ledger[s]) /\ pending \in [Sources -> Marker] /\ ledger \in [Sources -> Record]
  BY DEF CenterTypes, StoredTypes
<1>2. jobs' \in [Sources -> JobRec] /\ \A t \in Sources : jobs'[t].phase # "none" => jobs'[t].o \in Opps
  BY JobEnds DEF FailJob
<1>3. CASE receipts[s] = "none"
  <2>1. ledger' = [ledger EXCEPT ![s] = Failed(ledger[s])]
    BY <1>3 DEF FailJob
  <2>2. Calm(Failed(ledger[s]), ledger[s])
    BY <1>1, FailedOK, CalmSteady
  <2> QED
    BY <1>1, <1>2, <2>1, <2>2, LedgerStep
<1>4. CASE receipts[s] # "none"
  <2>1. ledger' = ledger
    BY <1>4 DEF FailJob
  <2> QED
    BY <1>1, <1>2, <2>1, RunStep DEF CenterTypes, RunTypes
<1> QED
  BY <1>3, <1>4

LEMMA AnalyseStep ==
  ASSUME CenterTypes, NEW s \in Sources, Analyse(s)
  PROVE  CenterTypes' /\ Settled
<1>0. counts' \in Counts /\ counts'.torn = counts.torn /\ Idle /\ pending' \in [Sources -> Marker]
  BY DEF Analyse, CenterTypes, RunTypes, StoredTypes, Counts
<1>1. CASE FailJob(s)
  BY <1>0, <1>1, FailStep DEF Analyse
<1>2. CASE ~FailJob(s)
  <2>1. jobs' = [jobs EXCEPT ![s].phase = "model"] /\ ledger' = ledger
    BY <1>2 DEF Analyse
  <2>2. PICK j \in JobRec : j = jobs[s] /\ j.o \in Opps
    BY DEF Analyse, CenterTypes, RunTypes
  <2>3. PICK k : k = [j EXCEPT !.phase = "model"]
    OBVIOUS
  <2>4. k \in JobRec /\ k.o = j.o
    BY <2>2, <2>3 DEF JobRec
  <2>5. jobs' = [jobs EXCEPT ![s] = k]
    BY <2>1, <2>2, <2>3
  <2>6. jobs' \in [Sources -> JobRec] /\ \A t \in Sources : jobs'[t].phase # "none" => jobs'[t].o \in Opps
    BY <2>2, <2>4, <2>5, JobGoesOn
  <2> QED
    BY <1>0, <2>1, <2>6, RunStep DEF Analyse, CenterTypes, RunTypes
<1> QED
  BY <1>1, <1>2

LEMMA ModelFailsStep ==
  ASSUME CenterTypes, NEW s \in Sources, ModelFails(s)
  PROVE  CenterTypes' /\ Settled
<1>1. counts' \in Counts /\ counts'.torn = counts.torn
  BY Counted DEF ModelFails, CenterTypes, RunTypes, Counts
<1> QED
  BY <1>1, FailStep DEF ModelFails

LEMMA StartResumesStep ==
  ASSUME CenterTypes, StartResumes
  PROVE  CenterTypes' /\ Settled
<1>1. start \in Startup /\ start.s \in Sources /\ start.snap \in Record /\ SourceOK(start.snap) /\ Associated(start.snap)
  BY DEF StartResumes, CenterTypes, RunTypes, Startup
<1>2. PICK s \in Sources : s = start.s
  BY <1>1
<1>3. PICK p \in Marker : p = pending[s]
  BY DEF CenterTypes, StoredTypes
<1>4. p.o \in Opps /\ p.rev \in Nat /\ p.base \in Nat /\ p.seq \in Nat
  <2>1. p.o = start.snap.assoc
    BY <1>2, <1>3 DEF StartResumes, Resumable, Belongs
  <2> QED
    BY <2>1, <1>1, <1>3 DEF Marker, Associated
<1> DEFINE R == Retried(ledger[s])
<1>5. SourceOK(ledger[s]) /\ Steady(R, ledger[s]) /\ SourceOK(R)
  <2>1. SourceOK(ledger[s])
    BY DEF CenterTypes, StoredTypes
  <2> QED
    BY <2>1, RetriedOK DEF Steady
<1>6. CanProcess(R) => Steady(Processing(R), ledger[s])
  <2> HIDE DEF R
  <2> QED
    BY <1>5, ProcessingOK, SteadyChain
<1>7. /\ Idle /\ start' = NoStart /\ counts' = counts /\ pending' = pending
      /\ UNCHANGED <<receipts, history, retired, actions, changes, work, todo>>
  BY DEF StartResumes
<1>8. \/ Launch(s, "resume", p.o, p.rev, p.base, p.seq)
      \/ jobs' = jobs
  BY <1>2, <1>3 DEF StartResumes
<1>9. jobs' \in [Sources -> JobRec] /\ \A t \in Sources : jobs'[t].phase # "none" => jobs'[t].o \in Opps
  BY <1>4, <1>8, Launched DEF CenterTypes, RunTypes
<1>10. \/ ledger' = ledger
       \/ \E q : Calm(q, ledger[s]) /\ ledger' = [ledger EXCEPT ![s] = q]
  <2>1. \/ ledger' = ledger
        \/ ledger' = [ledger EXCEPT ![s] = IF CanProcess(R) THEN Processing(R) ELSE R]
    BY <1>2 DEF StartResumes
  <2>2. Calm(IF CanProcess(R) THEN Processing(R) ELSE R, ledger[s])
    BY <1>5, <1>6, CalmSteady
  <2> HIDE DEF R
  <2> QED
    BY <2>1, <2>2
<1>11. counts \in Counts /\ pending \in [Sources -> Marker]
  BY DEF CenterTypes, RunTypes, StoredTypes, Counts
<1>12. CASE ledger' = ledger
  BY <1>12, <1>7, <1>9, <1>11, NoStartType, RunStep
<1>13. CASE \E q : Calm(q, ledger[s]) /\ ledger' = [ledger EXCEPT ![s] = q]
  <2>1. PICK q : Calm(q, ledger[s]) /\ ledger' = [ledger EXCEPT ![s] = q]
    BY <1>13
  <2> QED
    BY <2>1, <1>7, <1>9, <1>11, LedgerStep
<1> QED
  BY <1>10, <1>12, <1>13

LEMMA StartRunsStep ==
  ASSUME CenterTypes, StartRuns
  PROVE  CenterTypes' /\ Settled
<1>1. start \in Startup /\ start.s \in Sources /\ start.snap \in Record /\ SourceOK(start.snap) /\ Associated(start.snap)
  BY DEF StartRuns, CenterTypes, RunTypes, Startup
<1>2. PICK s \in Sources : s = start.s
  BY <1>1
<1>3. PICK r \in Record : r = start.snap /\ r.assoc \in Opps
  BY <1>1 DEF Associated
<1> DEFINE B == IF r.status = "processing" THEN Failed(ledger[s]) ELSE ledger[s]
           R == Retried(B)
           q == IF start.kind = "first" THEN r.seq ELSE 0
<1>4. SourceOK(ledger[s])
  BY DEF CenterTypes, StoredTypes
<1>5. Steady(Failed(ledger[s]), ledger[s]) /\ Steady(ledger[s], ledger[s])
  BY <1>4, FailedOK DEF Steady, SameEvidence
<1>6. Steady(B, ledger[s]) /\ SourceOK(B)
  BY <1>5 DEF Steady
<1> HIDE DEF B
<1>7. Steady(R, ledger[s]) /\ SourceOK(R)
  BY <1>6, RetriedOK, SteadyChain DEF Steady
<1> HIDE DEF R
<1>8. CanProcess(R) => Steady(Processing(R), ledger[s])
  BY <1>7, ProcessingOK, SteadyChain
<1>9. /\ Idle /\ start' = NoStart /\ counts' = counts /\ pending' = [pending EXCEPT ![s] = NoPending]
      /\ UNCHANGED <<receipts, history, retired, actions, changes, work, todo>>
  BY <1>2 DEF StartRuns
<1>10. \/ Launch(s, "ready", r.assoc, r.rev, start.base, q)
       \/ jobs' = jobs
  BY <1>2, <1>3 DEF StartRuns
<1>11. r.rev \in Nat /\ start.base \in Nat /\ q \in Nat
  BY <1>1, <1>3 DEF Record, Startup
<1> HIDE DEF q
<1>12. jobs' \in [Sources -> JobRec] /\ \A t \in Sources : jobs'[t].phase # "none" => jobs'[t].o \in Opps
  BY <1>3, <1>10, <1>11, Launched DEF CenterTypes, RunTypes
<1>13. \/ ledger' = ledger
       \/ ledger' = [ledger EXCEPT ![s] = Failed(ledger[s])]
       \/ ledger' = [ledger EXCEPT ![s] = IF CanProcess(R) THEN Processing(R) ELSE R]
  BY <1>2, <1>3 DEF StartRuns, R, B
<1>14. \/ ledger' = ledger
       \/ \E c : Calm(c, ledger[s]) /\ ledger' = [ledger EXCEPT ![s] = c]
  <2>1. Calm(IF CanProcess(R) THEN Processing(R) ELSE R, ledger[s]) /\ Calm(Failed(ledger[s]), ledger[s])
    BY <1>5, <1>7, <1>8, CalmSteady
  <2> QED
    BY <1>13, <2>1
<1>15. counts \in Counts /\ pending' \in [Sources -> Marker]
  BY <1>9, NoPendingType DEF CenterTypes, RunTypes, StoredTypes, Counts
<1>16. CASE ledger' = ledger
  BY <1>16, <1>9, <1>12, <1>15, NoStartType, RunStep
<1>17. CASE \E c : Calm(c, ledger[s]) /\ ledger' = [ledger EXCEPT ![s] = c]
  <2>1. PICK c : Calm(c, ledger[s]) /\ ledger' = [ledger EXCEPT ![s] = c]
    BY <1>17
  <2> QED
    BY <2>1, <1>9, <1>12, <1>15, LedgerStep
<1> QED
  BY <1>14, <1>16, <1>17

\* An operation takes the lock.
Taken(kind, s) ==
  /\ Idle /\ UNCHANGED <<stored, jobs, start>> /\ counts'.torn = counts.torn
  /\ work' = [kind |-> kind, s |-> s] /\ work'.kind = kind /\ work'.s = s
  /\ todo' \in Seq(Writes) /\ todo' # <<>>

LEMMA TakeStep ==
  ASSUME CenterTypes, Idle, UNCHANGED <<stored, jobs, start>>, counts' \in Counts, counts'.torn = counts.torn,
         NEW kind \in {"commit", "correct", "forget", "human", "repair"}, NEW s \in Ids, kind = "commit" => s \in Sources,
         NEW F \in Seq(Writes), Take(kind, s, F)
  PROVE  CenterTypes' /\ Taken(kind, s) /\ todo' = F
<1>1. PICK x : x = [kind |-> kind, s |-> s]
  OBVIOUS
<1>2. x \in Holder /\ x.kind = kind /\ x.s = s /\ x # NoWork
  BY <1>1 DEF Holder, NoWork
<1>3. work' = x /\ todo' = F /\ F # <<>>
  BY <1>1 DEF Take
<1>4. StoredTypes'
  BY DEF CenterTypes, StoredTypes, stored
<1>5. RunTypes'
  BY <1>2, <1>3 DEF CenterTypes, RunTypes, Counts
<1> QED
  BY <1>1, <1>2, <1>3, <1>4, <1>5 DEF CenterTypes, Taken

\* A part of the writes is a sequence of writes.
LEMMA WritesIn ==
  ASSUME NEW X, \A x \in X : x \in Writes, NEW F \in Seq(X)
  PROVE  F \in Seq(Writes)
  BY SeqOver

CorrectTaken(s, to) ==
  /\ Taken("correct", s) /\ Known(s)
  /\ Associated(ledger[s]) /\ to # ledger[s].assoc => CanCorrect(ledger[s].assoc, s)
  /\ CorrectionFor(todo', s, to)

LEMMA CorrectStep ==
  ASSUME NamesAssumption, CenterTypes, NEW s \in Sources, NEW to \in Opps \cup {Unassociated}, Correct(s, to)
  PROVE  CenterTypes' /\ CorrectTaken(s, to)
<1> DEFINE F == CorrectionWrites(s, to)
<1>1. CorrectionFor(F, s, to)
  BY CorrectDone DEF Correct, CenterTypes
<1>2. F \in Seq(Writes)
  <2>1. F \in Seq(Corrected(s, to))
    BY <1>1 DEF CorrectionFor
  <2>2. \A x \in Corrected(s, to) : x \in Writes
    BY DEF Corrected
  <2> HIDE DEF F
  <2> QED
    BY <2>1, <2>2, WritesIn
<1>3. counts' \in Counts /\ counts'.torn = counts.torn
  BY Counted DEF Correct, CenterTypes, RunTypes, Counts
<1>4. Idle /\ UNCHANGED <<stored, jobs, start>> /\ Take("correct", s, F) /\ Known(s)
      /\ (Associated(ledger[s]) /\ to # ledger[s].assoc => CanCorrect(ledger[s].assoc, s))
  BY DEF Correct
<1>5. s \in Ids
  BY DEF Ids
<1> HIDE DEF F
<1>6. CenterTypes' /\ Taken("correct", s) /\ todo' = F
  BY <1>2, <1>3, <1>4, <1>5, TakeStep
<1> QED
  BY <1>1, <1>4, <1>6 DEF CorrectTaken

ForgetTaken(s) == Taken("forget", s) /\ ForgettingOf(todo', s)

LEMMA ForgetStep ==
  ASSUME NamesAssumption, CenterTypes, NEW s \in Sources, Forget(s)
  PROVE  CenterTypes' /\ ForgetTaken(s)
<1> DEFINE F == ForgetWrites(s)
<1>1. ForgettingOf(F, s)
  BY ForgetDone DEF CenterTypes
<1>2. F \in Seq(Writes)
  <2>1. F \in Seq(Forgot(s))
    BY <1>1 DEF ForgettingOf
  <2>2. \A x \in Forgot(s) : x \in Writes
    BY DEF Forgot
  <2> HIDE DEF F
  <2> QED
    BY <2>1, <2>2, WritesIn
<1>3. counts' \in Counts /\ counts'.torn = counts.torn
  BY Counted DEF Forget, CenterTypes, RunTypes, Counts
<1>4. Idle /\ UNCHANGED <<stored, jobs, start>> /\ Take("forget", s, F)
  BY DEF Forget
<1>5. s \in Ids
  BY DEF Ids
<1> HIDE DEF F
<1>6. CenterTypes' /\ Taken("forget", s) /\ todo' = F
  BY <1>2, <1>3, <1>4, <1>5, TakeStep
<1> QED
  BY <1>1, <1>6 DEF ForgetTaken

\* A user's transition: the repair, the action, its change.
HumanTaken(o, s) ==
  /\ Taken("human", s) /\ HumanMay(o, s)
  /\ \E x, y \in Writes : /\ todo' = (RepairWrites(o, s) \o <<x>>) \o <<y>>
                          /\ MovedAction(o, s, x)
                          /\ Records(y, o, s, Len(actions[o][s].trans) + 1)

LEMMA HumanStep ==
  ASSUME CenterTypes, NEW o \in Opps, NEW s \in Sources, NEW to \in MoveTargets, NEW by \in {"user", "undo"},
         HumanMay(o, s), Take("human", s, HumanWrites(o, s, to, by)), Requested, UNCHANGED <<stored, jobs, start>>
  PROVE  CenterTypes' /\ HumanTaken(o, s)
<1>1. PICK x, y \in Writes : /\ HumanWrites(o, s, to, by) = (RepairWrites(o, s) \o <<x>>) \o <<y>>
                             /\ MovedAction(o, s, x)
                             /\ Records(y, o, s, Len(actions[o][s].trans) + 1)
  BY HumanDone DEF CenterTypes, HumanMay
<1> DEFINE R == RepairWrites(o, s)
           F == HumanWrites(o, s, to, by)
<1>2. R \in Seq(Repaired(o, s))
  BY RepairDone DEF CenterTypes
<1>3. R \in Seq(Writes)
  <2>1. \A z \in Repaired(o, s) : z \in Writes
    BY DEF Repaired
  <2> HIDE DEF R
  <2> QED
    BY <1>2, <2>1, WritesIn
<1> HIDE DEF R
<1>4. F = (R \o <<x>>) \o <<y>>
  BY <1>1 DEF R
<1>5. F \in Seq(Writes)
  <2>1. <<x>> \in Seq(Writes) /\ <<y>> \in Seq(Writes)
    BY <1>1, SeqOne
  <2>2. R \o <<x>> \in Seq(Writes)
    BY <2>1, <1>3, SeqJoin
  <2> HIDE DEF F
  <2> QED
    BY <2>1, <2>2, <1>4, SeqJoin
<1>6. counts' \in Counts /\ counts'.torn = counts.torn
  BY Counted DEF CenterTypes, RunTypes, Counts
<1>7. s \in Ids /\ Idle /\ Take("human", s, F)
  BY DEF Ids, HumanMay
<1> HIDE DEF F
<1>8. CenterTypes' /\ Taken("human", s) /\ todo' = F
  BY <1>5, <1>6, <1>7, TakeStep
<1> QED
  BY <1>1, <1>4, <1>8 DEF HumanTaken, R

LEMMA TransitionStep ==
  ASSUME CenterAssumption, CenterTypes, NEW o \in Opps, NEW s \in Sources, NEW to \in Targets, Transition(o, s, to)
  PROVE  CenterTypes' /\ HumanTaken(o, s)
<1>1. to \in MoveTargets
  BY DEF CenterAssumption, MoveTargets
<1> QED
  BY <1>1, HumanStep DEF Transition

LEMMA UndoStep ==
  ASSUME CenterTypes, NEW o \in Opps, NEW s \in Sources, Undo(o, s)
  PROVE  CenterTypes' /\ HumanTaken(o, s)
<1>1. PICK ts \in Trail : ts = actions[o][s].trans /\ ts \in Seq(Move) /\ Len(ts) \in Nat /\ Len(ts) > 1
  <2>1. PICK ts \in Trail : ts = actions[o][s].trans
    BY DEF CenterTypes, StoredTypes, Action
  <2>2. ts \in Seq(Move) /\ ts # <<>> /\ Last(ts).by = "user"
    BY <2>1 DEF Trail, Undo, HumanMay, Exists
  <2>3. Len(ts) \in Nat /\ Len(ts) > 0
    BY <2>2
  <2>4. ts[1].by = "analysis"
    BY <2>1, <2>3 DEF Trail
  <2>5. Len(ts) # 1
    BY <2>2, <2>4 DEF Last
  <2>6. PICK n \in Nat : n = Len(ts) /\ n > 0 /\ n # 1
    BY <2>3, <2>5, Zenon
  <2>7. n > 1
    BY <2>6
  <2> QED
    BY <2>1, <2>2, <2>3, <2>6, <2>7
<1>2. PICK to \in MoveTargets : to = ts[Len(ts) - 1].to
  <2>1. PICK n \in Nat : n = Len(ts) /\ n > 1
    BY <1>1, Zenon
  <2>2. n - 1 \in 1 .. n
    BY <2>1
  <2>3. ts \in Seq(Move)
    BY <1>1
  <2>4. ts[n - 1] \in Move
    BY <2>1, <2>2, <2>3
  <2> QED
    BY <2>1, <2>4 DEF Move
<1>3. Take("human", s, HumanWrites(o, s, to, "undo"))
  BY <1>1, <1>2 DEF Undo
<1> QED
  BY <1>3, HumanStep DEF Undo

ListTaken(o) == Taken("repair", None) /\ todo' \in Seq(AllRepaired(o)) /\ Once(todo')

LEMMA ListStep ==
  ASSUME NamesAssumption, CenterTypes, NEW o \in Opps, ListChanges(o)
  PROVE  CenterTypes' /\ ListTaken(o)
<1> DEFINE F == ForEach(Sources, LAMBDA s : RepairWrites(o, s))
<1>1. F \in Seq(AllRepaired(o)) /\ Once(F)
  BY ListDone DEF NamesAssumption, CenterTypes
<1>2. Idle /\ UNCHANGED <<stored, jobs, start>> /\ counts' = counts /\ Take("repair", None, F)
  BY Zenon DEF ListChanges
<1> HIDE DEF F
<1>3. F \in Seq(Writes)
  <2>1. \A x \in AllRepaired(o) : x \in Writes
    BY DEF AllRepaired
  <2> QED
    BY <1>1, <2>1, WritesIn
<1>4. None \in Ids /\ counts \in Counts
  BY DEF Ids, CenterTypes, RunTypes, Counts
<1>5. CenterTypes' /\ Taken("repair", None) /\ todo' = F
  BY <1>2, <1>3, <1>4, TakeStep
<1> QED
  BY <1>1, <1>5 DEF ListTaken

\* The commit of a run, and the resumption of what one promoted.
CommitTaken(s) ==
  LET j == jobs[s] IN
  /\ Taken("commit", s) /\ receipts[s] = "none" /\ SourceUnchanged(j, ledger[s]) /\ ledger[s].rev > 0
  /\ j.o \in Opps /\ retired[j.o] = None
  /\ \E C \in Seq(Finished(j.o, s)) :
       \/ /\ j.phase = "commit" /\ CanPromote(j) /\ Completing(C, j.o, s, j.rev, j.obs)
          /\ \E m, x \in Writes : /\ m.w = "pending" /\ m.s = s
                                  /\ m.val.o = j.o /\ m.val.rev = j.rev /\ m.val.base = j.base
                                  /\ x.w = "version" /\ x.o = j.o /\ x.val = NewVersion(s, j)
                                  /\ todo' = (<<m>> \o <<x>>) \o C
       \/ /\ j.phase = "resume" /\ Inspect(j.o) = "current" /\ <<s, j.rev>> \in Last(history[j.o]).cites
          /\ Len(history[j.o]) = j.base + 1 /\ Completing(C, j.o, s, j.rev, Last(history[j.o]).obs)
          /\ todo' = C

\* A source that a run finds unchanged was imported, and belongs to the job's opportunity.
LEMMA UnchangedSource ==
  ASSUME NamesAssumption, CenterTypes, NEW s \in Sources, jobs[s].phase # "none", SourceUnchanged(jobs[s], ledger[s])
  PROVE  /\ jobs[s] \in JobRec /\ jobs[s].o \in Opps /\ jobs[s].rev = ledger[s].rev /\ ledger[s].assoc = jobs[s].o
         /\ ledger[s].rev \in Nat /\ ledger[s].rev > 0 /\ Associated(ledger[s]) /\ Latest(ledger[s]) = "content"
<1>1. jobs[s] \in JobRec /\ jobs[s].o \in Opps /\ SourceOK(ledger[s]) /\ ledger[s] \in Record
  BY DEF CenterTypes, RunTypes, StoredTypes
<1>2. ledger[s].rev \in Nat /\ ledger[s].assoc = jobs[s].o /\ jobs[s].rev = ledger[s].rev /\ Latest(ledger[s]) = "content"
  BY <1>1 DEF Record, SourceUnchanged
<1>3. Unassociated \notin Opps
  BY DEF NamesAssumption
<1>4. ledger[s].rev # 0
  BY <1>1, <1>2, <1>3 DEF SourceOK
<1> QED
  BY <1>1, <1>2, <1>4 DEF Associated

LEMMA NewVersionType ==
  ASSUME CenterTypes, NEW s \in Sources, jobs[s].o \in Opps, CanPromote(jobs[s])
  PROVE  /\ NewVersion(s, jobs[s]) \in Version
         /\ NewVersion(s, jobs[s]).by = <<s, jobs[s].rev>> /\ NewVersion(s, jobs[s]).rt = "model"
         /\ history[jobs[s].o] = <<>> =>
              /\ NewVersion(s, jobs[s]).cites = {<<s, jobs[s].rev>>}
              /\ NewVersion(s, jobs[s]).from = {s}
         /\ history[jobs[s].o] # <<>> =>
              /\ NewVersion(s, jobs[s]).cites = Last(history[jobs[s].o]).cites \cup {<<s, jobs[s].rev>>}
              /\ NewVersion(s, jobs[s]).from = Last(history[jobs[s].o]).from \cup {s}
<1>1. PICK j \in JobRec : j = jobs[s] /\ j.o \in Opps /\ j.rev \in Nat /\ j.base \in Nat /\ j.obs \in Sayings
  BY DEF CenterTypes, RunTypes, JobRec
<1>2. PICK H \in Seq(Version) : H = history[j.o]
  BY <1>1 DEF CenterTypes, StoredTypes
<1>3. Len(H) = j.base /\ (H = <<>> <=> j.base = 0)
  BY <1>1, <1>2 DEF CanPromote
<1>4. H # <<>> => Last(H) \in Version
  <2> HAVE H # <<>>
  <2>1. Len(H) \in 1 .. Len(H)
    OBVIOUS
  <2> QED
    BY <2>1 DEF Last
<1> DEFINE base == IF j.base = 0 THEN [cites |-> {}, from |-> {}] ELSE Last(H)
<1>5. base.cites \in SUBSET (Ids \X Nat) /\ base.from \in SUBSET Sources
  BY <1>3, <1>4 DEF Version
<1>6. /\ H = <<>> => base.cites = {} /\ base.from = {}
      /\ H # <<>> => base.cites = Last(H).cites /\ base.from = Last(H).from
  BY <1>3
<1> HIDE DEF base
<1>7. PICK v : v = [cites |-> base.cites \cup {<<s, j.rev>>}, by |-> <<s, j.rev>>, rt |-> "model",
                    from |-> base.from \cup {s}, obs |-> j.obs]
  OBVIOUS
<1>8. v = NewVersion(s, j)
  BY <1>1, <1>2, <1>7 DEF NewVersion, base
<1>9. <<s, j.rev>> \in Ids \X Nat
  BY <1>1 DEF Ids
<1>10. /\ v \in Version /\ v.by = <<s, j.rev>> /\ v.rt = "model" /\ v.cites = base.cites \cup {<<s, j.rev>>}
       /\ v.from = base.from \cup {s}
  BY <1>1, <1>5, <1>7, <1>9 DEF Version
<1> QED
  BY <1>1, <1>2, <1>6, <1>8, <1>10

LEMMA CommitStep ==
  ASSUME NamesAssumption, CenterTypes, NEW s \in Sources, Commit(s)
  PROVE  CenterTypes' /\ (Settled \/ CommitTaken(s))
<1>1. PICK j \in JobRec : j = jobs[s] /\ j.phase = "commit" /\ j.o \in Opps /\ j.base \in Nat /\ j.obs \in Sayings
  BY DEF Commit, CenterTypes, RunTypes, JobRec
<1>0. counts' = counts /\ counts \in Counts /\ Idle
  BY DEF Commit, CenterTypes, RunTypes, Counts
<1>2. CASE ~ (receipts[s] = "none" /\ SourceUnchanged(j, ledger[s]) /\ CanPromote(j))
  BY <1>0, <1>1, <1>2, FailStep DEF Commit
<1>3. CASE receipts[s] = "none" /\ SourceUnchanged(j, ledger[s]) /\ CanPromote(j)
  <2> DEFINE A == WritePending(s, [o |-> j.o, rev |-> j.rev, base |-> j.base, seq |-> j.seq])
             B == WriteVersion(j.o, NewVersion(s, j))
             C == CompleteWrites(j.o, s, j.rev, j.base + 1, j.obs)
             F == (A \o B) \o C
  <2>1. Take("commit", s, F) /\ UNCHANGED <<stored, jobs, start>>
    BY <1>1, <1>3 DEF Commit, stored
  <2>2. /\ j.rev = ledger[s].rev /\ ledger[s].rev \in Nat /\ ledger[s].rev > 0 /\ Associated(ledger[s])
        /\ Latest(ledger[s]) = "content"
    BY <1>1, <1>3, UnchangedSource
  <2>3. C \in Seq(Finished(j.o, s)) /\ Completing(C, j.o, s, j.rev, j.obs)
    <3>1. PICK n \in Nat : n = j.base + 1
      BY <1>1
    <3>2. IsFiniteSet(Sources) /\ StoredTypes
      BY DEF NamesAssumption, CenterTypes
    <3>3. /\ CompleteWrites(j.o, s, ledger[s].rev, n, j.obs) \in Seq(Finished(j.o, s))
          /\ Completing(CompleteWrites(j.o, s, ledger[s].rev, n, j.obs), j.o, s, ledger[s].rev, j.obs)
      BY <1>1, <2>2, <3>1, <3>2, CompleteDone
    <3> QED
      BY <2>2, <3>1, <3>3
  <2>4. C \in Seq(Writes)
    <3>1. \A z \in Finished(j.o, s) : z \in Writes
      BY DEF Finished
    <3> HIDE DEF C
    <3> QED
      BY <2>3, <3>1, WritesIn
  <2>5. PICK m \in Writes : A = <<m>> /\ m.w = "pending" /\ m.s = s
                            /\ m.val.o = j.o /\ m.val.rev = j.rev /\ m.val.base = j.base
    <3>1. PICK q : q = [o |-> j.o, rev |-> j.rev, base |-> j.base, seq |-> j.seq]
      OBVIOUS
    <3>2. q \in Marker /\ q.o = j.o /\ q.rev = j.rev /\ q.base = j.base
      BY <1>1, <3>1 DEF Marker, JobRec
    <3>3. PICK m : m = [w |-> "pending", s |-> s, val |-> q]
      OBVIOUS
    <3>4. m \in Writes /\ m.w = "pending" /\ m.s = s /\ m.val = q
      BY <3>2, <3>3 DEF Writes
    <3>5. A = <<m>>
      BY <3>1, <3>3 DEF WritePending
    <3> QED
      BY <3>2, <3>4, <3>5
  <2>6. PICK x \in Writes : B = <<x>> /\ x.w = "version" /\ x.o = j.o /\ x.val = NewVersion(s, j)
    <3>1. NewVersion(s, j) \in Version
      BY <1>1, <1>3, NewVersionType
    <3>2. PICK v \in Version : v = NewVersion(s, j)
      BY <3>1
    <3>3. PICK x : x = [w |-> "version", o |-> j.o, val |-> v]
      OBVIOUS
    <3>4. x \in Writes /\ x.w = "version" /\ x.o = j.o /\ x.val = v
      BY <1>1, <3>2, <3>3 DEF Writes
    <3>5. B = <<x>>
      BY <3>2, <3>3 DEF WriteVersion
    <3> QED
      BY <3>2, <3>4, <3>5
  <2> HIDE DEF A, B, C
  <2>7. F = (<<m>> \o <<x>>) \o C
    BY <2>5, <2>6
  <2>8. F \in Seq(Writes)
    <3>1. <<m>> \in Seq(Writes) /\ <<x>> \in Seq(Writes)
      BY <2>5, <2>6, SeqOne
    <3>2. <<m>> \o <<x>> \in Seq(Writes)
      BY <3>1, SeqJoin
    <3> HIDE DEF F
    <3> QED
      BY <3>2, <2>4, <2>7, SeqJoin
  <2>9. s \in Ids
    BY DEF Ids
  <2> HIDE DEF F
  <2>10. CenterTypes' /\ Taken("commit", s) /\ todo' = F
    BY <1>0, <2>1, <2>8, <2>9, TakeStep
  <2>11. retired[j.o] = None
    BY <1>3 DEF CanPromote
  <2>12. CommitTaken(s)
    BY <1>1, <1>3, <2>2, <2>3, <2>5, <2>6, <2>7, <2>10, <2>11 DEF CommitTaken
  <2> QED
    BY <2>10, <2>12
<1> QED
  BY <1>2, <1>3

LEMMA ResumeStep ==
  ASSUME NamesAssumption, CenterTypes, NEW s \in Sources, Resume(s)
  PROVE  CenterTypes' /\ (Settled \/ CommitTaken(s))
<1>1. PICK j \in JobRec : j = jobs[s] /\ j.phase = "resume" /\ j.o \in Opps /\ j.base \in Nat
  BY DEF Resume, CenterTypes, RunTypes, JobRec
<1>0. counts' = counts /\ counts \in Counts /\ Idle
  BY DEF Resume, CenterTypes, RunTypes, Counts
<1> DEFINE p == [NoPending EXCEPT !.o = j.o, !.rev = j.rev, !.base = j.base]
           ok == receipts[s] = "none" /\ SourceUnchanged(j, ledger[s]) /\ Inspect(j.o) = "current" /\ PromotedFor(s, p)
<1>2. CASE ~ok
  <2>1. /\ jobs' = [jobs EXCEPT ![s] = NoJob] /\ pending' \in {pending, [pending EXCEPT ![s] = NoPending]}
        /\ UNCHANGED <<ledger, receipts, history, retired, actions, changes, work, todo, start>>
    BY <1>1, <1>2 DEF Resume
  <2>2. pending' \in [Sources -> Marker]
    BY <2>1, NoPendingType DEF CenterTypes, StoredTypes
  <2>3. jobs' \in [Sources -> JobRec] /\ \A t \in Sources : jobs'[t].phase # "none" => jobs'[t].o \in Opps
    BY <2>1, JobEnds
  <2> QED
    BY <1>0, <2>1, <2>2, <2>3, RunStep DEF CenterTypes, RunTypes
<1>3. CASE ok
  <2> DEFINE C == CompleteWrites(j.o, s, j.rev, j.base + 1, Last(history[j.o]).obs)
  <2>1. Take("commit", s, C) /\ UNCHANGED <<stored, jobs, start>>
    BY <1>1, <1>3 DEF Resume, stored
  <2>2. /\ j.rev = ledger[s].rev /\ ledger[s].rev \in Nat /\ ledger[s].rev > 0 /\ Associated(ledger[s])
        /\ Latest(ledger[s]) = "content"
    BY <1>1, <1>3, UnchangedSource
  <2>3. retired[j.o] = None /\ history[j.o] # <<>> /\ Inspect(j.o) = "current" /\ receipts[s] = "none"
        /\ SourceUnchanged(j, ledger[s])
    BY <1>3 DEF Inspect
  <2>4. <<s, j.rev>> \in Last(history[j.o]).cites /\ Len(history[j.o]) = j.base + 1
    <3>1. p.o = j.o /\ p.rev = j.rev /\ p.base = j.base
      BY DEF NoPending
    <3> HIDE DEF p
    <3> QED
      BY <1>3, <3>1 DEF PromotedFor
  <2>5. Last(history[j.o]).obs \in Sayings
    <3>1. PICK H \in Seq(Version) : H = history[j.o] /\ H # <<>>
      BY <1>1, <2>3 DEF CenterTypes, StoredTypes
    <3>2. Len(H) \in 1 .. Len(H)
      BY <3>1
    <3>3. Last(H) \in Version
      BY <3>1, <3>2 DEF Last
    <3> QED
      BY <3>1, <3>3 DEF Version
  <2>6. C \in Seq(Finished(j.o, s)) /\ Completing(C, j.o, s, j.rev, Last(history[j.o]).obs)
    <3>1. PICK n \in Nat : n = j.base + 1
      BY <1>1
    <3>2. IsFiniteSet(Sources) /\ StoredTypes
      BY DEF NamesAssumption, CenterTypes
    <3>3. PICK obs \in Sayings : obs = Last(history[j.o]).obs
      BY <2>5
    <3>4. /\ CompleteWrites(j.o, s, ledger[s].rev, n, obs) \in Seq(Finished(j.o, s))
          /\ Completing(CompleteWrites(j.o, s, ledger[s].rev, n, obs), j.o, s, ledger[s].rev, obs)
      BY <1>1, <2>2, <3>1, <3>2, CompleteDone
    <3> QED
      BY <2>2, <3>1, <3>3, <3>4
  <2>7. C \in Seq(Writes)
    <3>1. \A z \in Finished(j.o, s) : z \in Writes
      BY DEF Finished
    <3> HIDE DEF C
    <3> QED
      BY <2>6, <3>1, WritesIn
  <2>8. s \in Ids
    BY DEF Ids
  <2> HIDE DEF C, ok
  <2>9. CenterTypes' /\ Taken("commit", s) /\ todo' = C
    BY <1>0, <2>1, <2>7, <2>8, TakeStep
  <2>10. CommitTaken(s)
    BY <1>1, <2>2, <2>3, <2>4, <2>6, <2>9 DEF CommitTaken
  <2> QED
    BY <2>9, <2>10
<1> QED
  BY <1>2, <1>3

\* A version from saved transcripts.
Saved(o) ==
  /\ Idle /\ counts'.torn = counts.torn
  /\ UNCHANGED <<ledger, receipts, retired, actions, changes, jobs, work, todo>>
  /\ history' = [history EXCEPT ![o] = Append(@, SavedVersion(@))]

LEMMA SavedType ==
  ASSUME NEW H \in Seq(Version)
  PROVE  /\ SavedVersion(H) \in Version
         /\ SavedVersion(H).by = <<None, 0>> /\ SavedVersion(H).rt = "model"
         /\ H = <<>> => SavedVersion(H).cites = {<<None, Len(H) + 1>>} /\ SavedVersion(H).from = {}
         /\ H # <<>> => SavedVersion(H).cites = Last(H).cites \cup {<<None, Len(H) + 1>>}
                        /\ SavedVersion(H).from = Last(H).from
<1>1. H # <<>> => Last(H) \in Version
  <2> HAVE H # <<>>
  <2>1. Len(H) \in 1 .. Len(H)
    OBVIOUS
  <2> QED
    BY <2>1 DEF Last
<1>2. PICK n \in Nat : n = Len(H) + 1
  OBVIOUS
<1>3. <<None, n>> \in Ids \X Nat /\ <<None, 0>> \in Ids \X Nat /\ "nothing" \in Sayings
  BY DEF Ids, Sayings
<1>4. PICK cs \in SUBSET (Ids \X Nat) : cs = (IF H = <<>> THEN {} ELSE Last(H).cites)
  BY <1>1 DEF Version
<1>5. PICK fs \in SUBSET Sources : fs = (IF H = <<>> THEN {} ELSE Last(H).from)
  BY <1>1 DEF Version
<1>6. PICK v : v = [cites |-> cs \cup {<<None, n>>}, from |-> fs, by |-> <<None, 0>>, rt |-> "model", obs |-> "nothing"]
  OBVIOUS
<1>7. /\ v \in Version /\ v.by = <<None, 0>> /\ v.rt = "model" /\ v.cites = cs \cup {<<None, n>>} /\ v.from = fs
  BY <1>3, <1>4, <1>5, <1>6 DEF Version
<1>8. SavedVersion(H) = v
  BY <1>2, <1>4, <1>5, <1>6 DEF SavedVersion
<1> QED
  BY <1>2, <1>4, <1>5, <1>7, <1>8

LEMMA OtherStep ==
  ASSUME CenterTypes, NEW o \in Opps, OtherVersion(o)
  PROVE  CenterTypes' /\ Saved(o)
<1>1. counts' \in Counts /\ counts'.torn = counts.torn
  BY Counted DEF OtherVersion, CenterTypes, RunTypes, Counts
<1>2. history[o] \in Seq(Version) /\ history \in [Opps -> Seq(Version)]
  BY DEF CenterTypes, StoredTypes
<1>3. PICK v \in Version : v = SavedVersion(history[o])
  BY <1>2, SavedType
<1>4. Append(history[o], v) \in Seq(Version)
  BY <1>2
<1>5. history' = [history EXCEPT ![o] = Append(history[o], v)]
  BY <1>3 DEF OtherVersion
<1>6. history' \in [Opps -> Seq(Version)]
  BY <1>2, <1>4, <1>5
<1>7. StoredTypes'
  BY <1>6 DEF CenterTypes, StoredTypes, OtherVersion
<1>8. RunTypes'
  BY <1>1 DEF CenterTypes, RunTypes, OtherVersion, Counts
<1> QED
  BY <1>1, <1>7, <1>8 DEF CenterTypes, Saved, OtherVersion

\* The next write of an operation.
Written ==
  /\ todo # <<>> /\ Head(todo) \in Writes /\ Put(Head(todo)) /\ todo' = Tail(todo)
  /\ todo' = <<>> => work' = NoWork
  /\ todo' # <<>> => work' = work /\ jobs' = jobs
  /\ counts' = counts

\* What is left of the writes after the first.
LEMMA Popped ==
  ASSUME NEW X, NEW F \in Seq(X), F # <<>>
  PROVE  /\ Len(F) \in Nat /\ 1 \in 1 .. Len(F) /\ Head(F) = F[1] /\ Head(F) \in X /\ Tail(F) \in Seq(X)
         /\ Len(F) = 1 <=> Tail(F) = <<>>
         /\ Len(Tail(F)) = Len(F) - 1
         /\ \A p \in 1 .. Len(Tail(F)) : p + 1 \in 1 .. Len(F) /\ Tail(F)[p] = F[p + 1]
         /\ \A p \in 1 .. Len(F) : p = 1 \/ (p - 1 \in 1 .. Len(Tail(F)) /\ Tail(F)[p - 1] = F[p])
<1>1. Len(F) \in Nat /\ Len(F) > 0 /\ Tail(F) \in Seq(X) /\ Len(Tail(F)) = Len(F) - 1
  OBVIOUS
<1>2. Head(F) = F[1] /\ F[1] \in X /\ 1 \in 1 .. Len(F)
  BY <1>1
<1>3. \A p \in 1 .. Len(Tail(F)) : p + 1 \in 1 .. Len(F) /\ Tail(F)[p] = F[p + 1]
  BY <1>1
<1>4. \A p \in 1 .. Len(F) : p = 1 \/ (p - 1 \in 1 .. Len(Tail(F)) /\ Tail(F)[p - 1] = F[p])
  BY <1>1
<1>5. Len(F) = 1 <=> Tail(F) = <<>>
  <2>1. PICK G \in Seq(X) : G = Tail(F) /\ Len(G) = Len(F) - 1
    BY <1>1
  <2>2. Len(G) = 0 <=> G = <<>>
    OBVIOUS
  <2>3. Len(F) = 1 <=> Len(G) = 0
    BY <2>1, <1>1
  <2> QED
    BY <2>1, <2>2, <2>3
<1> QED
  BY <1>1, <1>2, <1>3, <1>4, <1>5

LEMMA PutTypes ==
  ASSUME StoredTypes, NEW x \in Writes, Put(x)
  PROVE  StoredTypes'
<1>1. /\ x.w = "action"  => x.o \in Opps /\ x.s \in Sources /\ x.val \in Action
      /\ x.w = "change"  => x.o \in Opps /\ x.val \in Change
      /\ x.w = "source"  => x.s \in Sources /\ x.val \in Record /\ SourceOK(x.val)
      /\ x.w = "pending" => x.s \in Sources /\ x.val \in Marker
      /\ x.w = "version" => x.o \in Opps /\ x.val \in Version
      /\ x.w = "retired" => x.o \in Opps /\ x.val \in Sources
      /\ x.w = "receipt" => x.s \in Sources /\ x.val \in {"pending", "complete"}
  BY WriteTypes
<1>2. ledger' \in [Sources -> Record] /\ \A s \in Sources : SourceOK(ledger'[s])
  BY <1>1 DEF StoredTypes, Put
<1>3. receipts' \in [Sources -> {"none", "pending", "complete"}]
  BY <1>1 DEF StoredTypes, Put
<1>4. history' \in [Opps -> Seq(Version)]
  <2>1. CASE x.w = "version"
    <3>1. history[x.o] \in Seq(Version) /\ x.val \in Version /\ x.o \in Opps /\ history \in [Opps -> Seq(Version)]
      BY <1>1, <2>1 DEF StoredTypes
    <3>2. Append(history[x.o], x.val) \in Seq(Version)
      BY <3>1
    <3>3. history' = [history EXCEPT ![x.o] = Append(history[x.o], x.val)]
      BY <2>1 DEF Put
    <3> QED
      BY <3>1, <3>2, <3>3
  <2>2. CASE x.w # "version"
    BY <2>2 DEF StoredTypes, Put
  <2> QED
    BY <2>1, <2>2
<1>5. retired' \in [Opps -> Ids]
  BY <1>1 DEF StoredTypes, Put, Ids
<1>6. actions' \in [Opps -> [Sources -> Action]]
  BY <1>1 DEF StoredTypes, Put
<1>7. changes' \in [Opps -> Seq(Change)]
  <2>1. CASE x.w = "change"
    <3>1. changes[x.o] \in Seq(Change) /\ x.val \in Change /\ x.o \in Opps /\ changes \in [Opps -> Seq(Change)]
      BY <1>1, <2>1 DEF StoredTypes
    <3>2. Append(changes[x.o], x.val) \in Seq(Change)
      BY <3>1
    <3>3. changes' = [changes EXCEPT ![x.o] = Append(changes[x.o], x.val)]
      BY <2>1 DEF Put
    <3> QED
      BY <3>1, <3>2, <3>3
  <2>2. CASE x.w # "change"
    BY <2>2 DEF StoredTypes, Put
  <2> QED
    BY <2>1, <2>2
<1>8. pending' \in [Sources -> Marker]
  BY <1>1 DEF StoredTypes, Put
<1> QED
  BY <1>2, <1>3, <1>4, <1>5, <1>6, <1>7, <1>8 DEF StoredTypes

LEMMA NoWorkType == NoWork \in Holder /\ NoWork.kind = "none"
  BY DEF NoWork, Holder, Ids

\* The lock is released.
LEMMA Released ==
  ASSUME CenterTypes, Release, start' = start, counts' \in Counts
  PROVE  RunTypes' /\ work' = NoWork /\ todo' = <<>>
<1>1. jobs' \in [Sources -> JobRec] /\ \A t \in Sources : jobs'[t].phase # "none" => jobs'[t].o \in Opps
  <2>1. CASE work.kind = "commit"
    <3>1. work.s \in Sources /\ jobs' = [jobs EXCEPT ![work.s] = NoJob]
      BY <2>1 DEF Release, CenterTypes, RunTypes
    <3> QED
      BY <3>1, JobEnds
  <2>2. CASE work.kind # "commit"
    BY <2>2 DEF Release, CenterTypes, RunTypes
  <2> QED
    BY <2>1, <2>2
<1>2. work' = NoWork /\ todo' = <<>>
  BY DEF Release
<1>3. work' \in Holder /\ todo' \in Seq(Writes) /\ work'.kind = "none"
  BY <1>2, NoWorkType, SeqNone
<1>4. start' \in Startup /\ SourceOK(start'.snap) /\ (start' # NoStart => start'.s \in Sources /\ Associated(start'.snap))
  BY DEF CenterTypes, RunTypes
<1> QED
  BY <1>1, <1>2, <1>3, <1>4 DEF RunTypes, Counts

LEMMA WriteStep ==
  ASSUME CenterTypes, Write
  PROVE  CenterTypes' /\ Written
<1>1. todo \in Seq(Writes) /\ todo # <<>>
  BY DEF Write, CenterTypes, RunTypes
<1>2. Head(todo) \in Writes /\ Tail(todo) \in Seq(Writes) /\ (Len(todo) = 1 <=> Tail(todo) = <<>>)
  BY <1>1, Popped
<1>3. StoredTypes'
  BY <1>2, PutTypes DEF Write, CenterTypes
<1>4. CASE Len(todo) = 1
  <2>1. Release /\ start' = start /\ counts' = counts /\ counts \in Counts
    BY <1>4 DEF Write, CenterTypes, RunTypes, Counts
  <2>2. RunTypes' /\ work' = NoWork /\ todo' = <<>>
    BY <2>1, Released
  <2> QED
    BY <1>1, <1>2, <1>3, <1>4, <2>1, <2>2 DEF CenterTypes, Written, Write
<1>5. CASE Len(todo) # 1
  <2>1. todo' = Tail(todo) /\ work' = work /\ jobs' = jobs /\ start' = start /\ counts' = counts
    BY <1>5 DEF Write
  <2>2. todo' # <<>> /\ work # NoWork
    BY <2>1, <1>1, <1>2, <1>5 DEF CenterTypes, RunTypes
  <2>3. RunTypes'
    BY <2>1, <2>2, <1>2 DEF CenterTypes, RunTypes
  <2> QED
    BY <1>1, <1>2, <1>3, <2>1, <2>2, <2>3 DEF CenterTypes, Written, Write
<1> QED
  BY <1>4, <1>5

\* An operation is cut off, or nothing was under way.
Stopped ==
  /\ UNCHANGED <<ledger, receipts, history, retired, actions, changes>>
  /\ todo' = <<>> /\ work' = NoWork
  /\ counts'.torn = (counts.torn \/ work.kind = "correct")

LEMMA WriteFailsStep ==
  ASSUME CenterTypes, WriteFails
  PROVE  CenterTypes' /\ Stopped
<1>1. counts' \in Counts /\ counts'.torn = (counts.torn \/ work.kind = "correct")
  BY Counted DEF WriteFails, CenterTypes, RunTypes, Counts
<1>2. RunTypes' /\ work' = NoWork /\ todo' = <<>>
  BY <1>1, Released DEF WriteFails
<1>3. pending' \in [Sources -> Marker]
  <2>1. pending' = pending \/ (work.s \in Sources /\ pending' = [pending EXCEPT ![work.s] = NoPending])
    BY DEF WriteFails, CenterTypes, RunTypes
  <2> QED
    BY <2>1, NoPendingType DEF CenterTypes, StoredTypes
<1>4. StoredTypes'
  BY <1>3 DEF WriteFails, CenterTypes, StoredTypes
<1> QED
  BY <1>1, <1>2, <1>4 DEF CenterTypes, Stopped, WriteFails

LEMMA CrashStep ==
  ASSUME CenterTypes, Crash
  PROVE  CenterTypes' /\ Stopped
<1>1. counts' \in Counts /\ counts'.torn = (counts.torn \/ work.kind = "correct")
  BY Counted DEF Crash, CenterTypes, RunTypes, Counts
<1>2. jobs' \in [Sources -> JobRec] /\ \A t \in Sources : jobs'[t].phase # "none" => jobs'[t].o \in Opps
  BY NoJobType DEF Crash
<1>3. start' \in Startup /\ SourceOK(start'.snap) /\ start' = NoStart
  BY NoStartType DEF Crash
<1>4. work' \in Holder /\ todo' \in Seq(Writes) /\ work'.kind = "none" /\ work' = NoWork /\ todo' = <<>>
  BY NoWorkType, SeqNone DEF Crash
<1>5. RunTypes'
  BY <1>1, <1>2, <1>3, <1>4 DEF RunTypes, Counts
<1>6. StoredTypes'
  BY DEF Crash, CenterTypes, StoredTypes, stored
<1> QED
  BY <1>1, <1>4, <1>5, <1>6 DEF CenterTypes, Stopped, Crash, stored

LEMMA InitTypes ==
  ASSUME NamesAssumption, CenterAssumption, Init
  PROVE  CenterTypes /\ Idle
<1>1. PICK a \in Availability : a = "content"
  BY DEF Availability
<1>2. PICK r : r = FirstRevision(a) /\ SourceOK(r) /\ r.rev = 1 /\ r.assoc = Unassociated
  BY FirstRevisionOK
<1>3. Home \in Opps /\ Home \in Places /\ Unassociated \notin Opps
  BY DEF CenterAssumption, NamesAssumption, Places
<1>4. r \in Record /\ r.status \in Waiting /\ r.done < r.rev /\ r.rev > 0
  BY <1>2, <1>3, Unassociating DEF Associated
<1>5. SourceOK(Decided(r, Home)) /\ Decided(r, Home) \in Record
  BY <1>3, <1>4, DecidedWaiting, DecidedRecord
<1>6. ledger = [s \in Sources |-> Decided(r, Home)]
  BY <1>1, <1>2 DEF Init
<1>7. ledger \in [Sources -> Record] /\ \A s \in Sources : SourceOK(ledger[s])
  BY <1>5, <1>6
<1>8. history \in [Opps -> Seq(Version)]
  <2>1. <<>> \in Seq(Version)
    BY SeqNone
  <2>2. PICK v \in Version : v = SavedVersion(<<>>)
    BY <2>1, SavedType
  <2>3. <<v>> \in Seq(Version)
    BY SeqOne
  <2>4. PICK h \in {<<>>, <<v>>} : history = [o \in Opps |-> IF o = Home THEN h ELSE <<>>]
    BY <2>2 DEF Init
  <2> QED
    BY <2>1, <2>3, <2>4
<1>9. None \in Ids
  BY DEF Ids
<1>10. <<>> \in Seq(Change)
  BY SeqNone
<1>11. StoredTypes
  BY <1>7, <1>8, <1>9, <1>10, NoActionType, NoPendingType DEF Init, StoredTypes
<1>12. /\ jobs = [s \in Sources |-> NoJob] /\ start = NoStart /\ work = NoWork /\ todo = <<>>
       /\ counts \in Counts
  BY DEF Init, Counts
<1>13. <<>> \in Seq(Writes)
  BY SeqNone
<1>14. /\ jobs \in [Sources -> JobRec] /\ \A s \in Sources : jobs[s].phase # "none" => jobs[s].o \in Opps
  BY <1>12, NoJobType
<1>15. RunTypes
  BY <1>12, <1>13, <1>14, NoStartType, NoWorkType DEF RunTypes, Counts
<1> QED
  BY <1>11, <1>12, <1>15 DEF CenterTypes, Idle

\* Every step is of one of these kinds.
Kinds ==
  \/ Settled
  \/ \E o \in Opps : Saved(o) \/ ListTaken(o) \/ \E s \in Sources : HumanTaken(o, s)
  \/ \E s \in Sources : CommitTaken(s) \/ ForgetTaken(s) \/ \E to \in Opps \cup {Unassociated} : CorrectTaken(s, to)
  \/ Written \/ Stopped

LEMMA NextKinds ==
  ASSUME NamesAssumption, CenterAssumption, CenterTypes, Next
  PROVE  CenterTypes' /\ Kinds
<1>1. ASSUME NEW s \in Sources, User(s) PROVE CenterTypes' /\ Kinds
  <2>1. ASSUME NEW a \in Imports, Import(s, a) PROVE CenterTypes' /\ Kinds
    BY <2>1, ImportStep DEF Kinds
  <2>2. CASE Propose(s)
    BY <2>2, ProposeStep DEF Kinds
  <2>3. CASE Retry(s)
    BY <2>3, RetryStep DEF Kinds
  <2>4. ASSUME NEW to \in Opps \cup {Unassociated}, Correct(s, to) PROVE CenterTypes' /\ Kinds
    <3>1. CenterTypes' /\ CorrectTaken(s, to)
      BY <2>4, CorrectStep
    <3> QED
      BY <3>1 DEF Kinds
  <2>5. CASE Forget(s)
    BY <2>5, ForgetStep DEF Kinds
  <2>6. ASSUME NEW o \in Opps, Undo(o, s) PROVE CenterTypes' /\ Kinds
    BY <2>6, UndoStep DEF Kinds
  <2>7. ASSUME NEW o \in Opps, NEW to \in Targets, Transition(o, s, to) PROVE CenterTypes' /\ Kinds
    BY <2>7, TransitionStep DEF Kinds
  <2>8. ASSUME NEW b \in 0 .. MaxVersions, NEW kind \in {"first", "again"}, BeginStart(s, kind, b)
        PROVE  CenterTypes' /\ Kinds
    BY <2>8, BeginStep DEF Kinds
  <2> QED
    BY <1>1, <2>1, <2>2, <2>3, <2>4, <2>5, <2>6, <2>7, <2>8 DEF User
<1>2. ASSUME NEW s \in Sources, Job(s) PROVE CenterTypes' /\ Kinds
  <2>1. CASE Analyse(s)
    BY <2>1, AnalyseStep DEF Kinds
  <2>2. ASSUME NEW obs \in Observations, Answer(s, obs) PROVE CenterTypes' /\ Kinds
    BY <2>2, AnswerStep DEF Kinds
  <2>3. CASE ModelFails(s)
    BY <2>3, ModelFailsStep DEF Kinds
  <2>4. CASE Commit(s)
    BY <2>4, CommitStep DEF Kinds
  <2>5. CASE Resume(s)
    BY <2>5, ResumeStep DEF Kinds
  <2> QED
    BY <1>2, <2>1, <2>2, <2>3, <2>4, <2>5 DEF Job
<1>3. CASE StartRefused
  BY <1>3, RefusedStep DEF Kinds
<1>4. CASE StartResumes
  BY <1>4, StartResumesStep DEF Kinds
<1>5. CASE StartRuns
  BY <1>5, StartRunsStep DEF Kinds
<1>6. ASSUME NEW o \in Opps, ListChanges(o) PROVE CenterTypes' /\ Kinds
  BY <1>6, ListStep DEF Kinds
<1>7. ASSUME NEW o \in Opps, OtherVersion(o) PROVE CenterTypes' /\ Kinds
  BY <1>7, OtherStep DEF Kinds
<1>8. CASE Write
  BY <1>8, WriteStep DEF Kinds
<1>9. CASE WriteFails
  BY <1>9, WriteFailsStep DEF Kinds
<1>10. CASE Crash
  BY <1>10, CrashStep DEF Kinds
<1> QED
  BY <1>1, <1>2, <1>3, <1>4, <1>5, <1>6, <1>7, <1>8, <1>9, <1>10 DEF Next

\* Nothing changes.
LEMMA StutterStep ==
  ASSUME CenterTypes, UNCHANGED vars
  PROVE  CenterTypes' /\ Settled
<1>1. StoredTypes'
  BY DEF CenterTypes, StoredTypes, vars
<1>2. RunTypes'
  BY DEF CenterTypes, RunTypes, vars
<1>3. \A t \in Sources : Calm(ledger'[t], ledger[t])
  BY CalmSame DEF CenterTypes, StoredTypes, vars
<1> QED
  BY <1>1, <1>2, <1>3 DEF CenterTypes, Settled, vars

-----------------------------------------------------------------------------
(* A run promotes only what it was made from.                              *)

\* The writes of a commit, one by one.
LEMMA CommitParts ==
  ASSUME NEW s \in Sources, CommitTaken(s)
  PROVE  LET j == jobs[s] IN
         /\ \A p \in 1 .. Len(todo') :
              \/ todo'[p] \in Finished(j.o, s)
              \/ /\ p = 2 /\ j.phase = "commit" /\ todo'[1].w = "pending"
                 /\ todo'[2].w = "version" /\ todo'[2].o = j.o /\ todo'[2].val = NewVersion(s, j)
         /\ \/ /\ j.phase = "commit" /\ CanPromote(j) /\ 2 \in 1 .. Len(todo') /\ todo'[1].w = "pending"
               /\ todo'[2].w = "version" /\ todo'[2].o = j.o /\ todo'[2].val = NewVersion(s, j)
            \/ /\ j.phase = "resume" /\ Inspect(j.o) = "current" /\ <<s, j.rev>> \in Last(history[j.o]).cites
               /\ todo' \in Seq(Finished(j.o, s))
<1> DEFINE j == jobs[s]
           X == Finished(j.o, s)
<1>1. PICK C \in Seq(X) :
       \/ /\ j.phase = "commit" /\ CanPromote(j)
          /\ \E m, x \in Writes : /\ m.w = "pending" /\ m.s = s
                                  /\ x.w = "version" /\ x.o = j.o /\ x.val = NewVersion(s, j)
                                  /\ todo' = (<<m>> \o <<x>>) \o C
       \/ /\ j.phase = "resume" /\ Inspect(j.o) = "current" /\ <<s, j.rev>> \in Last(history[j.o]).cites
          /\ todo' = C
  BY DEF CommitTaken
<1>2. CASE j.phase = "commit"
  <2>1. PICK m, x \in Writes : /\ m.w = "pending" /\ m.s = s
                               /\ x.w = "version" /\ x.o = j.o /\ x.val = NewVersion(s, j)
                               /\ todo' = (<<m>> \o <<x>>) \o C
    BY <1>1, <1>2
  <2>2. m \in X
    BY <2>1 DEF Finished
  <2>3. C \in Seq(X)
    BY <1>1
  <2> HIDE DEF X
  <2>4. C \in Seq(X \cup {x}) /\ <<m>> \in Seq(X \cup {x}) /\ <<x>> \in Seq(X \cup {x})
    BY <2>2, <2>3
  <2> DEFINE B == <<m>> \o <<x>>
  <2>5. B \in Seq(X \cup {x}) /\ Len(B) = 2 /\ B[1] = m /\ B[2] = x
    BY <2>4
  <2> HIDE DEF B
  <2>6. todo' = B \o C
    BY <2>1 DEF B
  <2>7. Len(todo') = 2 + Len(C) /\ Len(C) \in Nat
    <3>1. PICK n \in Nat : n = Len(C)
      BY <2>4
    <3> DEFINE Z == X \cup {x}
    <3>2. B \in Seq(Z) /\ C \in Seq(Z)
      BY <2>4, <2>5
    <3> HIDE DEF Z
    <3>3. Len(B \o C) = Len(B) + Len(C)
      BY <3>2, SeqJoin
    <3> QED
      BY <2>5, <2>6, <3>1, <3>3
  <2>8. todo'[1] = m /\ todo'[2] = x
    BY <2>4, <2>5, <2>6, <2>7
  <2>9. \A p \in 1 .. Len(todo') : p > 2 => todo'[p] \in X
    <3> SUFFICES ASSUME NEW p \in 1 .. Len(todo'), p > 2 PROVE todo'[p] \in X
      OBVIOUS
    <3>1. p - 2 \in 1 .. Len(C) /\ todo'[p] = C[p - 2]
      BY <2>4, <2>5, <2>6, <2>7
    <3> QED
      BY <3>1, <2>3
  <2>10. \A p \in 1 .. Len(todo') : p = 1 \/ p = 2 \/ p > 2
    BY <2>7
  <2>11. 2 \in 1 .. Len(todo')
    BY <2>7
  <2>12. CanPromote(j) /\ j.phase = "commit"
    BY <1>1, <1>2
  <2>13. \A p \in 1 .. Len(todo') : todo'[p] \in X \/ p = 2
    BY <2>2, <2>8, <2>9, <2>10
  <2> HIDE DEF j
  <2>14. /\ todo'[1].w = "pending" /\ todo'[2].w = "version" /\ todo'[2].o = j.o
         /\ todo'[2].val = NewVersion(s, j)
    BY <2>1, <2>8
  <2> QED
    BY <2>11, <2>12, <2>13, <2>14 DEF X, j
<1>3. CASE j.phase # "commit"
  <2>1. /\ j.phase = "resume" /\ Inspect(j.o) = "current" /\ <<s, j.rev>> \in Last(history[j.o]).cites
        /\ todo' \in Seq(X)
    BY <1>1, <1>3
  <2> HIDE DEF X
  <2>2. \A p \in 1 .. Len(todo') : todo'[p] \in X
    BY <2>1
  <2> QED
    BY <2>1, <2>2 DEF X
<1> QED
  BY <1>2, <1>3

LEMMA FinishedWrites ==
  ASSUME NEW o, NEW s, NEW x \in Finished(o, s)
  PROVE  x \in Writes /\ x.w \in {"change", "action", "pending", "source"}
  BY DEF Finished, Applied, Logged, AppliedAction

\* The version that a run has computed waits for its write, under the lock.
Authorized(p) ==
  LET x == todo[p]
      s == work.s
  IN /\ work.kind = "commit" /\ s \in Sources /\ x.val.by = <<s, ledger[s].rev>>
     /\ receipts[s] = "none" /\ ledger[s].assoc = x.o /\ Latest(ledger[s]) = "content"
     /\ jobs[s].phase = "commit" /\ jobs[s].base = Len(history[x.o])
     /\ \A q \in 1 .. Len(todo) : q < p => todo[q].w = "pending"

Promised == \A p \in 1 .. Len(todo) : todo[p].w = "version" /\ todo[p].val.rt = "model" => Authorized(p)

LEMMA NothingTodo == ASSUME CenterTypes, Idle PROVE todo = <<>> /\ Len(todo) = 0
  BY DEF CenterTypes, RunTypes, Idle

\* No operation but a commit writes a version of the model.
LEMMA ModelVersions ==
  ASSUME NEW x
  PROVE  /\ \A s, to : x \in Corrected(s, to) /\ x.w = "version" => x.val.rt # "model"
         /\ \A s : x \in Forgot(s) /\ x.w = "version" => x.val.rt # "model"
         /\ \A o : x \in AllRepaired(o) => x.w = "change"
<1>1. \A s, to : x \in Corrected(s, to) /\ x.w = "version" => x.val.rt # "model"
  BY DEF Corrected, RevertVersion, Logged
<1>2. \A s : x \in Forgot(s) /\ x.w = "version" => x.val.rt # "model"
  BY DEF Forgot, ForgetVersion, Logged
<1>3. \A o : x \in AllRepaired(o) => x.w = "change"
  BY DEF AllRepaired, Repaired, Records
<1> QED
  BY <1>1, <1>2, <1>3

\* The writes of a user's transition.
LEMMA HumanParts ==
  ASSUME CenterTypes, NEW o \in Opps, NEW s \in Sources, HumanTaken(o, s)
  PROVE  \A p \in 1 .. Len(todo') : \/ todo'[p] \in Repaired(o, s)
                                    \/ MovedAction(o, s, todo'[p])
                                    \/ Records(todo'[p], o, s, Len(actions[o][s].trans) + 1)
<1>1. PICK x, y \in Writes : /\ todo' = (RepairWrites(o, s) \o <<x>>) \o <<y>>
                             /\ MovedAction(o, s, x)
                             /\ Records(y, o, s, Len(actions[o][s].trans) + 1)
  BY DEF HumanTaken
<1>2. PICK R \in Seq(Repaired(o, s)) : R = RepairWrites(o, s)
  BY RepairDone DEF CenterTypes
<1> DEFINE X == Repaired(o, s)
           Y == X \cup {x, y}
<1> HIDE DEF X
<1>3. R \in Seq(X) /\ R \in Seq(Y) /\ <<x>> \in Seq(Y) /\ <<y>> \in Seq(Y)
  BY <1>2 DEF X
<1> DEFINE B == R \o <<x>>
<1>4. B \in Seq(Y) /\ Len(B) = Len(R) + 1 /\ Len(R) \in Nat
      /\ \A p \in 1 .. Len(B) : (p \in 1 .. Len(R) /\ B[p] = R[p]) \/ B[p] = x
  BY <1>3
<1> HIDE DEF B
<1>5. todo' = B \o <<y>>
  BY <1>1, <1>2 DEF B
<1>6. \A p \in 1 .. Len(todo') : (p \in 1 .. Len(B) /\ todo'[p] = B[p]) \/ todo'[p] = y
  BY <1>3, <1>4, <1>5
<1>7. \A p \in 1 .. Len(todo') : todo'[p] \in X \/ todo'[p] = x \/ todo'[p] = y
  BY <1>3, <1>4, <1>6
<1> QED
  BY <1>1, <1>7 DEF X

LEMMA PromisedStep ==
  ASSUME NamesAssumption, CenterTypes, CenterTypes', Promised, Kinds
  PROVE  Promised'
<1>1. CASE Settled
  <2>1. CASE Idle
    <3>1. todo' = <<>>
      BY <1>1, <2>1, NothingTodo DEF Settled
    <3> QED
      BY <3>1 DEF Promised
  <2>2. CASE ~Idle
    <3>1. /\ todo' = todo /\ work' = work /\ ledger' = ledger /\ receipts' = receipts /\ history' = history
          /\ \A t \in Sources : jobs'[t] = jobs[t] \/ jobs[t].phase = "model"
      BY <1>1, <2>2 DEF Settled
    <3> SUFFICES ASSUME NEW p \in 1 .. Len(todo), todo[p].w = "version", todo[p].val.rt = "model"
                 PROVE  Authorized(p)'
      BY <3>1 DEF Promised
    <3>2. Authorized(p)
      BY DEF Promised
    <3>3. jobs'[work.s] = jobs[work.s]
      BY <3>1, <3>2 DEF Authorized
    <3> QED
      BY <3>1, <3>2, <3>3 DEF Authorized
  <2> QED
    BY <2>1, <2>2
<1>2. ASSUME NEW o \in Opps, Saved(o) PROVE Promised'
  <2>1. todo' = <<>>
    BY <1>2, NothingTodo DEF Saved
  <2> QED
    BY <2>1 DEF Promised
<1>3. ASSUME NEW o \in Opps, ListTaken(o) PROVE Promised'
  <2>1. \A p \in 1 .. Len(todo') : todo'[p].w # "version"
    <3>1. \A x \in AllRepaired(o) : x.w # "version"
      BY ModelVersions
    <3> QED
      BY <1>3, <3>1 DEF ListTaken
  <2> QED
    BY <2>1 DEF Promised
<1>4. ASSUME NEW o \in Opps, NEW s \in Sources, HumanTaken(o, s) PROVE Promised'
  <2>1. \A p \in 1 .. Len(todo') : todo'[p].w # "version"
    <3>1. \A x \in Repaired(o, s) : x.w # "version"
      BY DEF Repaired, Records
    <3>2. \A x : MovedAction(o, s, x) \/ Records(x, o, s, Len(actions[o][s].trans) + 1) => x.w # "version"
      BY DEF MovedAction, Records
    <3> QED
      BY <1>4, <3>1, <3>2, HumanParts
  <2> QED
    BY <2>1 DEF Promised
<1>5. ASSUME NEW s \in Sources, CommitTaken(s) PROVE Promised'
  <2> DEFINE j == jobs[s]
  <2>1. \A p \in 1 .. Len(todo') :
              \/ todo'[p] \in Finished(j.o, s)
              \/ /\ p = 2 /\ j.phase = "commit" /\ todo'[1].w = "pending"
                 /\ todo'[2].w = "version" /\ todo'[2].o = j.o /\ todo'[2].val = NewVersion(s, j)
    BY <1>5, CommitParts
  <2> SUFFICES ASSUME NEW p \in 1 .. Len(todo'), todo'[p].w = "version", todo'[p].val.rt = "model"
               PROVE  Authorized(p)'
    BY DEF Promised
  <2>2. /\ p = 2 /\ j.phase = "commit" /\ todo'[1].w = "pending"
        /\ todo'[p].o = j.o /\ todo'[p].val = NewVersion(s, j)
    BY <2>1, FinishedWrites
  <2>3. /\ receipts[s] = "none" /\ SourceUnchanged(j, ledger[s]) /\ j.o \in Opps
        /\ work'.kind = "commit" /\ work'.s = s
        /\ receipts' = receipts /\ ledger' = ledger /\ jobs' = jobs /\ history' = history
    BY <1>5 DEF CommitTaken, Taken, stored
  <2>4. CanPromote(j)
    <3>1. j.phase # "resume"
      BY <2>2
    <3> QED
      BY <1>5, <3>1, CommitParts
  <2>5. NewVersion(s, j).by = <<s, j.rev>>
    BY <2>3, <2>4, NewVersionType
  <2>6. ledger[s].rev = j.rev /\ ledger[s].assoc = j.o /\ Latest(ledger[s]) = "content" /\ Len(history[j.o]) = j.base
    BY <2>3, <2>4 DEF SourceUnchanged, CanPromote
  <2>7. \A q \in 1 .. Len(todo') : q < p => todo'[q].w = "pending"
    <3> SUFFICES ASSUME NEW q \in 1 .. Len(todo'), q < p PROVE todo'[q].w = "pending"
      OBVIOUS
    <3>1. q = 1
      BY <2>2
    <3> QED
      BY <2>2, <3>1
  <2> QED
    BY <2>2, <2>3, <2>5, <2>6, <2>7 DEF Authorized, Latest
<1>6. ASSUME NEW s \in Sources, ForgetTaken(s) PROVE Promised'
  <2>1. \A p \in 1 .. Len(todo') : todo'[p] \in Forgot(s)
    BY <1>6 DEF ForgetTaken, ForgettingOf
  <2> QED
    BY <2>1, ModelVersions DEF Promised
<1>7. ASSUME NEW s \in Sources, NEW to \in Opps \cup {Unassociated}, CorrectTaken(s, to) PROVE Promised'
  <2>1. \A p \in 1 .. Len(todo') : todo'[p] \in Corrected(s, to)
    BY <1>7 DEF CorrectTaken, CorrectionFor
  <2> QED
    BY <2>1, ModelVersions DEF Promised
<1>8. CASE Written
  <2>1. /\ todo \in Seq(Writes) /\ todo # <<>> /\ todo' = Tail(todo)
    BY <1>8 DEF Written, CenterTypes, RunTypes
  <2>2. /\ Len(todo) \in Nat /\ 1 \in 1 .. Len(todo) /\ Head(todo) = todo[1] /\ Len(todo') = Len(todo) - 1
        /\ \A p \in 1 .. Len(todo') : p + 1 \in 1 .. Len(todo) /\ todo'[p] = todo[p + 1]
    BY <2>1, Popped
  <2> SUFFICES ASSUME NEW p \in 1 .. Len(todo'), todo'[p].w = "version", todo'[p].val.rt = "model"
               PROVE  Authorized(p)'
    BY DEF Promised
  <2>3. p + 1 \in 1 .. Len(todo) /\ todo'[p] = todo[p + 1] /\ p \in Nat
    BY <2>2
  <2>4. Authorized(p + 1)
    BY <2>3 DEF Promised
  <2>5. todo[1].w = "pending"
    <3>1. 1 < p + 1
      BY <2>2
    <3> QED
      BY <3>1, <2>2, <2>4 DEF Authorized
  <2>6. ledger' = ledger /\ receipts' = receipts /\ history' = history
    BY <1>8, <2>2, <2>5 DEF Written, Put
  <2>7. work' = work /\ jobs' = jobs
    <3>1. todo' # <<>>
      OBVIOUS
    <3> QED
      BY <1>8, <3>1 DEF Written
  <2>8. \A q \in 1 .. Len(todo') : q < p => todo'[q].w = "pending"
    <3> SUFFICES ASSUME NEW q \in 1 .. Len(todo'), q < p PROVE todo'[q].w = "pending"
      OBVIOUS
    <3>1. q + 1 \in 1 .. Len(todo) /\ todo'[q] = todo[q + 1] /\ q + 1 < p + 1
      BY <2>2
    <3> QED
      BY <3>1, <2>4 DEF Authorized
  <2> QED
    BY <2>3, <2>4, <2>6, <2>7, <2>8 DEF Authorized
<1>9. CASE Stopped
  <2>1. todo' = <<>>
    BY <1>9 DEF Stopped
  <2> QED
    BY <2>1 DEF Promised
<1> QED
  BY <1>1, <1>2, <1>3, <1>4, <1>5, <1>6, <1>7, <1>8, <1>9 DEF Kinds


\* The command center keeps its types: what is stored, what runs, and what an
\* operation has left to write (CommandCenter).
THEOREM CenterTypesHold == Spec => []CenterTypes
<1>1. NamesAssumption /\ CenterAssumption
  BY NamesAssumption, CenterAssumption
<1>2. Init => CenterTypes
  BY <1>1, InitTypes
<1>3. CenterTypes /\ [Next]_vars => CenterTypes'
  BY <1>1, NextKinds, StutterStep
<1> QED
  BY <1>2, <1>3, PTL DEF Spec

\* What a step may do, with what is known before it.
LEMMA StepKinds ==
  ASSUME CenterTypes, [Next]_vars
  PROVE  NamesAssumption /\ CenterTypes' /\ Kinds
<1>1. NamesAssumption /\ CenterAssumption
  BY NamesAssumption, CenterAssumption
<1> QED
  BY <1>1, NextKinds, StutterStep DEF Kinds

\* A version appended.
LEMMA Appended ==
  ASSUME NEW X, NEW F \in Seq(X), NEW x \in X
  PROVE  /\ Append(F, x) \in Seq(X) /\ Append(F, x) # <<>> /\ Last(Append(F, x)) = x
         /\ Len(F) \in Nat /\ Len(Append(F, x)) = Len(F) + 1 /\ Append(F, x)[Len(F) + 1] = x
         /\ \A i \in 1 .. Len(F) : Append(F, x)[i] = F[i]
         /\ \A i \in 1 .. Len(Append(F, x)) : i \in 1 .. Len(F) \/ i = Len(F) + 1
<1>1. Len(F) \in Nat
  OBVIOUS
<1>2. Append(F, x) \in Seq(X) /\ Len(Append(F, x)) = Len(F) + 1 /\ Append(F, x)[Len(F) + 1] = x
  OBVIOUS
<1>3. Append(F, x) # <<>> /\ Last(Append(F, x)) = x
  BY <1>1, <1>2 DEF Last
<1>4. \A i \in 1 .. Len(F) : Append(F, x)[i] = F[i]
  OBVIOUS
<1> QED
  BY <1>1, <1>2, <1>3, <1>4

\* How the versions of an overview change.
LEMMA HistoryStep ==
  ASSUME CenterTypes, Kinds, NEW o \in Opps, history'[o] # history[o]
  PROVE  \/ Saved(o) /\ history'[o] = Append(history[o], SavedVersion(history[o]))
         \/ /\ Written /\ todo[1].w = "version" /\ todo[1].o = o /\ 1 \in 1 .. Len(todo)
            /\ todo[1] \in Writes /\ history'[o] = Append(history[o], todo[1].val)
<1>1. ASSUME NEW q \in Opps, Saved(q) PROVE Saved(o) /\ history'[o] = Append(history[o], SavedVersion(history[o]))
  <2>1. history \in [Opps -> Seq(Version)]
    BY DEF CenterTypes, StoredTypes
  <2>2. q = o
    BY <1>1, <2>1 DEF Saved
  <2> QED
    BY <1>1, <2>1, <2>2 DEF Saved
<1>2. CASE Written
  <2>1. /\ todo \in Seq(Writes) /\ todo # <<>> /\ history \in [Opps -> Seq(Version)]
    BY <1>2 DEF Written, CenterTypes, RunTypes, StoredTypes
  <2>2. Head(todo) = todo[1] /\ 1 \in 1 .. Len(todo) /\ todo[1] \in Writes
    BY <2>1, Popped
  <2>3. Put(todo[1])
    BY <1>2, <2>2 DEF Written
  <2>4. todo[1].w = "version"
    BY <2>3 DEF Put
  <2>5. history' = [history EXCEPT ![todo[1].o] = Append(@, todo[1].val)]
    BY <2>3, <2>4 DEF Put
  <2> QED
    BY <1>2, <2>1, <2>2, <2>4, <2>5
<1>3. \/ Settled \/ Stopped
      \/ \E q \in Opps : ListTaken(q) \/ \E s \in Sources : HumanTaken(q, s)
      \/ \E s \in Sources : CommitTaken(s) \/ ForgetTaken(s) \/ \E to \in Opps \cup {Unassociated} : CorrectTaken(s, to)
      => history' = history
  BY DEF Settled, Stopped, ListTaken, HumanTaken, CommitTaken, ForgetTaken, CorrectTaken, Taken, stored
<1> QED
  BY <1>1, <1>2, <1>3 DEF Kinds

\* The property of one step.
PromotionAuthorized(o) ==
  (Len(history'[o]) > Len(history[o]) /\ Last(history'[o]).by[1] \in Sources /\ Last(history'[o]).rt = "model") =>
    LET v == Last(history'[o])
        s == v.by[1]
    IN /\ receipts[s] = "none" /\ ledger[s].assoc = o /\ ledger[s].rev = v.by[2]
       /\ Latest(ledger[s]) = "content"
       /\ jobs[s].base = Len(history[o])

LEMMA PromotionStep ==
  ASSUME NamesAssumption, CenterTypes, Promised, Kinds, NEW o \in Opps
  PROVE  PromotionAuthorized(o)
<1> SUFFICES ASSUME Len(history'[o]) > Len(history[o]), Last(history'[o]).by[1] \in Sources,
                    Last(history'[o]).rt = "model"
             PROVE  LET v == Last(history'[o])
                        s == v.by[1]
                    IN /\ receipts[s] = "none" /\ ledger[s].assoc = o /\ ledger[s].rev = v.by[2]
                       /\ Latest(ledger[s]) = "content"
                       /\ jobs[s].base = Len(history[o])
  BY DEF PromotionAuthorized
<1>1. history[o] \in Seq(Version)
  BY DEF CenterTypes, StoredTypes
<1>2. history'[o] # history[o]
  BY <1>1
<1>3. CASE history'[o] = Append(history[o], SavedVersion(history[o]))
  <2>1. SavedVersion(history[o]) \in Version /\ SavedVersion(history[o]).by = <<None, 0>>
    BY <1>1, SavedType
  <2>2. Last(history'[o]) = SavedVersion(history[o])
    BY <1>1, <1>3, <2>1, Appended
  <2>3. Last(history'[o]).by[1] = None
    BY <2>1, <2>2
  <2> QED
    BY <2>3 DEF NamesAssumption
<1>4. CASE /\ todo[1].w = "version" /\ todo[1].o = o /\ 1 \in 1 .. Len(todo)
           /\ todo[1] \in Writes /\ history'[o] = Append(history[o], todo[1].val)
  <2>1. todo[1].val \in Version
    BY <1>4, WriteTypes
  <2>2. Last(history'[o]) = todo[1].val
    BY <1>1, <1>4, <2>1, Appended
  <2>3. Authorized(1)
    BY <1>4, <2>2 DEF Promised
  <2>4. Last(history'[o]).by = <<work.s, ledger[work.s].rev>>
    BY <2>2, <2>3 DEF Authorized
  <2>5. Last(history'[o]).by[1] = work.s /\ Last(history'[o]).by[2] = ledger[work.s].rev
    BY <2>4
  <2> QED
    BY <1>4, <2>3, <2>5 DEF Authorized
<1> QED
  BY <1>2, <1>3, <1>4, HistoryStep

\* A version that the model made from a source is promoted only on the version it
\* was made from and only while the source belongs to the opportunity, has this
\* revision as its latest, can be read and is not forgotten: the commit barrier of
\* _reconcile, for any number of sources, opportunities, requests and faults.
THEOREM Promotion == Spec => PromotedIsAuthorized
<1>1. Init => CenterTypes /\ Promised
  <2> SUFFICES ASSUME Init PROVE CenterTypes /\ Promised
    OBVIOUS
  <2>1. CenterTypes /\ Idle
    BY InitTypes, NamesAssumption, CenterAssumption
  <2>2. todo = <<>>
    BY <2>1, NothingTodo
  <2> QED
    BY <2>1, <2>2 DEF Promised
<1>2. CenterTypes /\ Promised /\ [Next]_vars => CenterTypes' /\ Promised'
  BY StepKinds, PromisedStep
<1>3. CenterTypes /\ Promised /\ [Next]_vars => \A o \in Opps : PromotionAuthorized(o)
  BY StepKinds, PromotionStep
<1>4. CenterTypes /\ Promised /\ [Next]_vars =>
        [\A o \in Opps :
           (Len(history'[o]) > Len(history[o]) /\ Last(history'[o]).by[1] \in Sources /\ Last(history'[o]).rt = "model") =>
             LET v == Last(history'[o])
                 s == v.by[1]
             IN /\ receipts[s] = "none" /\ ledger[s].assoc = o /\ ledger[s].rev = v.by[2]
                /\ Latest(ledger[s]) = "content"
                /\ jobs[s].base = Len(history[o])]_vars
  BY <1>3 DEF PromotionAuthorized
<1> QED
  BY <1>1, <1>2, <1>4, PTL DEF Spec, PromotedIsAuthorized


-----------------------------------------------------------------------------
(* The versions of an overview as a chain.                                 *)

Adds(H, i, u) == \E c \in H[i].cites \ H[i - 1].cites : c[1] = u

\* Which sources a version was made from.
FromCites(v) == v.from = {s \in Sources : CitesOf(v, s)}

\* What the first version cites stays, a version adds citations of one source at
\* most, and the version that removes a mail adds none.
Grows(H) ==
  /\ \A i \in 1 .. Len(H) : FromCites(H[i]) /\ H[1].cites \subseteq H[i].cites
  /\ \A i \in 2 .. Len(H) : \A u, w \in Ids : Adds(H, i, u) /\ Adds(H, i, w) => u = w
  /\ \A i \in 1 .. Len(H) : H[i].rt = "gmail_forget" => i > 1 /\ H[i].cites \subseteq H[i - 1].cites

\* While a source that came after version i is cited, what i cites is cited too:
\* sources leave an overview in the order in which they came, last in first out.
Nested(H) ==
  \A n \in 1 .. Len(H) : \A i \in 1 .. n : \A t \in Ids :
    ~CitesOf(H[i], t) /\ (\A x \in i + 1 .. n : CitesOf(H[x], t)) => H[i].cites \subseteq H[n].cites

\* Nothing came into an overview between a mail and its removal, but the mail.
Removes(H) ==
  \A c, j \in 1 .. Len(H) : \A m \in Sources, u \in Ids :
    /\ H[c].rt = "gmail_forget" /\ H[c].by = <<m, 0>> /\ j < c
    /\ CitesOf(H[j], m) /\ u # m /\ CitesOf(H[c], u)
    => \A x \in j .. c - 1 : CitesOf(H[x], u)

Chain(H) == Grows(H) /\ Nested(H) /\ Removes(H)

\* A version that can be the next one.
Extends(H, v) ==
  /\ v \in Version /\ FromCites(v)
  /\ H # <<>> => H[1].cites \subseteq v.cites
  /\ H # <<>> => \A c, d \in v.cites \ Last(H).cites : c[1] = d[1]
  /\ v.rt = "gmail_forget" => H # <<>> /\ v.cites \subseteq Last(H).cites
  /\ \A i \in 1 .. Len(H) : \A t \in Ids :
       ~CitesOf(H[i], t) /\ (\A x \in i + 1 .. Len(H) : CitesOf(H[x], t)) /\ CitesOf(v, t) => H[i].cites \subseteq v.cites
  /\ \A j \in 1 .. Len(H) : \A m \in Sources, u \in Ids :
       v.rt = "gmail_forget" /\ v.by = <<m, 0>> /\ CitesOf(H[j], m) /\ u # m /\ CitesOf(v, u)
       => \A x \in j .. Len(H) : CitesOf(H[x], u)

LEMMA ChainAppend ==
  ASSUME NEW H \in Seq(Version), Chain(H), NEW v, Extends(H, v)
  PROVE  Chain(Append(H, v))
<1>1. PICK n \in Nat : n = Len(H)
  OBVIOUS
<1>2. v \in Version
  BY DEF Extends
<1>3. PICK G : G = Append(H, v)
  OBVIOUS
<1>4. /\ Len(G) = n + 1 /\ G[n + 1] = v /\ \A i \in 1 .. n : G[i] = H[i]
      /\ \A i \in 1 .. n + 1 : i \in 1 .. n \/ i = n + 1
  BY <1>1, <1>2, <1>3, Appended
<1>5. n > 0 => H # <<>> /\ Last(H) = H[n] /\ n \in 1 .. n /\ 1 \in 1 .. n
  BY <1>1 DEF Last
<1>6. Grows(G)
  <2>1. ASSUME NEW i \in 1 .. n + 1 PROVE FromCites(G[i]) /\ G[1].cites \subseteq G[i].cites
    <3>1. CASE i \in 1 .. n
      <4>1. G[i] = H[i] /\ G[1] = H[1]
        BY <1>4, <1>5, <3>1
      <4>2. FromCites(H[i]) /\ H[1].cites \subseteq H[i].cites
        BY <1>1, <3>1 DEF Chain, Grows
      <4> QED
        BY <4>1, <4>2
    <3>2. CASE i = n + 1 /\ n > 0
      <4>1. G[i] = v /\ G[1] = H[1]
        BY <1>4, <1>5, <3>2
      <4>2. FromCites(v) /\ H[1].cites \subseteq v.cites
        BY <1>5, <3>2 DEF Extends
      <4> QED
        BY <4>1, <4>2
    <3>3. CASE i = n + 1 /\ n = 0
      <4>1. G[i] = v /\ G[1] = v
        BY <1>4, <3>3
      <4>2. FromCites(v)
        BY DEF Extends
      <4> QED
        BY <4>1, <4>2
    <3> QED
      BY <1>1, <1>4, <3>1, <3>2, <3>3
  <2>2. ASSUME NEW i \in 2 .. n + 1, NEW u \in Ids, NEW w \in Ids, Adds(G, i, u), Adds(G, i, w) PROVE u = w
    <3>1. CASE i \in 2 .. n
      <4>1. G[i] = H[i] /\ G[i - 1] = H[i - 1]
        BY <1>1, <1>4, <3>1
      <4>2. Adds(H, i, u) /\ Adds(H, i, w)
        BY <2>2, <4>1 DEF Adds
      <4> QED
        BY <1>1, <3>1, <4>2 DEF Chain, Grows
    <3>2. CASE i = n + 1
      <4>1. n > 0
        BY <1>1, <3>2
      <4>2. G[i] = v /\ G[i - 1] = Last(H)
        BY <1>1, <1>4, <1>5, <3>2, <4>1
      <4>3. \A c, d \in v.cites \ Last(H).cites : c[1] = d[1]
        BY <1>5, <4>1 DEF Extends
      <4> QED
        BY <2>2, <4>2, <4>3 DEF Adds
    <3> QED
      BY <1>1, <3>1, <3>2
  <2>3. ASSUME NEW i \in 1 .. n + 1, G[i].rt = "gmail_forget" PROVE i > 1 /\ G[i].cites \subseteq G[i - 1].cites
    <3>1. CASE i \in 1 .. n
      <4>1. G[i] = H[i]
        BY <1>4, <3>1
      <4>2. i > 1 /\ H[i].cites \subseteq H[i - 1].cites
        BY <1>1, <2>3, <3>1, <4>1 DEF Chain, Grows
      <4>3. i - 1 \in 1 .. n
        BY <1>1, <3>1, <4>2
      <4> QED
        BY <1>4, <4>1, <4>2, <4>3
    <3>2. CASE i = n + 1
      <4>1. G[i] = v
        BY <1>4, <3>2
      <4>2. H # <<>> /\ v.cites \subseteq Last(H).cites
        BY <2>3, <4>1 DEF Extends
      <4>3. n > 0
        BY <1>1, <4>2
      <4>4. G[i - 1] = Last(H) /\ i > 1
        BY <1>1, <1>4, <1>5, <3>2, <4>3
      <4> QED
        BY <4>1, <4>2, <4>4
    <3> QED
      BY <1>4, <3>1, <3>2
  <2> QED
    BY <1>4, <2>1, <2>2, <2>3 DEF Grows
<1>7. Nested(G)
  <2> SUFFICES ASSUME NEW k \in 1 .. n + 1, NEW i \in 1 .. k, NEW t \in Ids, ~CitesOf(G[i], t),
                      \A x \in i + 1 .. k : CitesOf(G[x], t)
               PROVE  G[i].cites \subseteq G[k].cites
    BY <1>4 DEF Nested
  <2>1. CASE k \in 1 .. n
    <3>1. i \in 1 .. n /\ G[i] = H[i] /\ G[k] = H[k]
      BY <1>1, <1>4, <2>1
    <3>2. \A x \in i + 1 .. k : CitesOf(H[x], t)
      <4> SUFFICES ASSUME NEW x \in i + 1 .. k PROVE CitesOf(H[x], t)
        OBVIOUS
      <4>1. x \in 1 .. n
        BY <1>1, <2>1
      <4> QED
        BY <1>4, <4>1
    <3>3. ~CitesOf(H[i], t)
      BY <3>1
    <3> QED
      BY <1>1, <2>1, <3>1, <3>2, <3>3 DEF Chain, Nested
  <2>2. CASE k = n + 1 /\ i = n + 1
    BY <2>2
  <2>3. CASE k = n + 1 /\ i # n + 1
    <3>1. i \in 1 .. n /\ G[i] = H[i] /\ G[k] = v
      BY <1>1, <1>4, <2>3
    <3>2. \A x \in i + 1 .. n : CitesOf(H[x], t)
      <4> SUFFICES ASSUME NEW x \in i + 1 .. n PROVE CitesOf(H[x], t)
        OBVIOUS
      <4>1. x \in 1 .. n /\ x \in i + 1 .. k
        BY <1>1, <2>3
      <4> QED
        BY <1>4, <4>1
    <3>3. CitesOf(v, t)
      <4>1. n + 1 \in i + 1 .. k
        BY <1>1, <2>3, <3>1
      <4> QED
        BY <1>4, <4>1
    <3>4. ~CitesOf(H[i], t)
      BY <3>1
    <3>5. H[i].cites \subseteq v.cites
      BY <1>1, <3>1, <3>2, <3>3, <3>4 DEF Extends
    <3> QED
      BY <3>1, <3>5
  <2> QED
    BY <1>4, <2>1, <2>2, <2>3
<1>8. Removes(G)
  <2> SUFFICES ASSUME NEW c \in 1 .. n + 1, NEW j \in 1 .. n + 1, NEW m \in Sources, NEW u \in Ids,
                      G[c].rt = "gmail_forget", G[c].by = <<m, 0>>, j < c, CitesOf(G[j], m), u # m, CitesOf(G[c], u),
                      NEW x \in j .. c - 1
               PROVE  CitesOf(G[x], u)
    BY <1>4 DEF Removes
  <2>1. j \in 1 .. n /\ x \in 1 .. n /\ G[j] = H[j] /\ G[x] = H[x]
    BY <1>1, <1>4
  <2>2. CitesOf(H[j], m)
    BY <2>1
  <2>3. CASE c \in 1 .. n
    <3>1. G[c] = H[c]
      BY <1>4, <2>3
    <3>2. H[c].rt = "gmail_forget" /\ H[c].by = <<m, 0>> /\ CitesOf(H[c], u)
      BY <3>1
    <3>3. CitesOf(H[x], u)
      BY <1>1, <2>1, <2>2, <2>3, <3>2 DEF Chain, Removes
    <3> QED
      BY <2>1, <3>3
  <2>4. CASE c = n + 1
    <3>1. G[c] = v
      BY <1>4, <2>4
    <3>2. v.rt = "gmail_forget" /\ v.by = <<m, 0>> /\ CitesOf(v, u)
      BY <3>1
    <3>3. x \in j .. n
      BY <1>1, <2>4
    <3>4. CitesOf(H[x], u)
      BY <1>1, <2>1, <2>2, <3>2, <3>3 DEF Extends
    <3> QED
      BY <2>1, <3>4
  <2> QED
    BY <1>4, <2>3, <2>4
<1> QED
  BY <1>3, <1>6, <1>7, <1>8 DEF Chain

\* A version that adds one source to the last.
LEMMA ModelExtends ==
  ASSUME NEW H \in Seq(Version), Chain(H), NEW v \in Version, NEW e \in Ids \X Nat, v.rt = "model",
         H = <<>> => v.cites = {e} /\ v.from = {e[1]} \cap Sources,
         H # <<>> => v.cites = Last(H).cites \cup {e} /\ v.from = Last(H).from \cup ({e[1]} \cap Sources)
  PROVE  Extends(H, v)
<1>1. PICK n \in Nat : n = Len(H)
  OBVIOUS
<1>2. n > 0 => H # <<>> /\ Last(H) = H[n] /\ n \in 1 .. n /\ 1 \in 1 .. n
  BY <1>1 DEF Last
<1>3. CASE n = 0
  <2>1. H = <<>>
    BY <1>1, <1>3, SeqEmpty
  <2>2. v.cites = {e} /\ v.from = {e[1]} \cap Sources
    BY <2>1
  <2>3. FromCites(v)
    BY <2>2 DEF FromCites, CitesOf
  <2> QED
    BY <1>1, <1>3, <2>1, <2>3 DEF Extends
<1>4. CASE n > 0
  <2>1. v.cites = Last(H).cites \cup {e} /\ v.from = Last(H).from \cup ({e[1]} \cap Sources)
    BY <1>2, <1>4
  <2>2. FromCites(H[n]) /\ H[1].cites \subseteq H[n].cites
    BY <1>1, <1>2, <1>4 DEF Chain, Grows
  <2>3. FromCites(v)
    BY <1>2, <1>4, <2>1, <2>2 DEF FromCites, CitesOf
  <2>4. ASSUME NEW i \in 1 .. n, NEW t \in Ids, ~CitesOf(H[i], t), \A x \in i + 1 .. n : CitesOf(H[x], t)
        PROVE  H[i].cites \subseteq v.cites
    <3>1. H[i].cites \subseteq H[n].cites
      BY <1>1, <1>2, <1>4, <2>4 DEF Chain, Nested
    <3> QED
      BY <1>2, <1>4, <2>1, <3>1
  <2>5. \A c, d \in v.cites \ Last(H).cites : c[1] = d[1]
    BY <2>1
  <2>6. H[1].cites \subseteq v.cites
    BY <1>2, <1>4, <2>1, <2>2
  <2>7. v.rt # "gmail_forget"
    OBVIOUS
  <2> QED
    BY <1>1, <2>3, <2>4, <2>5, <2>6, <2>7 DEF Extends
<1> QED
  BY <1>1, <1>3, <1>4


\* The version to which a correction reverts: every later one cites the source,
\* so it cites nothing that the last one does not cite.
LEMMA RevertTarget ==
  ASSUME StoredTypes, NEW o \in Opps, NEW s \in Sources, Chain(history[o]), retired[o] = None,
         Inspect(o) # "withheld", receipts[s] = "none", CitesNow(o, s),
         NEW k \in CleanVersions(o, s), \A j \in CleanVersions(o, s) : j <= k
  PROVE  /\ k \in 1 .. Len(history[o]) /\ ~CitesOf(history[o][k], s)
         /\ \A x \in k + 1 .. Len(history[o]) : CitesOf(history[o][x], s)
         /\ \A x \in k .. Len(history[o]) : history[o][k].cites \subseteq history[o][x].cites
<1> DEFINE H == history[o]
<1>1. H \in Seq(Version)
  BY DEF StoredTypes
<1>2. PICK n \in Nat : n = Len(H)
  BY <1>1
<1>3. H # <<>> /\ CitesOf(Last(H), s)
  BY DEF CitesNow
<1>4. n > 0 /\ Last(H) = H[n]
  BY <1>1, <1>2, <1>3, SeqEmpty DEF Last
<1>5. k \in 1 .. n /\ ~CitesOf(H[k], s)
  BY <1>2 DEF CleanVersions, Visible
<1>6. Tainted(o, n) = {}
  BY <1>2, <1>3 DEF Inspect
<1>7. \A x \in k + 1 .. n : CitesOf(H[x], s)
  <2> DEFINE T == {x \in k + 1 .. n : ~CitesOf(H[x], s)}
  <2> SUFFICES ASSUME T # {} PROVE FALSE
    OBVIOUS
  <2>1. T \in SUBSET Nat /\ \A x \in T : x <= n
    BY <1>2, <1>5
  <2>2. PICK l \in T : \A y \in T : y <= l
    <3> HIDE DEF T
    <3> QED
      BY <1>2, <2>1, LargestNumber
  <2>3. l \in k + 1 .. n /\ ~CitesOf(H[l], s) /\ l \in 1 .. n /\ l > k
    BY <1>2, <1>5, <2>2
  <2>4. l \notin Visible(o)
    <3>1. l \in Visible(o) => l \in CleanVersions(o, s)
      BY <2>3 DEF CleanVersions
    <3>2. ~(l <= k)
      BY <1>2, <1>5, <2>3
    <3> QED
      BY <3>1, <3>2
  <2>5. PICK m \in Tainted(o, l) : TRUE
    BY <1>2, <2>3, <2>4 DEF Visible
  <2>6. PICK j \in 1 .. l :
          /\ CitesOf(H[j], m)
          /\ \A y \in j .. l : ~(H[y].rt = "gmail_forget" /\ H[y].by = <<m, 0>> /\ ~CitesOf(H[y], m))
    BY <2>5 DEF Tainted
  <2>7. m \in Forgotten /\ m \in Sources /\ m # s
    BY <2>5 DEF Tainted, Forgotten
  <2>8. j \in 1 .. n
    BY <1>2, <2>3
  <2>9. PICK c \in j .. n : H[c].rt = "gmail_forget" /\ H[c].by = <<m, 0>> /\ ~CitesOf(H[c], m)
    BY <1>6, <2>6, <2>7, <2>8 DEF Tainted
  <2>10. c > l
    <3>1. ~(c \in j .. l)
      BY <2>6, <2>9
    <3> QED
      BY <1>2, <2>3, <2>9, <3>1
  <2>11. c \in 1 .. n /\ c \in k + 1 .. n /\ j < c /\ l \in j .. c - 1
    BY <1>2, <1>5, <2>3, <2>8, <2>9, <2>10
  <2>12. CitesOf(H[c], s)
    <3>1. c \notin T
      BY <1>2, <2>2, <2>3, <2>10, <2>11
    <3> QED
      BY <2>11, <3>1
  <2>13. s \in Ids /\ s # m
    BY <2>7 DEF Ids
  <2>14. CitesOf(H[l], s)
    <3>1. Removes(H)
      BY DEF Chain
    <3> HIDE DEF H
    <3> QED
      BY <1>2, <2>6, <2>7, <2>8, <2>9, <2>11, <2>12, <2>13, <3>1 DEF Removes
  <2> QED
    BY <2>3, <2>14
<1>8. \A x \in k .. n : H[k].cites \subseteq H[x].cites
  <2> SUFFICES ASSUME NEW x \in k .. n PROVE H[k].cites \subseteq H[x].cites
    OBVIOUS
  <2>1. x \in 1 .. n /\ k \in 1 .. x
    BY <1>2, <1>5
  <2>2. \A y \in k + 1 .. x : CitesOf(H[y], s)
    <3> SUFFICES ASSUME NEW y \in k + 1 .. x PROVE CitesOf(H[y], s)
      OBVIOUS
    <3>1. y \in k + 1 .. n
      BY <1>2, <1>5
    <3> QED
      BY <1>7, <3>1
  <2>3. Nested(H) /\ s \in Ids
    BY DEF Chain, Ids
  <2> HIDE DEF H
  <2> QED
    BY <1>2, <1>5, <2>1, <2>2, <2>3 DEF Nested
<1> QED
  BY <1>2, <1>5, <1>7, <1>8

LEMMA RevertExtends ==
  ASSUME StoredTypes, NEW o \in Opps, NEW s \in Sources, Chain(history[o]), retired[o] = None,
         Inspect(o) # "withheld", receipts[s] = "none", CitesNow(o, s), NEW v \in Version, RevertVersion(s, o, v)
  PROVE  Extends(history[o], v) /\ v.cites \subseteq Last(history[o]).cites /\ ~CitesOf(v, s)
<1> DEFINE H == history[o]
<1>1. PICK k \in CleanVersions(o, s) :
        /\ \A j \in CleanVersions(o, s) : j <= k
        /\ v.cites = H[k].cites /\ v.from = H[k].from /\ v.rt = "association_correction"
  BY DEF RevertVersion
<1>2. /\ k \in 1 .. Len(H) /\ ~CitesOf(H[k], s)
      /\ \A x \in k .. Len(H) : H[k].cites \subseteq H[x].cites
  BY <1>1, RevertTarget
<1>3. H \in Seq(Version) /\ Chain(H)
  BY DEF StoredTypes
<1> HIDE DEF H
<1>4. PICK n \in Nat : n = Len(H)
  BY <1>3
<1>5. H # <<>> /\ n \in 1 .. n /\ Last(H) = H[n] /\ n \in k .. n
  BY <1>2, <1>3, <1>4 DEF Last
<1>6. v.cites \subseteq Last(H).cites
  BY <1>1, <1>2, <1>4, <1>5
<1>7. FromCites(v) /\ ~CitesOf(v, s)
  <2>1. FromCites(H[k])
    BY <1>2, <1>3 DEF Chain, Grows
  <2> QED
    BY <1>1, <1>2, <2>1 DEF FromCites, CitesOf
<1>8. H[1].cites \subseteq v.cites
  BY <1>1, <1>2, <1>3 DEF Chain, Grows
<1>9. ASSUME NEW i \in 1 .. n, NEW t \in Ids, ~CitesOf(H[i], t), \A x \in i + 1 .. n : CitesOf(H[x], t), CitesOf(v, t)
      PROVE  H[i].cites \subseteq v.cites
  <2>1. CitesOf(H[k], t)
    BY <1>1, <1>9 DEF CitesOf
  <2>2. CASE i >= k
    <3>1. i \in k .. n
      BY <1>2, <1>4, <2>2
    <3>2. H[k].cites \subseteq H[i].cites
      BY <1>2, <1>4, <3>1
    <3> QED
      BY <1>9, <2>1, <3>2 DEF CitesOf
  <2>3. CASE i < k
    <3>1. i \in 1 .. k /\ k \in 1 .. n
      BY <1>2, <1>4, <2>3
    <3>2. \A x \in i + 1 .. k : CitesOf(H[x], t)
      BY <1>2, <1>4, <1>9
    <3>3. H[i].cites \subseteq H[k].cites
      BY <1>3, <1>4, <1>9, <3>1, <3>2 DEF Chain, Nested
    <3> QED
      BY <1>1, <3>3
  <2> QED
    BY <1>2, <1>4, <2>2, <2>3
<1>10. v.rt # "gmail_forget"
  BY <1>1
<1>11. \A c, d \in v.cites \ Last(H).cites : c[1] = d[1]
  BY <1>6
<1>12. Extends(H, v)
  BY <1>4, <1>5, <1>7, <1>8, <1>9, <1>10, <1>11 DEF Extends
<1> QED
  BY <1>6, <1>7, <1>12 DEF H

\* Since the mail came, nothing but the mail was added.
LEMMA SinceMail ==
  ASSUME StoredTypes, NEW o \in Opps, NEW s \in Sources, Chain(history[o]), NEW v, ForgetVersion(s, o, v)
  PROVE  /\ Len(history[o]) > 0
         /\ ~CitesOf(history[o][1], s)
         /\ \A j \in 1 .. Len(history[o]) : CitesOf(history[o][j], s) =>
              \A u \in Ids : u # s /\ CitesOf(Last(history[o]), u) => \A x \in j .. Len(history[o]) : CitesOf(history[o][x], u)
<1> DEFINE H == history[o]
<1>1. H \in Seq(Version) /\ Chain(H) /\ Grows(H)
  BY DEF StoredTypes, Chain
<1>2. PICK n \in Nat : n = Len(H)
  BY <1>1
<1>3. PICK f \in Attributed(o, s) : s \notin H[f - 1].from /\ \A j \in Attributed(o, s) : f <= j
  BY DEF ForgetVersion
<1>4. f \in 2 .. n /\ \A i \in 2 .. n : i \in Attributed(o, s) <=> Adds(H, i, s)
  BY <1>2, <1>3 DEF Attributed, Adds
<1>5. ~SeenByModel(o, s)
  BY DEF ForgetVersion
<1>6. \A i \in f + 1 .. n : Adds(H, i, s) \/ H[i].rt = "gmail_forget"
  <2> SUFFICES ASSUME NEW i \in f + 1 .. n, ~Adds(H, i, s), H[i].rt # "gmail_forget" PROVE FALSE
    OBVIOUS
  <2>1. i \in 1 .. n /\ i \in 2 .. n /\ f < i
    BY <1>2, <1>4
  <2> QED
    BY <1>2, <1>3, <1>4, <1>5, <2>1 DEF SeenByModel
<1>7. f - 1 \in 1 .. n /\ 1 \in 1 .. n /\ n > 0 /\ Last(H) = H[n] /\ f \in 1 .. n
  BY <1>2, <1>4 DEF Last
<1> HIDE DEF H
<1>8. ~CitesOf(H[f - 1], s)
  BY <1>1, <1>2, <1>3, <1>7 DEF Grows, FromCites
<1>9. ~CitesOf(H[1], s)
  BY <1>1, <1>2, <1>7, <1>8 DEF Grows, CitesOf
<1>10. \A j \in 1 .. n : CitesOf(H[j], s) => j >= f
  <2> DEFINE T == {j \in 1 .. n : CitesOf(H[j], s) /\ j < f}
  <2> SUFFICES ASSUME T # {} PROVE FALSE
    BY <1>2, <1>4
  <2>1. T \in SUBSET Nat
    BY <1>2
  <2>2. PICK j \in T : \A y \in T : j <= y
    <3> HIDE DEF T
    <3> QED
      BY <2>1, LeastNumber
  <2>3. j \in 1 .. n /\ CitesOf(H[j], s) /\ j < f
    BY <2>2
  <2>4. j # 1
    BY <1>9, <2>3
  <2>5. j \in 2 .. n /\ j - 1 \in 1 .. n /\ j - 1 < f
    BY <1>2, <1>4, <2>3, <2>4
  <2>6. ~CitesOf(H[j - 1], s)
    <3>1. ~(j <= j - 1)
      BY <2>3
    <3> QED
      BY <2>2, <2>5, <3>1
  <2>7. Adds(H, j, s)
    BY <2>3, <2>6 DEF Adds, CitesOf
  <2>8. f <= j
    BY <1>3, <1>4, <2>5, <2>7
  <2> QED
    BY <1>2, <1>4, <2>3, <2>8
<1>11. ASSUME NEW u \in Ids, u # s, CitesOf(H[n], u) PROVE \A x \in f .. n : CitesOf(H[x], u)
  <2> DEFINE T == {x \in f .. n : ~CitesOf(H[x], u)}
  <2> SUFFICES ASSUME T # {} PROVE FALSE
    OBVIOUS
  <2>1. T \in SUBSET Nat /\ \A x \in T : x <= n
    BY <1>2, <1>4
  <2>2. PICK x \in T : \A y \in T : y <= x
    <3> HIDE DEF T
    <3> QED
      BY <1>2, <2>1, LargestNumber
  <2>3. x \in f .. n /\ ~CitesOf(H[x], u)
    BY <2>2
  <2>4. x # n
    BY <1>11, <2>3
  <2>5. x + 1 \in f + 1 .. n /\ x + 1 \in f .. n /\ x + 1 \in 2 .. n /\ x + 1 \in 1 .. n /\ (x + 1) - 1 = x
    BY <1>2, <1>4, <2>3, <2>4
  <2>6. CitesOf(H[x + 1], u)
    <3>1. ~(x + 1 <= x)
      BY <2>3, <1>2, <1>4
    <3> QED
      BY <2>2, <2>5, <3>1
  <2>7. Adds(H, x + 1, u)
    BY <2>3, <2>5, <2>6 DEF Adds, CitesOf
  <2>8. ~(H[x + 1].cites \subseteq H[(x + 1) - 1].cites)
    BY <2>7 DEF Adds
  <2>9. H[x + 1].rt # "gmail_forget"
    BY <1>1, <1>2, <2>5, <2>8 DEF Grows
  <2>10. Adds(H, x + 1, s) /\ s \in Ids
    BY <1>6, <2>5, <2>9 DEF Ids
  <2> QED
    BY <1>1, <1>2, <1>11, <2>5, <2>7, <2>10 DEF Grows
<1>12. ASSUME NEW j \in 1 .. n, CitesOf(H[j], s), NEW u \in Ids, u # s, CitesOf(H[n], u), NEW x \in j .. n
       PROVE  CitesOf(H[x], u)
  <2>1. x \in f .. n
    BY <1>2, <1>4, <1>10, <1>12
  <2> QED
    BY <1>11, <1>12, <2>1
<1> QED
  BY <1>2, <1>7, <1>9, <1>12 DEF H

LEMMA ForgetExtends ==
  ASSUME StoredTypes, NEW o \in Opps, NEW s \in Sources, Chain(history[o]), NEW v \in Version, ForgetVersion(s, o, v)
  PROVE  Extends(history[o], v)
<1> DEFINE H == history[o]
<1>1. H \in Seq(Version) /\ Chain(H) /\ Grows(H)
  BY DEF StoredTypes, Chain
<1>2. PICK n \in Nat : n = Len(H)
  BY <1>1
<1>3. /\ v.cites = {c \in Last(H).cites : c[1] # s} /\ v.from = Last(H).from \ {s}
      /\ v.by = <<s, 0>> /\ v.rt = "gmail_forget"
  BY DEF ForgetVersion
<1>4. /\ n > 0 /\ ~CitesOf(H[1], s)
      /\ \A j \in 1 .. n : CitesOf(H[j], s) =>
           \A u \in Ids : u # s /\ CitesOf(Last(H), u) => \A x \in j .. n : CitesOf(H[x], u)
  BY <1>2, SinceMail
<1> HIDE DEF H
<1>5. H # <<>> /\ n \in 1 .. n /\ Last(H) = H[n]
  BY <1>1, <1>2, <1>4 DEF Last
<1>6. FromCites(v)
  <2>1. FromCites(H[n])
    BY <1>1, <1>2, <1>5 DEF Grows
  <2> QED
    BY <1>3, <1>5, <2>1 DEF FromCites, CitesOf
<1>7. H[1].cites \subseteq v.cites
  <2>1. H[1].cites \subseteq H[n].cites
    BY <1>1, <1>2, <1>5 DEF Grows
  <2> QED
    BY <1>3, <1>4, <1>5, <2>1 DEF CitesOf
<1>8. v.cites \subseteq Last(H).cites
  BY <1>3
<1>9. ASSUME NEW u, CitesOf(v, u) PROVE u # s /\ CitesOf(Last(H), u)
  BY <1>3, <1>9 DEF CitesOf
<1>10. ASSUME NEW i \in 1 .. n, NEW t \in Ids, ~CitesOf(H[i], t), \A x \in i + 1 .. n : CitesOf(H[x], t), CitesOf(v, t)
       PROVE  H[i].cites \subseteq v.cites
  <2>1. t # s /\ CitesOf(Last(H), t)
    BY <1>9, <1>10
  <2>2. ~CitesOf(H[i], s)
    <3>1. i \in i .. n
      BY <1>2
    <3> QED
      BY <1>4, <1>10, <2>1, <3>1
  <2>3. H[i].cites \subseteq H[n].cites
    BY <1>1, <1>2, <1>5, <1>10 DEF Chain, Nested
  <2> QED
    BY <1>3, <1>5, <2>2, <2>3 DEF CitesOf
<1>11. ASSUME NEW j \in 1 .. n, NEW m \in Sources, NEW u \in Ids, v.by = <<m, 0>>, CitesOf(H[j], m), u # m,
              CitesOf(v, u), NEW x \in j .. n
       PROVE  CitesOf(H[x], u)
  <2>1. m = s
    BY <1>3, <1>11
  <2>2. CitesOf(Last(H), u)
    BY <1>9, <1>11
  <2> QED
    BY <1>4, <1>11, <2>1, <2>2
<1>12. \A c, d \in v.cites \ Last(H).cites : c[1] = d[1]
  BY <1>8
<1>13. Extends(H, v)
  BY <1>2, <1>5, <1>6, <1>7, <1>8, <1>10, <1>11, <1>12 DEF Extends
<1> QED
  BY <1>13 DEF H


\* Every overview is a chain, and what waits to be written extends it.
Chains ==
  /\ \A o \in Opps : Chain(history[o])
  /\ OneVersion(todo)
  /\ \A p \in 1 .. Len(todo) : todo[p].w = "version" => Extends(history[todo[p].o], todo[p].val)

\* An operation that takes the lock without a version.
LEMMA NoVersionTaken ==
  ASSUME Chains, history' = history, \A p \in 1 .. Len(todo') : todo'[p].w # "version"
  PROVE  Chains'
  BY DEF Chains, OneVersion

LEMMA SavedExtends ==
  ASSUME NEW H \in Seq(Version), Chain(H), NamesAssumption
  PROVE  Extends(H, SavedVersion(H))
<1>1. PICK n \in Nat : n = Len(H)
  OBVIOUS
<1>2. PICK e \in Ids \X Nat : e = <<None, n + 1>> /\ e[1] = None
  <2>1. <<None, n + 1>> \in Ids \X Nat /\ <<None, n + 1>>[1] = None
    BY <1>1 DEF Ids
  <2> QED
    BY <2>1
<1>3. {e[1]} \cap Sources = {}
  BY <1>2 DEF NamesAssumption
<1>4. /\ SavedVersion(H) \in Version /\ SavedVersion(H).rt = "model"
      /\ H = <<>> => SavedVersion(H).cites = {<<None, Len(H) + 1>>} /\ SavedVersion(H).from = {}
      /\ H # <<>> => SavedVersion(H).cites = Last(H).cites \cup {<<None, Len(H) + 1>>}
                     /\ SavedVersion(H).from = Last(H).from
  BY SavedType
<1> HIDE DEF Version
<1>5. /\ H = <<>> => SavedVersion(H).cites = {e} /\ SavedVersion(H).from = {e[1]} \cap Sources
      /\ H # <<>> => SavedVersion(H).cites = Last(H).cites \cup {e}
                     /\ SavedVersion(H).from = Last(H).from \cup ({e[1]} \cap Sources)
  BY <1>1, <1>2, <1>3, <1>4
<1> QED
  BY <1>4, <1>5, ModelExtends

LEMMA CommitExtends ==
  ASSUME CenterTypes, NEW s \in Sources, jobs[s].o \in Opps, CanPromote(jobs[s]), Chain(history[jobs[s].o])
  PROVE  Extends(history[jobs[s].o], NewVersion(s, jobs[s]))
<1> DEFINE j == jobs[s]
           H == history[j.o]
           v == NewVersion(s, j)
<1>1. H \in Seq(Version) /\ j.rev \in Nat
  BY DEF CenterTypes, StoredTypes, RunTypes, JobRec
<1>2. /\ v \in Version /\ v.rt = "model"
      /\ H = <<>> => v.cites = {<<s, j.rev>>} /\ v.from = {s}
      /\ H # <<>> => v.cites = Last(H).cites \cup {<<s, j.rev>>} /\ v.from = Last(H).from \cup {s}
  BY NewVersionType
<1>3. PICK e \in Ids \X Nat : e = <<s, j.rev>> /\ e[1] = s
  <2>1. <<s, j.rev>> \in Ids \X Nat /\ <<s, j.rev>>[1] = s
    BY <1>1 DEF Ids
  <2> QED
    BY <2>1
<1>4. {e[1]} \cap Sources = {s}
  BY <1>3
<1>5. Chain(H)
  OBVIOUS
<1> HIDE DEF v, H, j
<1>6. /\ H = <<>> => v.cites = {e} /\ v.from = {e[1]} \cap Sources
      /\ H # <<>> => v.cites = Last(H).cites \cup {e} /\ v.from = Last(H).from \cup ({e[1]} \cap Sources)
  BY <1>2, <1>3, <1>4
<1>7. Extends(H, v)
  BY <1>1, <1>2, <1>5, <1>6, ModelExtends
<1> QED
  BY <1>7 DEF v, H, j

LEMMA ChainsStep ==
  ASSUME NamesAssumption, CenterTypes, Chains, Kinds
  PROVE  Chains'
<1>0. StoredTypes /\ todo \in Seq(Writes) /\ history \in [Opps -> Seq(Version)]
  BY DEF CenterTypes, StoredTypes, RunTypes
<1>1. CASE Settled
  BY <1>1 DEF Settled, Chains, OneVersion
<1>2. ASSUME NEW o \in Opps, Saved(o) PROVE Chains'
  <2>1. todo' = <<>>
    BY <1>2, NothingTodo DEF Saved
  <2>2. history' = [history EXCEPT ![o] = Append(@, SavedVersion(@))]
    BY <1>2 DEF Saved
  <2>3. history[o] \in Seq(Version) /\ Chain(history[o])
    BY <1>0 DEF Chains
  <2>4. Chain(Append(history[o], SavedVersion(history[o])))
    BY <2>3, SavedExtends, ChainAppend
  <2>5. \A q \in Opps : Chain(history'[q])
    BY <1>0, <2>2, <2>4 DEF Chains
  <2> QED
    BY <2>1, <2>5 DEF Chains, OneVersion
<1>3. ASSUME NEW o \in Opps, ListTaken(o) PROVE Chains'
  <2>1. \A x \in AllRepaired(o) : x.w # "version"
    BY ModelVersions
  <2>2. \A p \in 1 .. Len(todo') : todo'[p].w # "version"
    BY <1>3, <2>1 DEF ListTaken
  <2> QED
    BY <1>3, <2>2, NoVersionTaken DEF ListTaken, Taken, stored
<1>4. ASSUME NEW o \in Opps, NEW s \in Sources, HumanTaken(o, s) PROVE Chains'
  <2>1. \A x \in Repaired(o, s) : x.w # "version"
    BY DEF Repaired, Records
  <2>2. \A x : MovedAction(o, s, x) \/ Records(x, o, s, Len(actions[o][s].trans) + 1) => x.w # "version"
    BY DEF MovedAction, Records
  <2>3. \A p \in 1 .. Len(todo') : todo'[p].w # "version"
    BY <1>4, <2>1, <2>2, HumanParts
  <2> QED
    BY <1>4, <2>3, NoVersionTaken DEF HumanTaken, Taken, stored
<1>5. ASSUME NEW s \in Sources, CommitTaken(s) PROVE Chains'
  <2> DEFINE j == jobs[s]
  <2>1. \A p \in 1 .. Len(todo') : todo'[p].w = "version" =>
          p = 2 /\ j.phase = "commit" /\ todo'[p].o = j.o /\ todo'[p].val = NewVersion(s, j)
    BY <1>5, CommitParts, FinishedWrites
  <2>2. j.phase = "commit" => CanPromote(j)
    <3>1. "commit" # "resume"
      OBVIOUS
    <3> QED
      BY <1>5, <3>1, CommitParts
  <2>3. j.o \in Opps /\ history' = history
    BY <1>5 DEF CommitTaken, Taken, stored
  <2>4. j.phase = "commit" => Extends(history[j.o], NewVersion(s, j))
    BY <2>2, <2>3, CommitExtends DEF Chains
  <2> HIDE DEF j
  <2> QED
    BY <2>1, <2>3, <2>4 DEF Chains, OneVersion
<1>6. ASSUME NEW s \in Sources, ForgetTaken(s) PROVE Chains'
  <2>1. (\A p \in 1 .. Len(todo') : todo'[p] \in Forgot(s)) /\ OneVersion(todo') /\ history' = history
    BY <1>6 DEF ForgetTaken, ForgettingOf, Taken, stored
  <2>2. ASSUME NEW p \in 1 .. Len(todo'), todo'[p].w = "version" PROVE Extends(history[todo'[p].o], todo'[p].val)
    <3>1. todo'[p] \in Writes /\ ForgetVersion(s, todo'[p].o, todo'[p].val)
      BY <2>1, <2>2 DEF Forgot, Logged
    <3>2. todo'[p].o \in Opps /\ todo'[p].val \in Version
      BY <2>2, <3>1, WriteTypes
    <3> QED
      BY <1>0, <3>1, <3>2, ForgetExtends DEF Chains
  <2> QED
    BY <2>1, <2>2 DEF Chains, OneVersion
<1>7. ASSUME NEW s \in Sources, NEW to \in Opps \cup {Unassociated}, CorrectTaken(s, to) PROVE Chains'
  <2>1. (\A p \in 1 .. Len(todo') : todo'[p] \in Corrected(s, to)) /\ history' = history
        /\ \A p, q \in 1 .. Len(todo') : todo'[p].w = "version" /\ todo'[q].w = "version" => p = q
    BY <1>7 DEF CorrectTaken, CorrectionFor, Taken, stored
  <2>2. ASSUME NEW p \in 1 .. Len(todo'), todo'[p].w = "version" PROVE Extends(history[todo'[p].o], todo'[p].val)
    <3>1. /\ todo'[p] \in Writes /\ todo'[p].o = ledger[s].assoc /\ RevertVersion(s, todo'[p].o, todo'[p].val)
          /\ CitesNow(todo'[p].o, s) /\ Associated(ledger[s]) /\ to # ledger[s].assoc /\ retired[todo'[p].o] = None
      BY <2>1, <2>2 DEF Corrected, Logged
    <3>2. todo'[p].o \in Opps /\ todo'[p].val \in Version
      BY <2>2, <3>1, WriteTypes
    <3>3. receipts[s] = "none" /\ CanCorrect(todo'[p].o, s)
      BY <1>7, <3>1 DEF CorrectTaken, Known
    <3>4. Inspect(todo'[p].o) # "withheld"
      BY <3>1, <3>3 DEF CanCorrect
    <3> QED
      BY <1>0, <3>1, <3>2, <3>3, <3>4, RevertExtends DEF Chains
  <2> QED
    BY <2>1, <2>2 DEF Chains, OneVersion
<1>8. CASE Written
  <2>1. todo # <<>> /\ todo' = Tail(todo) /\ Put(Head(todo))
    BY <1>8 DEF Written
  <2>2. /\ Len(todo) \in Nat /\ 1 \in 1 .. Len(todo) /\ Head(todo) = todo[1] /\ todo[1] \in Writes
        /\ \A p \in 1 .. Len(todo') : p + 1 \in 1 .. Len(todo) /\ todo'[p] = todo[p + 1]
    BY <1>0, <2>1, Popped
  <2>3. OneVersion(todo')
    <3> SUFFICES ASSUME NEW p \in 1 .. Len(todo'), NEW q \in 1 .. Len(todo'), todo'[p].w = "version",
                        todo'[q].w = "version", todo'[p].o = todo'[q].o
                 PROVE  p = q
      BY DEF OneVersion
    <3>1. p + 1 \in 1 .. Len(todo) /\ q + 1 \in 1 .. Len(todo) /\ todo'[p] = todo[p + 1] /\ todo'[q] = todo[q + 1]
      BY <2>2
    <3>2. p + 1 = q + 1
      BY <3>1 DEF Chains, OneVersion
    <3>3. p \in Int /\ q \in Int
      OBVIOUS
    <3> QED
      BY <3>2, <3>3
  <2>4. CASE todo[1].w # "version"
    <3>1. history' = history
      BY <2>1, <2>2, <2>4 DEF Put
    <3> QED
      BY <2>2, <2>3, <3>1 DEF Chains
  <2>5. CASE todo[1].w = "version"
    <3> DEFINE o == todo[1].o
    <3>1. history' = [history EXCEPT ![o] = Append(@, todo[1].val)] /\ o \in Opps
      BY <2>1, <2>2, <2>5, WriteTypes DEF Put
    <3>2. Chain(Append(history[o], todo[1].val))
      <4>1. Chain(history[o]) /\ Extends(history[o], todo[1].val) /\ history[o] \in Seq(Version)
        BY <1>0, <2>2, <2>5, <3>1 DEF Chains
      <4> QED
        BY <4>1, ChainAppend
    <3>3. \A q \in Opps : Chain(history'[q])
      BY <1>0, <3>1, <3>2 DEF Chains
    <3>4. ASSUME NEW p \in 1 .. Len(todo'), todo'[p].w = "version"
          PROVE  Extends(history'[todo'[p].o], todo'[p].val)
      <4>1. p + 1 \in 1 .. Len(todo) /\ todo'[p] = todo[p + 1] /\ p + 1 # 1
        BY <2>2
      <4>2. todo[p + 1].o # o
        BY <2>2, <2>5, <3>4, <4>1 DEF Chains, OneVersion
      <4>3. todo[p + 1] \in Writes /\ todo[p + 1].o \in Opps
        BY <1>0, <3>4, <4>1, WriteTypes
      <4>4. history'[todo'[p].o] = history[todo'[p].o]
        BY <1>0, <3>1, <4>1, <4>2, <4>3
      <4> QED
        BY <3>4, <4>1, <4>4 DEF Chains
    <3> QED
      BY <2>3, <3>3, <3>4 DEF Chains
  <2> QED
    BY <2>4, <2>5
<1>9. CASE Stopped
  <2>1. todo' = <<>> /\ history' = history
    BY <1>9 DEF Stopped
  <2> QED
    BY <2>1 DEF Chains, OneVersion
<1> QED
  BY <1>1, <1>2, <1>3, <1>4, <1>5, <1>6, <1>7, <1>8, <1>9 DEF Kinds

LEMMA ChainsInit ==
  ASSUME NamesAssumption, CenterTypes, Init
  PROVE  Chains
<1>1. Chain(<<>>)
  BY DEF Chain, Grows, Nested, Removes
<1>2. <<>> \in Seq(Version)
  BY SeqNone
<1>3. Chain(Append(<<>>, SavedVersion(<<>>)))
  BY <1>1, <1>2, SavedExtends, ChainAppend
<1>4. <<SavedVersion(<<>>)>> = Append(<<>>, SavedVersion(<<>>))
  OBVIOUS
<1>5. \A o \in Opps : history[o] = <<>> \/ history[o] = <<SavedVersion(<<>>)>>
  BY DEF Init
<1>6. todo = <<>>
  BY DEF Init
<1>7. \A o \in Opps : Chain(history[o])
  BY <1>1, <1>3, <1>4, <1>5
<1> QED
  BY <1>6, <1>7 DEF Chains, OneVersion

\* What a reader can see of a chain comes from no forgotten mail.
LEMMA ChainIsClean ==
  ASSUME Chains
  PROVE  VisibleIsClean
<1> SUFFICES ASSUME NEW o \in Opps, NEW i \in Visible(o), NEW s \in history[o][i].from, s \in Forgotten
             PROVE  FALSE
  BY DEF VisibleIsClean
<1>1. i \in 1 .. Len(history[o]) /\ Tainted(o, i) = {}
  BY DEF Visible
<1>2. CitesOf(history[o][i], s)
  BY <1>1 DEF Chains, Chain, Grows, FromCites
<1>3. i \in 1 .. i /\ \A k \in i .. i : k = i
  BY <1>1
<1> QED
  BY <1>1, <1>2, <1>3 DEF Tainted


-----------------------------------------------------------------------------
(* What an opportunity shows belongs to it.                                *)

\* The source whose association is being corrected.
Moving == IF work.kind = "correct" THEN work.s ELSE None

InOverview(o, s) == retired[o] = None /\ history[o] # <<>> /\ CitesOf(Last(history[o]), s)
InAction(o, s)   == retired[o] # s /\ Exists(actions[o][s]) /\ ~actions[o][s].retracted
InHint(o, s, t)  == \E h \in actions[o][t].hints : h.src = s /\ h.live
Shows(o, s)      == InOverview(o, s) \/ InAction(o, s) \/ \E t \in Sources : InHint(o, s, t)

\* A source that an opportunity may show.
Belonging(o, s) == s \notin Forgotten => s # Moving /\ ledger[s].assoc = o

Shown == \A o \in Opps : \A s \in Sources : Shows(o, s) /\ s # Moving => Belonging(o, s)

\* The next write is the receipt of t.
Barred(t) == todo # <<>> /\ todo[1].w = "receipt" /\ todo[1].s = t

\* A write puts only sources into a view that belong there, and moves none but
\* the one that is corrected.
Proper(x) ==
  /\ x.w = "version" => \A s \in Sources : CitesOf(x.val, s) => Belonging(x.o, s)
  /\ x.w = "action" => /\ Exists(x.val) /\ ~x.val.retracted /\ retired[x.o] # x.s => Belonging(x.o, x.s)
                       /\ \A h \in x.val.hints : h.live => Belonging(x.o, h.src)
  /\ x.w = "retired" => x.val = Moving /\ retired[x.o] \in {None, x.val}
  /\ x.w = "source" => x.s = Moving \/ x.val.assoc = ledger[x.s].assoc \/ x.s \in Forgotten \/ Barred(x.s)

AllProper == \A p \in 1 .. Len(todo) : Proper(todo[p])

\* A correction to f has a write left for everything that it still has to take
\* the source s from.
MoveLeft(s, f) ==
  /\ \A p \in 1 .. Len(todo) : todo[p].w = "source" /\ todo[p].s = s => todo[p].val.assoc = f
  /\ ~WritesSource(todo, s) => ledger[s].assoc = f
  /\ \A o \in Opps \ {f} :
       /\ InOverview(o, s) => WritesVersion(todo, o) \/ WritesRetired(todo, o)
       /\ InAction(o, s) => WritesAction(todo, o, s)
       /\ \A t \in Sources : InHint(o, s, t) => WritesAction(todo, o, t)

Completes == work.kind = "correct" =>
               work.s \in Sources /\ (work.s \notin Forgotten => \E f \in Places : MoveLeft(work.s, f))

Effects == Shown /\ AllProper /\ Completes

LEMMA IdleMoving == ASSUME Idle PROVE Moving = None /\ work.kind = "none"
  BY DEF Idle, Moving, NoWork

\* An operation that takes the lock finds every view in order.
LEMMA TakenShown ==
  ASSUME NamesAssumption, CenterTypes, Shown, NEW kind, NEW s, Taken(kind, s)
  PROVE  /\ Shown'
         /\ Moving' = (IF kind = "correct" THEN s ELSE None)
         /\ \A o \in Opps, t \in Sources : Shows(o, t) => t \in Forgotten \/ ledger[t].assoc = o
         /\ \A o, t : Belonging(o, t)' <=> (t \notin Forgotten => t # Moving' /\ ledger[t].assoc = o)
<1>1. /\ Idle /\ work'.kind = kind /\ work'.s = s /\ ledger' = ledger /\ receipts' = receipts /\ history' = history
      /\ retired' = retired /\ actions' = actions
  BY DEF Taken, stored
<1>2. Moving = None /\ Moving' = (IF kind = "correct" THEN s ELSE None)
  BY <1>1, IdleMoving DEF Moving
<1>3. \A o \in Opps, t \in Sources : Shows(o, t) => t \in Forgotten \/ ledger[t].assoc = o
  BY <1>2 DEF Shown, Belonging, NamesAssumption
<1>4. Forgotten' = Forgotten
  BY <1>1 DEF Forgotten
<1>5. \A o, t : Belonging(o, t)' <=> (t \notin Forgotten => t # Moving' /\ ledger[t].assoc = o)
  BY <1>1, <1>4 DEF Belonging
<1>6. \A o \in Opps, t \in Sources : Shows(o, t)' => Shows(o, t)
  BY <1>1 DEF Shows, InOverview, InAction, InHint
<1>7. Shown'
  BY <1>3, <1>5, <1>6 DEF Shown
<1> QED
  BY <1>2, <1>3, <1>5, <1>7

\* An action that a retraction writes.
LEMMA RetractedProper ==
  ASSUME NamesAssumption, CenterTypes, NEW s \in Sources, NEW x \in Writes, x.w = "action", RetractedAction(s, x.o, x),
         retired' = retired, x.o \in Opps,
         \A t \in Sources : Shows(x.o, t) /\ t # s => Belonging(x.o, t)'
  PROVE  Proper(x)'
<1>1. x.s \in Sources /\ x.val \in Action /\ x.o \in Opps
  BY WriteTypes
<1>2. /\ x.val.trans = actions[x.o][x.s].trans
      /\ actions[x.o][x.s].retracted => x.val.retracted
      /\ x.s = s /\ x.val.trans # <<>> => x.val.retracted
      /\ \A h \in x.val.hints : h.live => h.src # s /\ \E k \in actions[x.o][x.s].hints : k.live /\ k.src = h.src
  BY DEF RetractedAction
<1>3. ASSUME Exists(x.val), ~x.val.retracted, retired[x.o] # x.s PROVE Belonging(x.o, x.s)'
  <2>1. x.s # s
    BY <1>2, <1>3 DEF Exists
  <2>2. InAction(x.o, x.s)
    BY <1>2, <1>3 DEF InAction, Exists
  <2> QED
    BY <1>1, <2>1, <2>2 DEF Shows
<1>4. ASSUME NEW h \in x.val.hints, h.live PROVE Belonging(x.o, h.src)'
  <2>1. h.src # s /\ InHint(x.o, h.src, x.s)
    BY <1>2, <1>4 DEF InHint
  <2>2. h.src \in Sources
    BY <1>1, <1>4 DEF Action, Hint
  <2> QED
    BY <1>1, <2>1, <2>2 DEF Shows
<1> QED
  BY <1>3, <1>4 DEF Proper

\* A write that puts nothing into a view.
LEMMA PlainProper ==
  ASSUME NEW x, x.w \in {"change", "pending", "receipt"}
  PROVE  Proper(x)'
  BY DEF Proper

LEMMA EffectsHuman ==
  ASSUME NamesAssumption, CenterTypes, Effects, NEW o \in Opps, NEW s \in Sources, HumanTaken(o, s)
  PROVE  Effects'
<1>1. Taken("human", s) /\ HumanMay(o, s) /\ Shown
  BY DEF HumanTaken, Effects
<1>2. /\ Shown' /\ Moving' = None
      /\ \A q \in Opps, t \in Sources : Shows(q, t) => t \in Forgotten \/ ledger[t].assoc = q
      /\ \A q, t : Belonging(q, t)' <=> (t \notin Forgotten => t # Moving' /\ ledger[t].assoc = q)
  BY <1>1, TakenShown
<1>3. \A q \in Opps, t \in Sources : Shows(q, t) => Belonging(q, t)'
  BY <1>2 DEF NamesAssumption
<1>4. ASSUME NEW p \in 1 .. Len(todo') PROVE Proper(todo[p])'
  <2>1. \/ todo'[p] \in Repaired(o, s)
        \/ MovedAction(o, s, todo'[p])
        \/ Records(todo'[p], o, s, Len(actions[o][s].trans) + 1)
    BY HumanParts
  <2>2. PICK x : x = todo'[p]
    OBVIOUS
  <2>3. CASE ~MovedAction(o, s, x)
    <3>1. x.w = "change"
      BY <2>1, <2>2, <2>3 DEF Repaired, Records
    <3> QED
      BY <2>2, <3>1, PlainProper DEF Proper
  <2>4. CASE MovedAction(o, s, x)
    <3>1. /\ x.w = "action" /\ x.o = o /\ x.s = s
          /\ x.val.retracted = actions[o][s].retracted /\ x.val.hints = actions[o][s].hints
      BY <2>4 DEF MovedAction
    <3>2. Exists(actions[o][s]) /\ retired[o] # s
      BY <1>1 DEF HumanMay, ActionRetired
    <3>3. retired' = retired
      BY <1>1 DEF Taken, stored
    <3>4. ~x.val.retracted => Belonging(o, s)'
      BY <1>3, <3>1, <3>2 DEF Shows, InAction
    <3>5. ASSUME NEW h \in x.val.hints, h.live PROVE Belonging(o, h.src)'
      <4>1. actions[o][s] \in Action
        BY DEF CenterTypes, StoredTypes
      <4>2. h.src \in Sources /\ InHint(o, h.src, s)
        BY <3>1, <3>5, <4>1 DEF Action, Hint, InHint
      <4> QED
        BY <1>3, <4>2 DEF Shows
    <3>6. Proper(x)'
      BY <3>1, <3>4, <3>5 DEF Proper
    <3> QED
      BY <2>2, <3>6 DEF Proper
  <2> QED
    BY <2>3, <2>4
<1>5. work'.kind # "correct"
  BY <1>1 DEF Taken
<1> QED
  BY <1>2, <1>4, <1>5 DEF Effects, AllProper, Completes


LEMMA EffectsList ==
  ASSUME NamesAssumption, CenterTypes, Effects, NEW o \in Opps, ListTaken(o)
  PROVE  Effects'
<1>1. Taken("repair", None) /\ Shown
  BY DEF ListTaken, Effects
<1>2. Shown'
  BY <1>1, TakenShown
<1>3. ASSUME NEW p \in 1 .. Len(todo') PROVE Proper(todo[p])'
  <2>1. \A x \in AllRepaired(o) : x.w = "change"
    BY ModelVersions
  <2>2. todo'[p].w = "change"
    BY <2>1 DEF ListTaken
  <2> QED
    BY <2>2 DEF Proper
<1>4. work'.kind # "correct"
  BY <1>1 DEF Taken
<1> QED
  BY <1>2, <1>3, <1>4 DEF Effects, AllProper, Completes

\* What an application writes.
LEMMA AppliedProper ==
  ASSUME NamesAssumption, CenterTypes, NEW o \in Opps, NEW s \in Sources, NEW x \in Writes, AppliedAction(o, s, x),
         retired' = retired, \A t \in Sources : Shows(o, t) => Belonging(o, t)', Belonging(o, s)'
  PROVE  Proper(x)'
<1>1. /\ x.w = "action" /\ x.o = o
      /\ \/ /\ x.val.trans = actions[o][x.s].trans /\ x.val.trans # <<>>
            /\ x.val.retracted = actions[o][x.s].retracted
         \/ x.s = s
  BY DEF AppliedAction
<1>2. x.s \in Sources /\ x.val \in Action
  BY <1>1, WriteTypes
<1>3. ASSUME Exists(x.val), ~x.val.retracted, retired[x.o] # x.s PROVE Belonging(x.o, x.s)'
  <2>1. CASE x.s = s
    BY <1>1, <2>1
  <2>2. CASE x.s # s
    <3>1. InAction(o, x.s)
      BY <1>1, <1>3, <2>2 DEF InAction, Exists
    <3> QED
      BY <1>1, <1>2, <3>1 DEF Shows
  <2> QED
    BY <2>1, <2>2
<1>4. ASSUME NEW h \in x.val.hints, h.live PROVE Belonging(x.o, h.src)'
  <2>1. h \in actions[o][x.s].hints \/ h.src = s
    BY <1>1, <1>4 DEF AppliedAction
  <2>2. h.src \in Sources
    BY <1>2, <1>4 DEF Action, Hint
  <2>3. h \in actions[o][x.s].hints => InHint(o, h.src, x.s)
    BY <1>4 DEF InHint
  <2> QED
    BY <1>1, <1>2, <2>1, <2>2, <2>3 DEF Shows
<1> QED
  BY <1>1, <1>3, <1>4 DEF Proper

LEMMA EffectsCommit ==
  ASSUME NamesAssumption, CenterTypes, Effects, NEW s \in Sources, CommitTaken(s)
  PROVE  Effects'
<1> DEFINE j == jobs[s]
<1>0. PICK o \in Opps : o = j.o
  BY DEF CommitTaken
<1>1. /\ Taken("commit", s) /\ Shown /\ receipts[s] = "none" /\ ledger[s].assoc = o
      /\ retired[o] = None
  BY <1>0 DEF CommitTaken, Effects, SourceUnchanged
<1>2. /\ Shown' /\ Moving' = None
      /\ \A q \in Opps, t \in Sources : Shows(q, t) => t \in Forgotten \/ ledger[t].assoc = q
      /\ \A q, t : Belonging(q, t)' <=> (t \notin Forgotten => t # Moving' /\ ledger[t].assoc = q)
  BY <1>1, TakenShown
<1>3. \A q \in Opps, t \in Sources : Shows(q, t) => Belonging(q, t)'
  BY <1>2 DEF NamesAssumption
<1>4. Belonging(o, s)'
  BY <1>1, <1>2 DEF NamesAssumption
<1>5. retired' = retired /\ ledger' = ledger /\ receipts' = receipts
  BY <1>1 DEF Taken, stored
<1>6. ASSUME NEW p \in 1 .. Len(todo') PROVE Proper(todo[p])'
  <2>1. SUFFICES ASSUME NEW x, x = todo'[p] PROVE Proper(x)'
    BY DEF Proper
  <2>2. \/ x \in Finished(o, s)
        \/ j.phase = "commit" /\ x.w = "version" /\ x.o = o /\ x.val = NewVersion(s, j)
    BY <1>0, <2>1, CommitParts
  <2>3. CASE x \in Finished(o, s)
    <3>1. x \in Writes
      BY <2>3, FinishedWrites
    <3>2. CASE AppliedAction(o, s, x)
      BY <1>1, <1>3, <1>4, <1>5, <3>1, <3>2, AppliedProper
    <3>3. CASE x.w = "source" /\ x.s = s /\ SameEvidence(x.val, ledger[s])
      BY <1>5, <3>3 DEF Proper, SameEvidence
    <3>4. CASE x.w \in {"change", "pending"}
      BY <3>4, PlainProper
    <3> QED
      BY <2>3, <3>2, <3>3, <3>4 DEF Finished, Applied, Logged
  <2>4. CASE j.phase = "commit" /\ x.w = "version" /\ x.o = o /\ x.val = NewVersion(s, j)
    <3>1. CanPromote(j)
      <4>1. j.phase # "resume"
        BY <2>4
      <4> QED
        BY <4>1, CommitParts
    <3>2. /\ history[o] = <<>> => x.val.cites = {<<s, j.rev>>}
          /\ history[o] # <<>> => x.val.cites = Last(history[o]).cites \cup {<<s, j.rev>>}
      BY <1>0, <2>4, <3>1, NewVersionType
    <3>3. ASSUME NEW t \in Sources, CitesOf(x.val, t) PROVE Belonging(o, t)'
      <4>1. t = s \/ InOverview(o, t)
        BY <1>1, <3>2, <3>3 DEF CitesOf, InOverview
      <4> QED
        BY <1>1, <1>3, <1>4, <4>1 DEF Shows
    <3> QED
      BY <2>4, <3>3 DEF Proper
  <2>5. Proper(x)'
    BY <2>2, <2>3, <2>4
  <2> QED
    BY <2>5
<1>7. work'.kind # "correct"
  BY <1>1 DEF Taken
<1> QED
  BY <1>2, <1>6, <1>7 DEF Effects, AllProper, Completes

LEMMA EffectsForget ==
  ASSUME NamesAssumption, CenterTypes, Chains, Effects, NEW s \in Sources, ForgetTaken(s)
  PROVE  Effects'
<1>1. Taken("forget", s) /\ Shown /\ StoredTypes
  BY DEF ForgetTaken, Effects, CenterTypes
<1>2. /\ Shown' /\ Moving' = None
      /\ \A q \in Opps, t \in Sources : Shows(q, t) => t \in Forgotten \/ ledger[t].assoc = q
      /\ \A q, t : Belonging(q, t)' <=> (t \notin Forgotten => t # Moving' /\ ledger[t].assoc = q)
  BY <1>1, TakenShown
<1>3. \A q \in Opps, t \in Sources : Shows(q, t) => Belonging(q, t)'
  BY <1>2 DEF NamesAssumption
<1>4. retired' = retired /\ ledger' = ledger /\ receipts' = receipts /\ todo' # <<>>
  BY <1>1 DEF Taken, stored
<1>5. ASSUME NEW p \in 1 .. Len(todo') PROVE Proper(todo[p])'
  <2>1. SUFFICES ASSUME NEW x, x = todo'[p] PROVE Proper(x)'
    BY DEF Proper
  <2>2. x \in Forgot(s) /\ x \in Writes
    BY <2>1 DEF ForgetTaken, ForgettingOf, Forgot
  <2>3. CASE x.w = "action"
    <3>1. RetractedAction(s, x.o, x) /\ x.o \in Opps
      BY <2>2, <2>3, WriteTypes DEF Forgot, Logged
    <3> QED
      BY <1>3, <1>4, <2>2, <2>3, <3>1, RetractedProper
  <2>4. CASE x.w = "version"
    <3>1. ForgetVersion(s, x.o, x.val) /\ x.o \in Opps
      BY <2>2, <2>4, WriteTypes DEF Forgot, Logged
    <3>2. Len(history[x.o]) > 0
      BY <1>1, <3>1, SinceMail DEF Chains
    <3>3. history[x.o] # <<>> /\ retired[x.o] = None /\ x.val.cites \subseteq Last(history[x.o]).cites
      BY <3>1, <3>2 DEF ForgetVersion
    <3>4. ASSUME NEW t \in Sources, CitesOf(x.val, t) PROVE Belonging(x.o, t)'
      <4>1. InOverview(x.o, t)
        BY <3>3, <3>4 DEF InOverview, CitesOf
      <4> QED
        BY <1>3, <3>1, <4>1 DEF Shows
    <3> QED
      BY <2>4, <3>4 DEF Proper
  <2>5. CASE x.w = "source"
    <3>1. x.s = s
      BY <2>2, <2>5 DEF Forgot, Logged
    <3>2. s \in Forgotten' \/ receipts[s] = "none"
      BY <1>4 DEF Forgotten
    <3>3. receipts[s] = "none" => Barred(s)'
      BY <1>4 DEF ForgetTaken, ForgettingOf, Barred
    <3> QED
      BY <2>5, <3>1, <3>2, <3>3 DEF Proper
  <2>6. CASE x.w \notin {"action", "version", "source"}
    <3>1. x.w \in {"change", "pending", "receipt"}
      BY <2>2, <2>6 DEF Forgot, Logged
    <3> QED
      BY <3>1, PlainProper
  <2>7. Proper(x)'
    BY <2>3, <2>4, <2>5, <2>6
  <2> QED
    BY <2>7
<1>6. work'.kind # "correct"
  BY <1>1 DEF Taken
<1> QED
  BY <1>2, <1>5, <1>6 DEF Effects, AllProper, Completes

LEMMA EffectsCorrect ==
  ASSUME NamesAssumption, CenterTypes, Chains, Effects, NEW s \in Sources, NEW to \in Opps \cup {Unassociated},
         CorrectTaken(s, to)
  PROVE  Effects'
<1>1. Taken("correct", s) /\ Shown /\ StoredTypes /\ receipts[s] = "none" /\ s \notin Forgotten
  BY DEF CorrectTaken, Effects, CenterTypes, Known, Forgotten
<1>2. /\ Shown' /\ Moving' = s
      /\ \A q \in Opps, t \in Sources : Shows(q, t) => t \in Forgotten \/ ledger[t].assoc = q
      /\ \A q, t : Belonging(q, t)' <=> (t \notin Forgotten => t # Moving' /\ ledger[t].assoc = q)
  BY <1>1, TakenShown
<1>3. \A q \in Opps, t \in Sources : Shows(q, t) /\ t # s => Belonging(q, t)'
  BY <1>2
<1>4. /\ retired' = retired /\ ledger' = ledger /\ receipts' = receipts /\ history' = history /\ actions' = actions
      /\ work'.kind = "correct" /\ work'.s = s /\ Forgotten' = Forgotten
  BY <1>1 DEF Taken, stored, Forgotten
<1>5. \A p \in 1 .. Len(todo') : todo'[p] \in Corrected(s, to)
  BY DEF CorrectTaken, CorrectionFor
<1>6. ASSUME NEW p \in 1 .. Len(todo') PROVE Proper(todo[p])'
  <2>1. SUFFICES ASSUME NEW x, x = todo'[p] PROVE Proper(x)'
    BY DEF Proper
  <2>2. x \in Corrected(s, to) /\ x \in Writes
    BY <1>5, <2>1 DEF Corrected
  <2>3. CASE x.w = "action"
    <3>1. RetractedAction(s, x.o, x) /\ x.o \in Opps
      BY <2>2, <2>3, WriteTypes DEF Corrected, Logged
    <3> QED
      BY <1>3, <1>4, <2>2, <2>3, <3>1, RetractedProper
  <2>4. CASE x.w = "version"
    <3>1. /\ x.o = ledger[s].assoc /\ RevertVersion(s, x.o, x.val) /\ CitesNow(x.o, s)
          /\ Associated(ledger[s]) /\ to # ledger[s].assoc /\ retired[x.o] = None
      BY <2>2, <2>4 DEF Corrected, Logged
    <3>2. x.o \in Opps /\ x.val \in Version
      BY <2>2, <2>4, WriteTypes
    <3>3. CanCorrect(x.o, s)
      BY <3>1 DEF CorrectTaken
    <3>4. Inspect(x.o) # "withheld"
      BY <3>1, <3>3 DEF CanCorrect
    <3>5. x.val.cites \subseteq Last(history[x.o]).cites /\ ~CitesOf(x.val, s)
      BY <1>1, <3>1, <3>2, <3>4, RevertExtends DEF Chains
    <3>6. ASSUME NEW t \in Sources, CitesOf(x.val, t) PROVE Belonging(x.o, t)'
      <4>1. InOverview(x.o, t) /\ t # s
        BY <3>1, <3>5, <3>6 DEF InOverview, CitesOf, CitesNow
      <4> QED
        BY <1>3, <3>2, <4>1 DEF Shows
    <3> QED
      BY <2>4, <3>6 DEF Proper
  <2>5. CASE x.w = "source"
    <3>1. x.s = s \/ Steady(x.val, ledger[x.s])
      BY <2>2, <2>5 DEF Corrected, Logged
    <3> QED
      BY <1>2, <1>4, <2>5, <3>1 DEF Proper, Steady, SameEvidence
  <2>6. CASE x.w = "retired"
    <3>1. x.val = s /\ retired[x.o] = None
      BY <2>2, <2>6 DEF Corrected, Logged
    <3> QED
      BY <1>2, <1>4, <2>6, <3>1 DEF Proper
  <2>7. CASE x.w \notin {"action", "version", "source", "retired"}
    <3>1. x.w \in {"change", "pending"}
      BY <2>2, <2>7 DEF Corrected, Logged
    <3> QED
      BY <3>1, PlainProper
  <2>8. Proper(x)'
    BY <2>3, <2>4, <2>5, <2>6, <2>7
  <2> QED
    BY <2>8
<1>7. MoveLeft(s, to)'
  <2>1. CorrectionFor(todo', s, to)
    BY DEF CorrectTaken
  <2>2. \A p \in 1 .. Len(todo') : todo'[p].w = "source" /\ todo'[p].s = s => todo'[p].val.assoc = to
    BY <1>5 DEF Corrected, Logged
  <2>3. ~WritesSource(todo', s) => ledger[s].assoc = to
    BY <2>1 DEF CorrectionFor
  <2>4. ASSUME NEW q \in Opps \ {to}, Shows(q, s) PROVE q = ledger[s].assoc /\ Associated(ledger[s]) /\ to # ledger[s].assoc
    BY <1>1, <1>2, <2>4 DEF Associated
  <2>5. ASSUME NEW q \in Opps \ {to}, InOverview(q, s) PROVE WritesVersion(todo', q) \/ WritesRetired(todo', q)
    <3>1. q = ledger[s].assoc /\ Associated(ledger[s]) /\ to # ledger[s].assoc
      BY <2>4, <2>5 DEF Shows
    <3>2. retired[q] = None /\ CitesNow(q, s)
      BY <2>5 DEF InOverview, CitesNow
    <3> QED
      BY <2>1, <3>1, <3>2 DEF CorrectionFor
  <2>6. ASSUME NEW q \in Opps \ {to}, InAction(q, s) PROVE WritesAction(todo', q, s)
    <3>1. q = ledger[s].assoc /\ Associated(ledger[s]) /\ to # ledger[s].assoc
      BY <2>4, <2>6 DEF Shows
    <3> QED
      BY <2>1, <2>6, <3>1 DEF CorrectionFor, InAction
  <2>7. ASSUME NEW q \in Opps \ {to}, NEW t \in Sources, InHint(q, s, t) PROVE WritesAction(todo', q, t)
    <3>1. q = ledger[s].assoc /\ Associated(ledger[s]) /\ to # ledger[s].assoc
      BY <2>4, <2>7 DEF Shows
    <3> QED
      BY <2>1, <2>7, <3>1 DEF CorrectionFor, InHint
  <2>8. \A q, t : /\ InOverview(q, s)' => InOverview(q, s)
                  /\ InAction(q, s)' => InAction(q, s)
                  /\ InHint(q, s, t)' => InHint(q, s, t)
    BY <1>4 DEF InOverview, InAction, InHint
  <2> QED
    BY <1>4, <2>2, <2>3, <2>5, <2>6, <2>7, <2>8 DEF MoveLeft, WritesSource, WritesVersion, WritesRetired, WritesAction
<1>8. to \in Places
  BY DEF Places
<1>9. Completes'
  BY <1>4, <1>7, <1>8 DEF Completes, MoveLeft
<1> QED
  BY <1>2, <1>6, <1>9 DEF Effects, AllProper


LEMMA EffectsSettled ==
  ASSUME NamesAssumption, CenterTypes, Effects, Settled
  PROVE  Effects'
<1>1. /\ receipts' = receipts /\ history' = history /\ retired' = retired /\ actions' = actions
      /\ work' = work /\ todo' = todo /\ \A t \in Sources : Calm(ledger'[t], ledger[t])
      /\ Idle \/ ledger' = ledger
  BY DEF Settled
<1>2. Moving' = Moving /\ Forgotten' = Forgotten
  BY <1>1 DEF Moving, Forgotten
<1>3. \A o \in Opps, s \in Sources : ledger[s].assoc = o => ledger'[s].assoc = o
  BY <1>1 DEF Calm, Associated
<1>4. Shown'
  <2> SUFFICES ASSUME NEW o \in Opps, NEW s \in Sources, Shows(o, s)', s # Moving', s \notin Forgotten'
               PROVE  s # Moving' /\ ledger'[s].assoc = o
    BY DEF Shown, Belonging
  <2>1. Shows(o, s)
    BY <1>1 DEF Shows, InOverview, InAction, InHint
  <2>2. Belonging(o, s) /\ s \notin Forgotten
    BY <1>2, <2>1 DEF Effects, Shown
  <2> QED
    BY <1>3, <2>2 DEF Belonging
<1>5. CASE Idle
  <2>1. todo' = <<>> /\ work'.kind = "none"
    BY <1>1, <1>5, NothingTodo, IdleMoving
  <2> QED
    BY <1>4, <2>1 DEF Effects, AllProper, Completes
<1>6. CASE ~Idle
  <2>1. ledger' = ledger
    BY <1>1, <1>6
  <2>2. AllProper' /\ Completes'
    BY <1>1, <1>2, <2>1 DEF Effects, AllProper, Proper, Belonging, Barred, Completes, MoveLeft, InOverview, InAction, InHint,
                            Moving, Forgotten
  <2> QED
    BY <1>4, <2>2 DEF Effects
<1> QED
  BY <1>5, <1>6

LEMMA EffectsStopped ==
  ASSUME NamesAssumption, CenterTypes, Effects, Stopped, work.kind # "correct"
  PROVE  Effects'
<1>1. /\ receipts' = receipts /\ history' = history /\ retired' = retired /\ actions' = actions /\ ledger' = ledger
      /\ work' = NoWork /\ todo' = <<>>
  BY DEF Stopped
<1>2. Moving' = None /\ Moving = None /\ Forgotten' = Forgotten /\ work'.kind = "none"
  BY <1>1 DEF Moving, Forgotten, NoWork
<1>3. Shown'
  <2> SUFFICES ASSUME NEW o \in Opps, NEW s \in Sources, Shows(o, s)', s # Moving', s \notin Forgotten'
               PROVE  s # Moving' /\ ledger'[s].assoc = o
    BY DEF Shown, Belonging
  <2>1. Shows(o, s)
    BY <1>1 DEF Shows, InOverview, InAction, InHint
  <2>2. Belonging(o, s) /\ s \notin Forgotten
    BY <1>2, <2>1 DEF Effects, Shown
  <2> QED
    BY <1>1, <2>2 DEF Belonging
<1> QED
  BY <1>1, <1>2, <1>3 DEF Effects, AllProper, Completes

LEMMA EffectsSaved ==
  ASSUME NamesAssumption, CenterTypes, Effects, NEW q \in Opps, Saved(q)
  PROVE  Effects'
<1>1. /\ receipts' = receipts /\ retired' = retired /\ actions' = actions /\ ledger' = ledger
      /\ work' = work /\ todo' = todo /\ Idle /\ history' = [history EXCEPT ![q] = Append(@, SavedVersion(@))]
  BY DEF Saved
<1>2. Moving' = Moving /\ Forgotten' = Forgotten /\ work'.kind = "none" /\ todo' = <<>>
  BY <1>1, NothingTodo, IdleMoving DEF Moving, Forgotten
<1>3. history \in [Opps -> Seq(Version)] /\ history[q] \in Seq(Version)
  BY DEF CenterTypes, StoredTypes
<1>4. Shown'
  <2> SUFFICES ASSUME NEW o \in Opps, NEW s \in Sources, Shows(o, s)', s # Moving', s \notin Forgotten'
               PROVE  s # Moving' /\ ledger'[s].assoc = o
    BY DEF Shown, Belonging
  <2>1. Shows(o, s)
    <3>1. CASE o # q
      <4>1. history'[o] = history[o]
        BY <1>1, <1>3, <3>1
      <4> QED
        BY <1>1, <4>1 DEF Shows, InOverview, InAction, InHint
    <3>2. CASE o = q
      <4> DEFINE H == history[q]
      <4>1. history'[o] = Append(H, SavedVersion(H))
        BY <1>1, <1>3, <3>2
      <4>2. /\ SavedVersion(H) \in Version
            /\ H = <<>> => SavedVersion(H).cites = {<<None, Len(H) + 1>>}
            /\ H # <<>> => SavedVersion(H).cites = Last(H).cites \cup {<<None, Len(H) + 1>>}
        BY <1>3, SavedType
      <4>3. Last(history'[o]) = SavedVersion(H)
        BY <1>3, <4>1, <4>2, Appended
      <4>4. s # None
        BY DEF NamesAssumption
      <4>5. CitesOf(SavedVersion(H), s) => H # <<>> /\ CitesOf(Last(H), s)
        BY <4>2, <4>4 DEF CitesOf
      <4>6. InOverview(o, s)' => InOverview(o, s)
        BY <1>1, <3>2, <4>3, <4>5 DEF InOverview
      <4> QED
        BY <1>1, <4>6 DEF Shows, InAction, InHint
    <3> QED
      BY <3>1, <3>2
  <2>2. Belonging(o, s) /\ s \notin Forgotten
    BY <1>2, <2>1 DEF Effects, Shown
  <2> QED
    BY <1>1, <1>2, <2>2 DEF Belonging
<1> QED
  BY <1>2, <1>4 DEF Effects, AllProper, Completes

\* What the next write does to the rest.
LEMMA HeadWritten ==
  ASSUME NamesAssumption, CenterTypes, Effects, Written
  PROVE  /\ 1 \in 1 .. Len(todo) /\ todo[1] \in Writes /\ Proper(todo[1]) /\ Put(todo[1])
         /\ \A p \in 1 .. Len(todo') : p + 1 \in 1 .. Len(todo) /\ todo'[p] = todo[p + 1]
         /\ \A p \in 1 .. Len(todo) : p = 1 \/ (p - 1 \in 1 .. Len(todo') /\ todo'[p - 1] = todo[p])
         /\ \A t \in Sources : t \in Forgotten => t \in Forgotten'
         /\ \A t \in Sources : t \notin Forgotten' /\ t # Moving => ledger'[t].assoc = ledger[t].assoc
         /\ \A o \in Opps, t \in Sources : retired'[o] # t => retired[o] # t
         /\ \A o \in Opps : retired'[o] = None => retired[o] = None
         /\ todo' # <<>> => Moving' = Moving
         /\ todo' = <<>> => Moving' = None /\ work'.kind = "none"
<1>1. todo \in Seq(Writes) /\ todo # <<>> /\ todo' = Tail(todo) /\ Put(Head(todo))
  BY DEF Written, CenterTypes, RunTypes
<1>2. /\ 1 \in 1 .. Len(todo) /\ todo[1] = Head(todo) /\ todo[1] \in Writes
      /\ \A p \in 1 .. Len(todo') : p + 1 \in 1 .. Len(todo) /\ todo'[p] = todo[p + 1]
      /\ \A p \in 1 .. Len(todo) : p = 1 \/ (p - 1 \in 1 .. Len(todo') /\ todo'[p - 1] = todo[p])
  BY <1>1, Popped
<1>3. Proper(todo[1]) /\ Put(todo[1])
  BY <1>1, <1>2 DEF Effects, AllProper
<1>4. PICK x : x = todo[1]
  OBVIOUS
<1>5. x \in Writes /\ Proper(x) /\ Put(x)
  BY <1>2, <1>3, <1>4
<1>6. /\ ledger \in [Sources -> Record] /\ receipts \in [Sources -> {"none", "pending", "complete"}] /\ retired \in [Opps -> Ids]
  BY DEF CenterTypes, StoredTypes
<1>7. \A t \in Sources : t \in Forgotten => t \in Forgotten'
  <2>1. CASE x.w # "receipt"
    BY <1>5, <2>1 DEF Put, Forgotten
  <2>2. CASE x.w = "receipt"
    <3>1. x.s \in Sources /\ x.val \in {"pending", "complete"} /\ receipts' = [receipts EXCEPT ![x.s] = x.val]
      BY <1>5, <2>2, WriteTypes DEF Put
    <3>2. \A t \in Sources : receipts'[t] = receipts[t] \/ receipts'[t] # "none"
      BY <1>6, <3>1
    <3> QED
      BY <3>2 DEF Forgotten
  <2> QED
    BY <2>1, <2>2
<1>8. ASSUME NEW t \in Sources, t \notin Forgotten', t # Moving PROVE ledger'[t].assoc = ledger[t].assoc
  <2>1. CASE x.w = "source" /\ x.s = t
    <3>1. t \notin Forgotten
      BY <1>7, <1>8
    <3>2. ~Barred(t)
      BY <1>4, <2>1 DEF Barred
    <3>3. x.val.assoc = ledger[t].assoc
      BY <1>5, <1>8, <2>1, <3>1, <3>2 DEF Proper
    <3>4. ledger' = [ledger EXCEPT ![t] = x.val]
      BY <1>5, <2>1 DEF Put
    <3> QED
      BY <1>6, <3>3, <3>4
  <2>2. CASE ~(x.w = "source" /\ x.s = t)
    BY <1>5, <1>6, <2>2 DEF Put
  <2> QED
    BY <2>1, <2>2
<1>9. /\ \A o \in Opps, t \in Sources : retired'[o] # t => retired[o] # t
      /\ \A o \in Opps : retired'[o] = None => retired[o] = None
  <2>1. CASE x.w # "retired"
    BY <1>5, <2>1 DEF Put
  <2>2. CASE x.w = "retired"
    <3>1. /\ x.o \in Opps /\ x.val \in Sources /\ retired' = [retired EXCEPT ![x.o] = x.val]
          /\ retired[x.o] \in {None, x.val}
      BY <1>5, <2>2, WriteTypes DEF Put, Proper
    <3>2. None \notin Sources
      BY DEF NamesAssumption
    <3>3. \A o \in Opps : retired'[o] = IF o = x.o THEN x.val ELSE retired[o]
      BY <1>6, <3>1
    <3> QED
      BY <3>1, <3>2, <3>3
  <2> QED
    BY <2>1, <2>2
<1>10. todo' # <<>> => Moving' = Moving
  BY DEF Written, Moving
<1>11. todo' = <<>> => Moving' = None /\ work'.kind = "none"
  BY DEF Written, Moving, NoWork
<1> QED
  BY <1>2, <1>3, <1>7, <1>8, <1>9, <1>10, <1>11

\* What is shown after a write was shown before, or comes with the write.
LEMMA ShownWritten ==
  ASSUME NamesAssumption, CenterTypes, Effects, Written, NEW o \in Opps, NEW s \in Sources
  PROVE  /\ InOverview(o, s)' => \/ Belonging(o, s)
                                 \/ /\ InOverview(o, s)
                                    /\ ~(todo[1].w = "version" /\ todo[1].o = o)
                                    /\ ~(todo[1].w = "retired" /\ todo[1].o = o)
         /\ InAction(o, s)' => \/ Belonging(o, s)
                               \/ InAction(o, s) /\ ~(todo[1].w = "action" /\ todo[1].o = o /\ todo[1].s = s)
         /\ \A t \in Sources : InHint(o, s, t)' =>
              \/ Belonging(o, s)
              \/ InHint(o, s, t) /\ ~(todo[1].w = "action" /\ todo[1].o = o /\ todo[1].s = t)
<1>1. PICK x : x = todo[1]
  OBVIOUS
<1>2. /\ x \in Writes /\ Proper(x) /\ Put(x)
      /\ retired'[o] # s => retired[o] # s
      /\ retired'[o] = None => retired[o] = None
  BY <1>1, HeadWritten
<1>3. /\ history \in [Opps -> Seq(Version)] /\ retired \in [Opps -> Ids] /\ actions \in [Opps -> [Sources -> Action]]
  BY DEF CenterTypes, StoredTypes
<1>4. ASSUME InOverview(o, s)'
      PROVE  Belonging(o, s) \/ (InOverview(o, s) /\ ~(x.w = "version" /\ x.o = o) /\ ~(x.w = "retired" /\ x.o = o))
  <2>1. retired'[o] = None /\ retired[o] = None /\ history'[o] # <<>> /\ CitesOf(Last(history'[o]), s)
    BY <1>2, <1>4 DEF InOverview
  <2>2. ~(x.w = "retired" /\ x.o = o)
    <3> SUFFICES ASSUME x.w = "retired", x.o = o PROVE FALSE
      OBVIOUS
    <3>1. x.val \in Sources /\ retired' = [retired EXCEPT ![o] = x.val]
      BY <1>2, WriteTypes DEF Put
    <3>2. retired'[o] = x.val
      BY <1>3, <3>1
    <3> QED
      BY <2>1, <3>1, <3>2 DEF NamesAssumption
  <2>3. CASE x.w = "version" /\ x.o = o
    <3>1. history' = [history EXCEPT ![o] = Append(@, x.val)] /\ x.val \in Version
      BY <1>2, <2>3, WriteTypes DEF Put
    <3>2. history'[o] = Append(history[o], x.val) /\ history[o] \in Seq(Version)
      BY <1>3, <3>1
    <3>3. Last(history'[o]) = x.val
      BY <3>1, <3>2, Appended
    <3> QED
      BY <1>2, <2>1, <2>3, <3>3 DEF Proper
  <2>4. CASE ~(x.w = "version" /\ x.o = o)
    <3>1. history'[o] = history[o]
      BY <1>2, <1>3, <2>4 DEF Put
    <3> QED
      BY <2>1, <2>2, <2>4, <3>1 DEF InOverview
  <2> QED
    BY <2>3, <2>4
<1>5. ASSUME NEW t \in Sources, ~(x.w = "action" /\ x.o = o /\ x.s = t) PROVE actions'[o][t] = actions[o][t]
  <2>1. CASE x.w # "action"
    BY <1>2, <2>1 DEF Put
  <2>2. CASE x.w = "action"
    <3>1. actions' = [actions EXCEPT ![x.o][x.s] = x.val] /\ x.o \in Opps /\ x.s \in Sources
      BY <1>2, <2>2, WriteTypes DEF Put
    <3> QED
      BY <1>3, <1>5, <2>2, <3>1
  <2> QED
    BY <2>1, <2>2
<1>6. ASSUME NEW t \in Sources, x.w = "action", x.o = o, x.s = t PROVE actions'[o][t] = x.val
  <2>1. actions' = [actions EXCEPT ![o][t] = x.val]
    BY <1>2, <1>6 DEF Put
  <2> QED
    BY <1>3, <2>1
<1>7. ASSUME InAction(o, s)' PROVE Belonging(o, s) \/ (InAction(o, s) /\ ~(x.w = "action" /\ x.o = o /\ x.s = s))
  <2>1. retired[o] # s /\ Exists(actions'[o][s]) /\ ~actions'[o][s].retracted
    BY <1>2, <1>7 DEF InAction
  <2>2. CASE x.w = "action" /\ x.o = o /\ x.s = s
    <3>1. actions'[o][s] = x.val
      BY <1>6, <2>2
    <3> QED
      BY <1>2, <2>1, <2>2, <3>1 DEF Proper
  <2>3. CASE ~(x.w = "action" /\ x.o = o /\ x.s = s)
    BY <1>5, <2>1, <2>3 DEF InAction
  <2> QED
    BY <2>2, <2>3
<1>8. ASSUME NEW t \in Sources, InHint(o, s, t)'
      PROVE  Belonging(o, s) \/ (InHint(o, s, t) /\ ~(x.w = "action" /\ x.o = o /\ x.s = t))
  <2>1. PICK h \in actions'[o][t].hints : h.src = s /\ h.live
    BY <1>8 DEF InHint
  <2>2. CASE x.w = "action" /\ x.o = o /\ x.s = t
    <3>1. actions'[o][t] = x.val
      BY <1>6, <2>2
    <3> QED
      BY <1>2, <2>1, <2>2, <3>1 DEF Proper
  <2>3. CASE ~(x.w = "action" /\ x.o = o /\ x.s = t)
    BY <1>5, <2>1, <2>3 DEF InHint
  <2> QED
    BY <2>2, <2>3
<1> QED
  BY <1>1, <1>4, <1>7, <1>8


\* The writes that are left stay proper.
LEMMA ProperWritten ==
  ASSUME NamesAssumption, CenterTypes, Effects, Written
  PROVE  AllProper'
<1> SUFFICES ASSUME NEW p \in 1 .. Len(todo'), NEW x, x = todo'[p] PROVE Proper(x)'
  BY DEF AllProper, Proper
<1>1. /\ 1 \in 1 .. Len(todo) /\ todo[1] \in Writes /\ Proper(todo[1]) /\ Put(todo[1])
      /\ p + 1 \in 1 .. Len(todo) /\ todo'[p] = todo[p + 1]
      /\ \A t \in Sources : t \in Forgotten => t \in Forgotten'
      /\ \A t \in Sources : t \notin Forgotten' /\ t # Moving => ledger'[t].assoc = ledger[t].assoc
      /\ \A o \in Opps, t \in Sources : retired'[o] # t => retired[o] # t
      /\ todo' # <<>> => Moving' = Moving
  BY HeadWritten
<1>2. todo' # <<>> /\ Moving' = Moving
  BY <1>1
<1>3. x \in Writes /\ Proper(x)
  BY <1>1 DEF CenterTypes, RunTypes, Effects, AllProper
<1>4. \A o, t : t \in Sources /\ Belonging(o, t) => Belonging(o, t)'
  BY <1>1, <1>2 DEF Belonging
<1>5. ASSUME x.w = "version" PROVE Proper(x)'
  BY <1>3, <1>4, <1>5 DEF Proper
<1>6. ASSUME x.w = "action" PROVE Proper(x)'
  <2>1. x.o \in Opps /\ x.s \in Sources /\ x.val \in Action
    BY <1>3, <1>6, WriteTypes
  <2>2. \A h \in x.val.hints : h.src \in Sources
    BY <2>1 DEF Action, Hint
  <2>3. retired'[x.o] # x.s => retired[x.o] # x.s
    BY <1>1, <2>1
  <2> QED
    BY <1>3, <1>4, <1>6, <2>1, <2>2, <2>3 DEF Proper
<1>7. ASSUME x.w = "retired" PROVE Proper(x)'
  <2>1. x.o \in Opps /\ x.val = Moving /\ retired[x.o] \in {None, x.val}
    BY <1>3, <1>7, WriteTypes DEF Proper
  <2>2. retired'[x.o] \in {None, x.val}
    <3>1. CASE todo[1].w = "retired"
      <4>1. todo[1].val = Moving /\ todo[1].o \in Opps /\ retired' = [retired EXCEPT ![todo[1].o] = todo[1].val]
        BY <1>1, <3>1, WriteTypes DEF Proper, Put
      <4>2. retired \in [Opps -> Ids]
        BY DEF CenterTypes, StoredTypes
      <4> QED
        BY <2>1, <4>1, <4>2
    <3>2. CASE todo[1].w # "retired"
      <4>1. retired' = retired
        BY <1>1, <3>2 DEF Put
      <4> QED
        BY <2>1, <4>1
    <3> QED
      BY <3>1, <3>2
  <2> QED
    BY <1>2, <1>7, <2>1, <2>2 DEF Proper
<1>8. ASSUME x.w = "source" PROVE Proper(x)'
  <2>1. x.s \in Sources /\ (x.s = Moving \/ x.val.assoc = ledger[x.s].assoc \/ x.s \in Forgotten \/ Barred(x.s))
    BY <1>3, <1>8, WriteTypes DEF Proper
  <2>2. Barred(x.s) => x.s \in Forgotten'
    <3> SUFFICES ASSUME Barred(x.s) PROVE receipts'[x.s] # "none"
      BY <2>1 DEF Forgotten
    <3>1. todo[1].w = "receipt" /\ todo[1].s = x.s
      BY DEF Barred
    <3>2. todo[1].val \in {"pending", "complete"} /\ receipts' = [receipts EXCEPT ![x.s] = todo[1].val]
      BY <1>1, <3>1, WriteTypes DEF Put
    <3>3. receipts'[x.s] = todo[1].val
      BY <2>1, <3>2 DEF CenterTypes, StoredTypes
    <3> QED
      BY <3>2, <3>3
  <2>3. x.s = Moving' \/ x.s \in Forgotten' \/ x.val.assoc = ledger'[x.s].assoc
    BY <1>1, <1>2, <2>1, <2>2
  <2> QED
    BY <1>8, <2>3 DEF Proper
<1>9. x.w \notin {"version", "action", "retired", "source"} => Proper(x)'
  BY DEF Proper
<1> QED
  BY <1>5, <1>6, <1>7, <1>8, <1>9

\* What a correction still has to do, after its next write.
LEMMA MoveWritten ==
  ASSUME NamesAssumption, CenterTypes, Effects, Written, NEW s \in Sources, NEW f, s = Moving, s \notin Forgotten',
         MoveLeft(s, f)
  PROVE  MoveLeft(s, f)'
<1>1. /\ 1 \in 1 .. Len(todo) /\ todo[1] \in Writes /\ Put(todo[1])
      /\ \A p \in 1 .. Len(todo') : p + 1 \in 1 .. Len(todo) /\ todo'[p] = todo[p + 1]
      /\ \A p \in 1 .. Len(todo) : p = 1 \/ (p - 1 \in 1 .. Len(todo') /\ todo'[p - 1] = todo[p])
      /\ \A t \in Sources : t \in Forgotten => t \in Forgotten'
  BY HeadWritten
<1>2. s \notin Forgotten /\ \A o : ~Belonging(o, s)
  BY <1>1 DEF Belonging
<1>3. \A p \in 1 .. Len(todo') : todo'[p].w = "source" /\ todo'[p].s = s => todo'[p].val.assoc = f
  BY <1>1 DEF MoveLeft
<1>4. ASSUME ~WritesSource(todo', s) PROVE ledger'[s].assoc = f
  <2>0. ledger \in [Sources -> Record]
    BY DEF CenterTypes, StoredTypes
  <2>1. CASE todo[1].w = "source" /\ todo[1].s = s
    <3>1. todo[1].val.assoc = f
      BY <1>1, <2>1 DEF MoveLeft
    <3>2. ledger' = [ledger EXCEPT ![s] = todo[1].val]
      BY <1>1, <2>1 DEF Put
    <3> QED
      BY <2>0, <3>1, <3>2
  <2>2. CASE ~(todo[1].w = "source" /\ todo[1].s = s)
    <3>1. ledger'[s] = ledger[s]
      BY <1>1, <2>0, <2>2 DEF Put
    <3>2. ~WritesSource(todo, s)
      <4> SUFFICES ASSUME NEW p \in 1 .. Len(todo), todo[p].w = "source", todo[p].s = s PROVE FALSE
        BY DEF WritesSource
      <4>1. p - 1 \in 1 .. Len(todo') /\ todo'[p - 1] = todo[p]
        BY <1>1, <2>2
      <4> QED
        BY <1>4, <4>1 DEF WritesSource
    <3> QED
      BY <3>1, <3>2 DEF MoveLeft
  <2> QED
    BY <2>1, <2>2
<1>5. ASSUME NEW o \in Opps \ {f}, InOverview(o, s)' PROVE WritesVersion(todo', o) \/ WritesRetired(todo', o)
  <2>1. /\ InOverview(o, s) /\ ~(todo[1].w = "version" /\ todo[1].o = o) /\ ~(todo[1].w = "retired" /\ todo[1].o = o)
    BY <1>2, <1>5, ShownWritten
  <2>2. PICK p \in 1 .. Len(todo) : todo[p].w \in {"version", "retired"} /\ todo[p].o = o
    BY <2>1 DEF MoveLeft, WritesVersion, WritesRetired
  <2>3. p - 1 \in 1 .. Len(todo') /\ todo'[p - 1] = todo[p]
    BY <1>1, <2>1, <2>2
  <2> QED
    BY <2>2, <2>3 DEF WritesVersion, WritesRetired
<1>6. ASSUME NEW o \in Opps, NEW t \in Sources, WritesAction(todo, o, t),
             ~(todo[1].w = "action" /\ todo[1].o = o /\ todo[1].s = t)
      PROVE  WritesAction(todo', o, t)
  <2>1. PICK p \in 1 .. Len(todo) : todo[p].w = "action" /\ todo[p].o = o /\ todo[p].s = t
    BY <1>6 DEF WritesAction
  <2>2. p - 1 \in 1 .. Len(todo') /\ todo'[p - 1] = todo[p]
    BY <1>1, <1>6, <2>1
  <2> QED
    BY <2>1, <2>2 DEF WritesAction
<1>7. ASSUME NEW o \in Opps \ {f}, InAction(o, s)' PROVE WritesAction(todo', o, s)
  <2>1. InAction(o, s) /\ ~(todo[1].w = "action" /\ todo[1].o = o /\ todo[1].s = s)
    BY <1>2, <1>7, ShownWritten
  <2>2. WritesAction(todo, o, s)
    BY <2>1 DEF MoveLeft
  <2> QED
    BY <1>6, <2>1, <2>2
<1>8. ASSUME NEW o \in Opps \ {f}, NEW t \in Sources, InHint(o, s, t)' PROVE WritesAction(todo', o, t)
  <2>1. InHint(o, s, t) /\ ~(todo[1].w = "action" /\ todo[1].o = o /\ todo[1].s = t)
    BY <1>2, <1>8, ShownWritten
  <2>2. WritesAction(todo, o, t)
    BY <2>1 DEF MoveLeft
  <2> QED
    BY <1>6, <2>1, <2>2
<1> QED
  BY <1>3, <1>4, <1>5, <1>7, <1>8 DEF MoveLeft, WritesSource, WritesVersion, WritesRetired, WritesAction

LEMMA EffectsWritten ==
  ASSUME NamesAssumption, CenterTypes, Effects, Written
  PROVE  Effects'
<1>1. /\ \A t \in Sources : t \in Forgotten => t \in Forgotten'
      /\ \A t \in Sources : t \notin Forgotten' /\ t # Moving => ledger'[t].assoc = ledger[t].assoc
      /\ todo' # <<>> => Moving' = Moving
      /\ todo' = <<>> => Moving' = None /\ work'.kind = "none"
  BY HeadWritten
<1>2. Shown /\ Completes
  BY DEF Effects
<1>3. Completes'
  <2> SUFFICES ASSUME work'.kind = "correct"
               PROVE  work'.s \in Sources /\ (work'.s \notin Forgotten' => \E f \in Places : MoveLeft(work.s, f)')
    BY DEF Completes
  <2>1. work' = work
    BY <1>1 DEF Written
  <2>2. work.s \in Sources /\ work.s = Moving /\ (work.s \notin Forgotten => \E f \in Places : MoveLeft(work.s, f))
    BY <1>2, <2>1 DEF Completes, Moving
  <2>3. ASSUME work.s \notin Forgotten' PROVE \E f \in Places : MoveLeft(work.s, f)'
    <3>1. PICK f \in Places : MoveLeft(work.s, f)
      BY <1>1, <2>2, <2>3
    <3>2. PICK s \in Sources : s = work.s
      BY <2>2
    <3>3. MoveLeft(s, f)'
      BY <2>2, <2>3, <3>1, <3>2, MoveWritten
    <3>4. MoveLeft(work.s, f)'
      BY <2>1, <3>2, <3>3
    <3> QED
      BY <3>4
  <2> QED
    BY <2>1, <2>2, <2>3
<1>4. Shown'
  <2> SUFFICES ASSUME NEW o \in Opps, NEW s \in Sources, Shows(o, s)', s # Moving', s \notin Forgotten'
               PROVE  ledger'[s].assoc = o
    BY DEF Shown, Belonging
  <2>1. s \notin Forgotten
    BY <1>1
  <2>2. CASE s # Moving
    <3>1. Belonging(o, s) \/ Shows(o, s)
      BY ShownWritten DEF Shows
    <3>2. Belonging(o, s)
      BY <1>2, <2>2, <3>1 DEF Shown
    <3> QED
      BY <1>1, <2>1, <2>2, <3>2 DEF Belonging
  <2>3. CASE s = Moving
    <3>1. todo' = <<>>
      BY <1>1, <2>3
    <3>2. work.kind = "correct" /\ work.s = s
      BY <2>3 DEF Moving, NamesAssumption
    <3>3. PICK f \in Places : MoveLeft(s, f)
      BY <1>2, <2>1, <3>2 DEF Completes
    <3>4. MoveLeft(s, f)'
      BY <2>3, <3>3, MoveWritten
    <3>5. ~WritesSource(todo', s) /\ \A q, t : ~WritesVersion(todo', q) /\ ~WritesRetired(todo', q) /\ ~WritesAction(todo', q, t)
      BY <3>1 DEF WritesSource, WritesVersion, WritesRetired, WritesAction
    <3>6. ledger'[s].assoc = f
      BY <3>4, <3>5 DEF MoveLeft
    <3>7. o = f
      BY <3>4, <3>5 DEF MoveLeft, Shows
    <3> QED
      BY <3>6, <3>7
  <2> QED
    BY <2>2, <2>3
<1> QED
  BY <1>3, <1>4, ProperWritten DEF Effects

LEMMA EffectsStep ==
  ASSUME NamesAssumption, CenterTypes, Chains, counts.torn \/ Effects, Kinds
  PROVE  counts'.torn \/ Effects'
<1>1. counts.torn \in BOOLEAN
  BY DEF CenterTypes, RunTypes
<1>2. counts.torn => counts'.torn
  BY <1>1 DEF Kinds, Settled, Saved, ListTaken, HumanTaken, CommitTaken, ForgetTaken, CorrectTaken, Taken, Written, Stopped
<1>3. CASE Stopped
  BY <1>1, <1>2, <1>3, EffectsStopped DEF Stopped
<1>4. CASE ~Stopped
  BY <1>2, <1>4, EffectsSettled, EffectsSaved, EffectsList, EffectsHuman, EffectsCommit, EffectsForget, EffectsCorrect,
     EffectsWritten DEF Kinds
<1> QED
  BY <1>3, <1>4

LEMMA EffectsInit ==
  ASSUME NamesAssumption, CenterAssumption, CenterTypes, Init
  PROVE  Effects
<1>1. /\ todo = <<>> /\ work = NoWork /\ ledger = [s \in Sources |-> Decided(FirstRevision("content"), Home)]
      /\ actions = [o \in Opps |-> [s \in Sources |-> NoAction]]
      /\ \E h \in {<<>>, <<SavedVersion(<<>>)>>} : history = [o \in Opps |-> IF o = Home THEN h ELSE <<>>]
  BY DEF Init
<1>2. work.kind = "none"
  BY <1>1 DEF NoWork
<1>3. ASSUME NEW o \in Opps, NEW s \in Sources PROVE ~Shows(o, s)
  <2>1. ~InAction(o, s) /\ \A t \in Sources : ~InHint(o, s, t)
    BY <1>1, NoActionType DEF InAction, InHint, Exists
  <2>2. ~InOverview(o, s)
    <3>1. history[o] = <<>> \/ history[o] = <<SavedVersion(<<>>)>>
      BY <1>1
    <3>2. <<>> \in Seq(Version)
      BY SeqNone
    <3>3. SavedVersion(<<>>) \in Version /\ SavedVersion(<<>>).cites = {<<None, Len(<<>>) + 1>>}
      BY <3>2, SavedType
    <3>4. Last(<<SavedVersion(<<>>)>>) = SavedVersion(<<>>)
      BY DEF Last
    <3>5. s # None
      BY DEF NamesAssumption
    <3>6. ~CitesOf(SavedVersion(<<>>), s)
      BY <3>3, <3>5 DEF CitesOf
    <3> QED
      BY <3>1, <3>4, <3>6 DEF InOverview
  <2> QED
    BY <2>1, <2>2 DEF Shows
<1> QED
  BY <1>1, <1>2, <1>3 DEF Effects, Shown, AllProper, Completes

LEMMA EffectsAuthorized ==
  ASSUME NamesAssumption, counts.torn \/ Effects
  PROVE  EffectiveIsAuthorized
<1> SUFFICES ASSUME Idle, ~counts.torn, NEW o \in Opps, NEW s \in Sources \ Forgotten, ledger[s].assoc # o
             PROVE  /\ Inspect(o) = "current" => ~CitesOf(Last(history[o]), s)
                    /\ Exists(actions[o][s]) /\ ~ActionRetired(o, s) => actions[o][s].retracted
                    /\ \A t \in Sources : \A h \in actions[o][t].hints : h.src = s => ~h.live
  BY DEF EffectiveIsAuthorized
<1>1. Shown /\ Moving = None /\ s # None
  BY IdleMoving DEF Effects, NamesAssumption
<1>2. ~Shows(o, s)
  BY <1>1 DEF Shown, Belonging
<1>3. Inspect(o) = "current" => ~CitesOf(Last(history[o]), s)
  BY <1>2 DEF Shows, InOverview, Inspect
<1>4. Exists(actions[o][s]) /\ ~ActionRetired(o, s) => actions[o][s].retracted
  BY <1>2 DEF Shows, InAction, ActionRetired
<1>5. \A t \in Sources : \A h \in actions[o][t].hints : h.src = s => ~h.live
  BY <1>2 DEF Shows, InHint
<1> QED
  BY <1>3, <1>4, <1>5

\* Nothing that a reader sees comes from a source that it should not come from: no
\* overview, live action or live hint of an opportunity rests on a source that was
\* moved away (unless a correction was cut off), and no visible version on a mail
\* that was forgotten, over every interleaving of runs, corrections, removals,
\* failing writes and deaths of the process.
THEOREM Views == Spec => []ViewsAreAuthorized
<1> DEFINE Inv == CenterTypes /\ Chains /\ (counts.torn \/ Effects)
<1>1. Init => Inv
  BY InitTypes, ChainsInit, EffectsInit, NamesAssumption, CenterAssumption
<1>2. Inv /\ [Next]_vars => Inv'
  BY StepKinds, ChainsStep, EffectsStep
<1>3. Inv => ViewsAreAuthorized
  BY ChainIsClean, EffectsAuthorized, NamesAssumption DEF ViewsAreAuthorized
<1> QED
  BY <1>1, <1>2, <1>3, PTL DEF Spec


-----------------------------------------------------------------------------
(* What is processed is in the overview.                                   *)

Reflects(o, t) == history[o] # <<>> /\ (retired[o] # None \/ <<t, ledger[t].done>> \in Last(history[o]).cites)

\* A correction has yet to take t back.
Dropping(t) == work.kind = "correct" /\ WritesSource(todo, t)

Processed(t) == ledger[t].status = "processed" /\ t \notin Forgotten

Kept == \A t \in Sources : Processed(t) => Dropping(t) \/ Reflects(ledger[t].assoc, t)

\* A version cites what is processed, or the operation takes it back.
KeptBy(x) ==
  x.w = "version" =>
    \A t \in Sources : Processed(t) /\ ledger[t].assoc = x.o =>
      <<t, ledger[t].done>> \in x.val.cites \/ Dropping(t) \/ Barred(t)

\* A source is marked processed after the version that cites it.
Marks(p) ==
  LET x == todo[p]
      o == x.val.assoc
      c == <<x.s, x.val.done>>
  IN x.w = "source" /\ x.val.status = "processed" =>
       /\ work.kind # "correct"
       /\ \A q \in 1 .. Len(todo) : todo[q].w = "version" => q < p
       /\ \/ \E q \in 1 .. Len(todo) : todo[q].w = "version" /\ todo[q].o = o /\ c \in todo[q].val.cites
          \/ ~WritesVersion(todo, o) /\ history[o] # <<>> /\ c \in Last(history[o]).cites

Cited == Kept /\ (\A p \in 1 .. Len(todo) : KeptBy(todo[p])) /\ (\A p \in 1 .. Len(todo) : Marks(p))

\* What is processed belongs to an opportunity.
LEMMA ProcessedBelongs ==
  ASSUME NEW r, SourceOK(r), r.status = "processed"
  PROVE  r.assoc \in Opps /\ r.rev > 0 /\ r.done = r.rev /\ Latest(r) = "content" /\ r.rev \in Nat
<1>1. r.rev # 0 /\ r.rev \in Nat
  BY DEF SourceOK, Record
<1>2. StatusOK(r)
  BY <1>1 DEF SourceOK
<1> QED
  BY <1>1, <1>2 DEF StatusOK, Associated

\* An operation that takes the lock finds everything that is processed cited.
LEMMA TakenCited ==
  ASSUME NamesAssumption, CenterTypes, Cited, NEW kind, NEW s, Taken(kind, s)
  PROVE  /\ Kept'
         /\ \A t \in Sources : Processed(t) => Reflects(ledger[t].assoc, t)
         /\ \A t \in Sources : Processed(t)' <=> Processed(t)
<1>1. /\ Idle /\ work'.kind = kind /\ work'.s = s /\ ledger' = ledger /\ receipts' = receipts /\ history' = history
      /\ retired' = retired
  BY DEF Taken, stored
<1>2. \A t \in Sources : ~Dropping(t)
  BY <1>1, NothingTodo DEF Dropping, WritesSource
<1>3. \A t \in Sources : Processed(t)' <=> Processed(t)
  BY <1>1 DEF Processed, Forgotten
<1>4. \A t \in Sources : Processed(t) => Reflects(ledger[t].assoc, t)
  BY <1>2 DEF Cited, Kept
<1>5. \A t \in Sources : Reflects(ledger[t].assoc, t) => Reflects(ledger[t].assoc, t)'
  BY <1>1 DEF Reflects
<1> QED
  BY <1>3, <1>4, <1>5 DEF Kept

\* An operation without versions and records.
LEMMA CitedPlain ==
  ASSUME NamesAssumption, CenterTypes, Cited, NEW kind, NEW s, Taken(kind, s),
         \A p \in 1 .. Len(todo') : todo'[p].w \notin {"version", "source"}
  PROVE  Cited'
<1>1. Kept'
  BY TakenCited
<1> QED
  BY <1>1 DEF Cited, KeptBy, Marks

LEMMA CitedCommit ==
  ASSUME NamesAssumption, CenterTypes, Cited, NEW s \in Sources, CommitTaken(s)
  PROVE  Cited'
<1> DEFINE j == jobs[s]
<1>0. PICK o \in Opps : o = j.o
  BY DEF CommitTaken
<1>1. /\ Taken("commit", s) /\ receipts[s] = "none" /\ ledger[s].assoc = o /\ j.rev = ledger[s].rev
      /\ retired[o] = None
  BY <1>0 DEF CommitTaken, SourceUnchanged
<1>2. /\ Kept' /\ \A t \in Sources : Processed(t) => Reflects(ledger[t].assoc, t)
      /\ \A t \in Sources : Processed(t)' <=> Processed(t)
  BY <1>1, TakenCited
<1>3. /\ retired' = retired /\ ledger' = ledger /\ receipts' = receipts /\ history' = history /\ work'.kind = "commit"
  BY <1>1 DEF Taken, stored
<1>4. /\ \A p \in 1 .. Len(todo') :
           \/ todo'[p] \in Finished(o, s)
           \/ /\ p = 2 /\ j.phase = "commit" /\ todo'[1].w = "pending"
              /\ todo'[2].w = "version" /\ todo'[2].o = o /\ todo'[2].val = NewVersion(s, j)
      /\ \/ /\ j.phase = "commit" /\ CanPromote(j) /\ 2 \in 1 .. Len(todo') /\ todo'[1].w = "pending"
            /\ todo'[2].w = "version" /\ todo'[2].o = o /\ todo'[2].val = NewVersion(s, j)
         \/ /\ j.phase = "resume" /\ Inspect(o) = "current" /\ <<s, j.rev>> \in Last(history[o]).cites
            /\ todo' \in Seq(Finished(o, s))
  BY <1>0, CommitParts
<1>5. j.phase = "commit" =>
        /\ CanPromote(j)
        /\ history[o] = <<>> => NewVersion(s, j).cites = {<<s, j.rev>>}
        /\ history[o] # <<>> => NewVersion(s, j).cites = Last(history[o]).cites \cup {<<s, j.rev>>}
  <2> SUFFICES ASSUME j.phase = "commit" PROVE /\ CanPromote(j)
                                               /\ history[o] = <<>> => NewVersion(s, j).cites = {<<s, j.rev>>}
                                               /\ history[o] # <<>> => NewVersion(s, j).cites = Last(history[o]).cites \cup {<<s, j.rev>>}
    OBVIOUS
  <2>1. CanPromote(j)
    BY <1>4
  <2> QED
    BY <1>0, <2>1, NewVersionType
<1>6. ASSUME NEW p \in 1 .. Len(todo') PROVE KeptBy(todo[p])'
  <2>1. SUFFICES ASSUME NEW x, x = todo'[p], x.w = "version", NEW t \in Sources, Processed(t), ledger[t].assoc = x.o
                 PROVE  <<t, ledger[t].done>> \in x.val.cites
    BY <1>2, <1>3 DEF KeptBy
  <2>2. j.phase = "commit" /\ x.o = o /\ x.val = NewVersion(s, j)
    BY <1>4, <2>1, FinishedWrites
  <2>3. history[o] # <<>> /\ <<t, ledger[t].done>> \in Last(history[o]).cites
    BY <1>1, <1>2, <2>1, <2>2 DEF Reflects
  <2> QED
    BY <1>5, <2>2, <2>3
<1>7. ASSUME NEW p \in 1 .. Len(todo') PROVE Marks(p)'
  <2>1. SUFFICES ASSUME NEW x, x = todo'[p], x.w = "source", x.val.status = "processed"
                 PROVE  /\ \A q \in 1 .. Len(todo') : todo'[q].w = "version" => q < p
                        /\ \/ \E q \in 1 .. Len(todo') : /\ todo'[q].w = "version" /\ todo'[q].o = x.val.assoc
                                                         /\ <<x.s, x.val.done>> \in todo'[q].val.cites
                           \/ /\ ~WritesVersion(todo', x.val.assoc) /\ history[x.val.assoc] # <<>>
                              /\ <<x.s, x.val.done>> \in Last(history[x.val.assoc]).cites
    BY <1>3 DEF Marks, WritesVersion
  <2>2. x \in Finished(o, s)
    BY <1>4, <2>1
  <2>3. x.s = s /\ x.val.assoc = o /\ x.val.done = j.rev
    BY <1>1, <2>1, <2>2 DEF Finished, Applied, Logged, AppliedAction, SameEvidence
  <2>4. CASE j.phase = "commit"
    <3>1. /\ CanPromote(j) /\ 2 \in 1 .. Len(todo') /\ todo'[1].w = "pending"
          /\ todo'[2].w = "version" /\ todo'[2].o = o /\ todo'[2].val = NewVersion(s, j)
      BY <1>4, <2>4
    <3>2. \A q \in 1 .. Len(todo') : todo'[q].w = "version" => q = 2
      BY <1>4, FinishedWrites
    <3>3. p # 1 /\ p # 2
      BY <2>1, <3>1
    <3>4. p > 2
      BY <3>3
    <3>5. <<s, j.rev>> \in NewVersion(s, j).cites
      BY <1>5, <2>4
    <3> QED
      BY <2>3, <3>1, <3>2, <3>4, <3>5
  <2>5. CASE j.phase # "commit"
    <3>1. /\ Inspect(o) = "current" /\ <<s, j.rev>> \in Last(history[o]).cites /\ todo' \in Seq(Finished(o, s))
      BY <1>4, <2>5
    <3>2. \A q \in 1 .. Len(todo') : todo'[q].w # "version"
      BY <1>4, <2>5, FinishedWrites
    <3>3. history[o] # <<>>
      BY <3>1 DEF Inspect
    <3> QED
      BY <2>3, <3>1, <3>2, <3>3 DEF WritesVersion
  <2> QED
    BY <2>4, <2>5
<1> QED
  BY <1>2, <1>6, <1>7 DEF Cited

LEMMA CitedForget ==
  ASSUME NamesAssumption, CenterTypes, Cited, NEW s \in Sources, ForgetTaken(s)
  PROVE  Cited'
<1>1. Taken("forget", s)
  BY DEF ForgetTaken
<1>2. /\ Kept' /\ \A t \in Sources : Processed(t) => Reflects(ledger[t].assoc, t)
      /\ \A t \in Sources : Processed(t)' <=> Processed(t)
  BY <1>1, TakenCited
<1>3. /\ ledger' = ledger /\ receipts' = receipts /\ todo' # <<>>
  BY <1>1 DEF Taken, stored
<1>4. \A p \in 1 .. Len(todo') : todo'[p] \in Forgot(s)
  BY DEF ForgetTaken, ForgettingOf
<1>5. ASSUME NEW p \in 1 .. Len(todo') PROVE KeptBy(todo[p])'
  <2>1. SUFFICES ASSUME NEW x, x = todo'[p], x.w = "version", NEW t \in Sources, Processed(t), ledger[t].assoc = x.o
                 PROVE  <<t, ledger[t].done>> \in x.val.cites \/ Barred(t)'
    BY <1>2, <1>3 DEF KeptBy
  <2>2. ForgetVersion(s, x.o, x.val)
    BY <1>4, <2>1 DEF Forgot, Logged
  <2>3. <<t, ledger[t].done>> \in Last(history[x.o]).cites
    BY <1>2, <2>1, <2>2 DEF ForgetVersion, Reflects
  <2>4. CASE t = s
    <3>1. receipts[s] = "none"
      BY <2>1, <2>4 DEF Processed, Forgotten
    <3>2. Barred(s)'
      BY <1>3, <3>1 DEF ForgetTaken, ForgettingOf, Barred
    <3> QED
      BY <2>4, <3>2
  <2>5. CASE t # s
    BY <2>2, <2>3, <2>5 DEF ForgetVersion
  <2> QED
    BY <2>4, <2>5
<1>6. ASSUME NEW p \in 1 .. Len(todo') PROVE Marks(p)'
  <2>1. todo'[p].w = "source" => todo'[p].val.status # "processed"
    <3>1. todo'[p].w = "source" => todo'[p].val = NoSource
      BY <1>4 DEF Forgot, Logged
    <3>2. NoSource.status # "processed"
      BY DEF NoSource
    <3> QED
      BY <3>1, <3>2
  <2> QED
    BY <2>1 DEF Marks
<1> QED
  BY <1>2, <1>5, <1>6 DEF Cited

LEMMA CitedCorrect ==
  ASSUME NamesAssumption, CenterTypes, Cited, NEW s \in Sources, NEW to \in Opps \cup {Unassociated}, CorrectTaken(s, to)
  PROVE  Cited'
<1>1. Taken("correct", s) /\ CorrectionFor(todo', s, to)
  BY DEF CorrectTaken
<1>2. /\ Kept' /\ \A t \in Sources : Processed(t) => Reflects(ledger[t].assoc, t)
      /\ \A t \in Sources : Processed(t)' <=> Processed(t)
  BY <1>1, TakenCited
<1>3. /\ ledger' = ledger /\ receipts' = receipts /\ work'.kind = "correct"
  BY <1>1 DEF Taken, stored
<1>4. \A p \in 1 .. Len(todo') : todo'[p] \in Corrected(s, to)
  BY <1>1 DEF CorrectionFor
<1>5. ASSUME NEW p \in 1 .. Len(todo') PROVE KeptBy(todo[p])'
  <2>1. SUFFICES ASSUME NEW x, x = todo'[p], x.w = "version", NEW t \in Sources, Processed(t), ledger[t].assoc = x.o
                 PROVE  <<t, ledger[t].done>> \in x.val.cites \/ WritesSource(todo', t)
    BY <1>2, <1>3 DEF KeptBy, Dropping, WritesSource
  <2>2. /\ x.o = ledger[s].assoc /\ Associated(ledger[s]) /\ to # ledger[s].assoc /\ retired[x.o] = None
    BY <1>4, <2>1 DEF Corrected, Logged
  <2>3. <<t, ledger[t].done>> \in Last(history[x.o]).cites
    BY <1>2, <2>1, <2>2 DEF Reflects
  <2>4. CASE t = s
    BY <1>1, <2>2, <2>4 DEF CorrectionFor
  <2>5. CASE t # s /\ <<t, ledger[t].done>> \notin x.val.cites
    <3>1. Drops(x.o, x.val, t)
      BY <2>3, <2>5 DEF Drops
    <3>2. receipts[t] = "none"
      BY <2>1 DEF Processed, Forgotten
    <3> QED
      BY <1>1, <2>1, <2>2, <2>5, <3>1, <3>2 DEF CorrectionFor
  <2> QED
    BY <2>4, <2>5
<1>6. ASSUME NEW p \in 1 .. Len(todo') PROVE Marks(p)'
  <2>1. todo'[p].w = "source" => todo'[p].val.status # "processed"
    BY <1>4 DEF Corrected, Logged
  <2> QED
    BY <2>1 DEF Marks
<1> QED
  BY <1>2, <1>5, <1>6 DEF Cited


LEMMA CitedSettled ==
  ASSUME NamesAssumption, CenterTypes, Cited, Settled
  PROVE  Cited'
<1>1. /\ receipts' = receipts /\ history' = history /\ retired' = retired
      /\ work' = work /\ todo' = todo /\ \A t \in Sources : Calm(ledger'[t], ledger[t])
      /\ Idle \/ ledger' = ledger
  BY DEF Settled
<1>2. \A t \in Sources : Processed(t)' => Processed(t) /\ ledger'[t].assoc = ledger[t].assoc /\ ledger'[t].done = ledger[t].done
  BY <1>1 DEF Processed, Forgotten, Calm
<1>3. Kept'
  BY <1>1, <1>2 DEF Cited, Kept, Dropping, Reflects
<1>4. CASE Idle
  <2>1. todo' = <<>>
    BY <1>1, <1>4, NothingTodo
  <2> QED
    BY <1>3, <2>1 DEF Cited
<1>5. CASE ~Idle
  <2>1. ledger' = ledger
    BY <1>1, <1>5
  <2>2. (\A p \in 1 .. Len(todo') : KeptBy(todo[p])') /\ (\A p \in 1 .. Len(todo') : Marks(p)')
    BY <1>1, <2>1 DEF Cited, KeptBy, Marks, Processed, Forgotten, Dropping, Barred
  <2> QED
    BY <1>3, <2>2 DEF Cited
<1> QED
  BY <1>4, <1>5

LEMMA CitedStopped ==
  ASSUME Cited, Stopped, work.kind # "correct"
  PROVE  Cited'
<1>1. /\ receipts' = receipts /\ history' = history /\ retired' = retired /\ ledger' = ledger /\ todo' = <<>>
  BY DEF Stopped
<1>2. \A t \in Sources : Processed(t)' => Processed(t)
  BY <1>1 DEF Processed, Forgotten
<1>3. Kept'
  BY <1>1, <1>2 DEF Cited, Kept, Dropping, Reflects
<1> QED
  BY <1>1, <1>3 DEF Cited

LEMMA CitedSaved ==
  ASSUME NamesAssumption, CenterTypes, Cited, NEW q \in Opps, Saved(q)
  PROVE  Cited'
<1>1. /\ receipts' = receipts /\ retired' = retired /\ ledger' = ledger
      /\ work' = work /\ todo' = todo /\ Idle /\ history' = [history EXCEPT ![q] = Append(@, SavedVersion(@))]
  BY DEF Saved
<1>2. todo' = <<>> /\ todo = <<>>
  BY <1>1, NothingTodo
<1>3. history \in [Opps -> Seq(Version)] /\ history[q] \in Seq(Version)
  BY DEF CenterTypes, StoredTypes
<1>4. ASSUME NEW t \in Sources, NEW o \in Opps, Reflects(o, t) PROVE Reflects(o, t)'
  <2>1. CASE o # q
    <3>1. history'[o] = history[o]
      BY <1>1, <1>3, <2>1
    <3> QED
      BY <1>1, <1>4, <3>1 DEF Reflects
  <2>2. CASE o = q
    <3> DEFINE H == history[q]
    <3>1. history'[o] = Append(H, SavedVersion(H))
      BY <1>1, <1>3, <2>2
    <3>2. SavedVersion(H) \in Version /\ (H # <<>> => SavedVersion(H).cites = Last(H).cites \cup {<<None, Len(H) + 1>>})
      BY <1>3, SavedType
    <3>3. Last(history'[o]) = SavedVersion(H) /\ history'[o] # <<>>
      BY <1>3, <3>1, <3>2, Appended
    <3> QED
      BY <1>1, <1>4, <2>2, <3>2, <3>3 DEF Reflects
  <2> QED
    BY <2>1, <2>2
<1>5. Kept'
  <2> SUFFICES ASSUME NEW t \in Sources, Processed(t)' PROVE Reflects(ledger[t].assoc, t)'
    BY DEF Kept
  <2>1. Processed(t)
    BY <1>1 DEF Processed, Forgotten
  <2>2. SourceOK(ledger[t])
    BY DEF CenterTypes, StoredTypes
  <2>3. PICK o \in Opps : o = ledger[t].assoc
    BY <2>1, <2>2, ProcessedBelongs DEF Processed
  <2>4. Reflects(o, t)
    BY <1>2, <2>1, <2>3 DEF Cited, Kept, Dropping, WritesSource
  <2>5. Reflects(o, t)'
    BY <1>4, <2>4
  <2> QED
    BY <1>1, <2>3, <2>5 DEF Reflects
<1> QED
  BY <1>2, <1>5 DEF Cited

LEMMA CitedWritten ==
  ASSUME NamesAssumption, CenterTypes, Chains, Effects, Cited, Written
  PROVE  Cited'
<1>1. PICK x : x = todo[1]
  OBVIOUS
<1>2. /\ 1 \in 1 .. Len(todo) /\ x \in Writes /\ Put(x)
      /\ \A p \in 1 .. Len(todo') : p + 1 \in 1 .. Len(todo) /\ todo'[p] = todo[p + 1]
      /\ \A p \in 1 .. Len(todo) : p = 1 \/ (p - 1 \in 1 .. Len(todo') /\ todo'[p - 1] = todo[p])
      /\ \A t \in Sources : t \in Forgotten => t \in Forgotten'
      /\ \A o \in Opps : retired'[o] = None => retired[o] = None
  BY <1>1, HeadWritten
<1>3. /\ ledger \in [Sources -> Record] /\ history \in [Opps -> Seq(Version)]
      /\ receipts \in [Sources -> {"none", "pending", "complete"}]
      /\ todo \in Seq(Writes)
  BY DEF CenterTypes, StoredTypes, RunTypes
<1>4. \A p \in 1 .. Len(todo') : work' = work
  <2>1. \A p \in 1 .. Len(todo') : todo' # <<>>
    OBVIOUS
  <2> QED
    BY <2>1 DEF Written
<1>5. ASSUME NEW t \in Sources, Dropping(t), ~(x.w = "source" /\ x.s = t) PROVE Dropping(t)'
  <2>1. PICK p \in 1 .. Len(todo) : todo[p].w = "source" /\ todo[p].s = t
    BY <1>5 DEF Dropping, WritesSource
  <2>2. p - 1 \in 1 .. Len(todo') /\ todo'[p - 1] = todo[p]
    BY <1>1, <1>2, <1>5, <2>1
  <2>3. work' = work
    BY <1>4, <2>2
  <2> QED
    BY <1>5, <2>1, <2>2, <2>3 DEF Dropping, WritesSource
<1>6. ASSUME NEW t \in Sources, Processed(t)', x.w = "source", x.s = t
      PROVE  /\ \A q \in 1 .. Len(todo) : todo[q].w # "version"
             /\ ledger'[t] = x.val /\ history' = history
             /\ history[x.val.assoc] # <<>> /\ <<t, x.val.done>> \in Last(history[x.val.assoc]).cites
  <2>1. ledger' = [ledger EXCEPT ![t] = x.val] /\ history' = history
    BY <1>2, <1>6 DEF Put
  <2>2. ledger'[t] = x.val
    BY <1>3, <2>1
  <2>3. x.val.status = "processed"
    BY <1>6, <2>2 DEF Processed
  <2>4. Marks(1)
    BY <1>2 DEF Cited
  <2>5. \A q \in 1 .. Len(todo) : todo[q].w = "version" => q < 1
    BY <1>1, <1>6, <2>3, <2>4 DEF Marks
  <2>6. \A q \in 1 .. Len(todo) : todo[q].w # "version"
    BY <2>5
  <2> QED
    BY <1>1, <1>6, <2>1, <2>2, <2>3, <2>4, <2>6 DEF Marks
<1>7. ASSUME NEW t \in Sources, Processed(t)', ~(x.w = "source" /\ x.s = t)
      PROVE  Processed(t) /\ ledger'[t] = ledger[t] /\ ~Barred(t)
  <2>1. ledger'[t] = ledger[t]
    BY <1>2, <1>3, <1>7 DEF Put
  <2>2. Processed(t)
    BY <1>2, <1>7, <2>1 DEF Processed
  <2>3. ~Barred(t)
    <3> SUFFICES ASSUME Barred(t) PROVE FALSE
      OBVIOUS
    <3>1. x.w = "receipt" /\ x.s = t
      BY <1>1 DEF Barred
    <3>2. x.val \in {"pending", "complete"} /\ receipts' = [receipts EXCEPT ![t] = x.val]
      BY <1>2, <3>1, WriteTypes DEF Put
    <3>3. receipts'[t] = x.val
      BY <1>3, <3>2
    <3> QED
      BY <1>7, <3>2, <3>3 DEF Processed, Forgotten
  <2> QED
    BY <2>1, <2>2, <2>3
<1>8. ASSUME x.w = "version"
      PROVE  x.o \in Opps /\ history'[x.o] # <<>> /\ Last(history'[x.o]) = x.val
             /\ \A o \in Opps : o # x.o => history'[o] = history[o]
  <2>1. history' = [history EXCEPT ![x.o] = Append(@, x.val)] /\ x.val \in Version /\ x.o \in Opps
    BY <1>2, <1>8, WriteTypes DEF Put
  <2>2. history'[x.o] = Append(history[x.o], x.val) /\ history[x.o] \in Seq(Version)
    BY <1>3, <2>1
  <2>3. Last(history'[x.o]) = x.val /\ history'[x.o] # <<>>
    BY <2>1, <2>2, Appended
  <2> QED
    BY <1>3, <2>1, <2>3
<1>9. x.w # "version" => history' = history
  BY <1>2 DEF Put
<1>10. Kept'
  <2> SUFFICES ASSUME NEW t \in Sources, Processed(t)', ~Dropping(t)' PROVE Reflects(ledger[t].assoc, t)'
    BY DEF Kept
  <2>1. CASE x.w = "source" /\ x.s = t
    BY <1>6, <2>1 DEF Reflects
  <2>2. CASE ~(x.w = "source" /\ x.s = t)
    <3>1. Processed(t) /\ ledger'[t] = ledger[t] /\ ~Barred(t) /\ ~Dropping(t)
      BY <1>5, <1>7, <2>2
    <3>2. PICK o \in Opps : o = ledger[t].assoc
      <4>1. SourceOK(ledger[t])
        BY DEF CenterTypes, StoredTypes
      <4> QED
        BY <3>1, <4>1, ProcessedBelongs DEF Processed
    <3>3. Reflects(o, t)
      BY <3>1, <3>2 DEF Cited, Kept
    <3>4. CASE x.w = "version" /\ x.o = o
      <4>1. KeptBy(x)
        BY <1>1, <1>2 DEF Cited
      <4>2. <<t, ledger[t].done>> \in x.val.cites
        BY <3>1, <3>2, <3>4, <4>1 DEF KeptBy
      <4> QED
        BY <1>8, <3>1, <3>2, <3>4, <4>2 DEF Reflects
    <3>5. CASE ~(x.w = "version" /\ x.o = o)
      <4>1. history'[o] = history[o]
        BY <1>8, <1>9, <3>5
      <4>2. retired[o] # None => retired'[o] # None
        BY <1>2
      <4> QED
        BY <3>1, <3>2, <3>3, <4>1, <4>2 DEF Reflects
    <3> QED
      BY <3>4, <3>5
  <2> QED
    BY <2>1, <2>2
<1>11. ASSUME NEW p \in 1 .. Len(todo') PROVE KeptBy(todo[p])'
  <2>1. SUFFICES ASSUME NEW y, y = todo'[p], y.w = "version", NEW t \in Sources, Processed(t)', ledger'[t].assoc = y.o
                 PROVE  <<t, ledger'[t].done>> \in y.val.cites \/ Dropping(t)'
    BY DEF KeptBy
  <2>2. p + 1 \in 1 .. Len(todo) /\ y = todo[p + 1]
    BY <1>2, <2>1
  <2>3. ~(x.w = "source" /\ x.s = t)
    BY <1>6, <2>1, <2>2
  <2>4. Processed(t) /\ ledger'[t] = ledger[t] /\ ~Barred(t)
    BY <1>7, <2>1, <2>3
  <2>5. KeptBy(y)
    BY <2>2 DEF Cited
  <2>6. <<t, ledger[t].done>> \in y.val.cites \/ Dropping(t)
    BY <2>1, <2>4, <2>5 DEF KeptBy
  <2> QED
    BY <1>5, <2>3, <2>4, <2>6
<1>12. ASSUME NEW p \in 1 .. Len(todo') PROVE Marks(p)'
  <2>1. SUFFICES ASSUME NEW y, y = todo'[p], y.w = "source", y.val.status = "processed"
                 PROVE  /\ work'.kind # "correct"
                        /\ \A q \in 1 .. Len(todo') : todo'[q].w = "version" => q < p
                        /\ \/ \E q \in 1 .. Len(todo') : /\ todo'[q].w = "version" /\ todo'[q].o = y.val.assoc
                                                         /\ <<y.s, y.val.done>> \in todo'[q].val.cites
                           \/ /\ ~WritesVersion(todo', y.val.assoc) /\ history'[y.val.assoc] # <<>>
                              /\ <<y.s, y.val.done>> \in Last(history'[y.val.assoc]).cites
    BY DEF Marks, WritesVersion
  <2>2. p + 1 \in 1 .. Len(todo) /\ y = todo[p + 1] /\ p \in Nat /\ y \in Writes
    BY <1>2, <1>3, <2>1
  <2>3. PICK o \in Opps : o = y.val.assoc
    <3>1. SourceOK(y.val)
      BY <2>1, <2>2, WriteTypes
    <3> QED
      BY <2>1, <3>1, ProcessedBelongs
  <2>4. /\ work.kind # "correct"
        /\ \A q \in 1 .. Len(todo) : todo[q].w = "version" => q < p + 1
        /\ \/ \E q \in 1 .. Len(todo) : todo[q].w = "version" /\ todo[q].o = o /\ <<y.s, y.val.done>> \in todo[q].val.cites
           \/ ~WritesVersion(todo, o) /\ history[o] # <<>> /\ <<y.s, y.val.done>> \in Last(history[o]).cites
    <3>1. Marks(p + 1)
      BY <2>2 DEF Cited
    <3> QED
      BY <2>1, <2>2, <2>3, <3>1 DEF Marks
  <2>5. work'.kind # "correct"
    BY <1>4, <2>4
  <2>6. \A q \in 1 .. Len(todo') : todo'[q].w = "version" => q < p
    <3> SUFFICES ASSUME NEW q \in 1 .. Len(todo'), todo'[q].w = "version" PROVE q < p
      OBVIOUS
    <3>1. q + 1 \in 1 .. Len(todo) /\ todo'[q] = todo[q + 1]
      BY <1>2
    <3>2. q + 1 < p + 1
      BY <2>4, <3>1
    <3> QED
      BY <2>2, <3>2
  <2>7. ASSUME NEW q \in 1 .. Len(todo), todo[q].w = "version", todo[q].o = o, <<y.s, y.val.done>> \in todo[q].val.cites
        PROVE  \/ \E r \in 1 .. Len(todo') : /\ todo'[r].w = "version" /\ todo'[r].o = o
                                             /\ <<y.s, y.val.done>> \in todo'[r].val.cites
               \/ /\ ~WritesVersion(todo', o) /\ history'[o] # <<>>
                  /\ <<y.s, y.val.done>> \in Last(history'[o]).cites
    <3>1. CASE q = 1
      <4>1. x.w = "version" /\ x.o = o /\ <<y.s, y.val.done>> \in x.val.cites
        BY <1>1, <2>7, <3>1
      <4>2. ~WritesVersion(todo', o)
        <5> SUFFICES ASSUME NEW r \in 1 .. Len(todo'), todo'[r].w = "version", todo'[r].o = o PROVE FALSE
          BY DEF WritesVersion
        <5>1. r + 1 \in 1 .. Len(todo) /\ todo'[r] = todo[r + 1] /\ r + 1 # 1
          BY <1>2
        <5> QED
          BY <1>2, <2>7, <3>1, <5>1 DEF Chains, OneVersion
      <4> QED
        BY <1>8, <4>1, <4>2
    <3>2. CASE q # 1
      <4>1. q - 1 \in 1 .. Len(todo') /\ todo'[q - 1] = todo[q]
        BY <1>2, <3>2
      <4> QED
        BY <2>7, <4>1
    <3> QED
      BY <3>1, <3>2
  <2>8. ASSUME ~WritesVersion(todo, o), history[o] # <<>>, <<y.s, y.val.done>> \in Last(history[o]).cites
        PROVE  /\ ~WritesVersion(todo', o) /\ history'[o] # <<>>
               /\ <<y.s, y.val.done>> \in Last(history'[o]).cites
    <3>1. ~(x.w = "version" /\ x.o = o)
      BY <1>1, <1>2, <2>8 DEF WritesVersion
    <3>2. history'[o] = history[o]
      BY <1>8, <1>9, <3>1
    <3>3. ~WritesVersion(todo', o)
      BY <1>2, <2>8 DEF WritesVersion
    <3> QED
      BY <2>8, <3>2, <3>3
  <2>9. \/ \E r \in 1 .. Len(todo') : /\ todo'[r].w = "version" /\ todo'[r].o = o
                                      /\ <<y.s, y.val.done>> \in todo'[r].val.cites
        \/ /\ ~WritesVersion(todo', o) /\ history'[o] # <<>>
           /\ <<y.s, y.val.done>> \in Last(history'[o]).cites
    BY <2>4, <2>7, <2>8
  <2> QED
    BY <2>3, <2>5, <2>6, <2>9
<1> QED
  BY <1>10, <1>11, <1>12 DEF Cited

LEMMA CitedStep ==
  ASSUME NamesAssumption, CenterTypes, Chains, counts.torn \/ (Effects /\ Cited), Kinds
  PROVE  counts'.torn \/ Cited'
<1>1. counts.torn \in BOOLEAN
  BY DEF CenterTypes, RunTypes
<1>2. counts.torn => counts'.torn
  BY <1>1 DEF Kinds, Settled, Saved, ListTaken, HumanTaken, CommitTaken, ForgetTaken, CorrectTaken, Taken, Written, Stopped
<1> SUFFICES ASSUME ~counts.torn, ~counts'.torn PROVE Cited'
  BY <1>2
<1>3. Effects /\ Cited
  OBVIOUS
<1>4. CASE Stopped
  <2>1. work.kind # "correct"
    BY <1>1, <1>4 DEF Stopped
  <2> QED
    BY <1>3, <1>4, <2>1, CitedStopped
<1>5. ASSUME NEW o \in Opps, ListTaken(o) PROVE Cited'
  <2>1. \A x \in AllRepaired(o) : x.w = "change"
    BY ModelVersions
  <2>2. \A p \in 1 .. Len(todo') : todo'[p].w \notin {"version", "source"}
    BY <1>5, <2>1 DEF ListTaken
  <2>3. Taken("repair", None)
    BY <1>5 DEF ListTaken
  <2> QED
    BY <1>3, <2>2, <2>3, CitedPlain
<1>6. ASSUME NEW o \in Opps, NEW s \in Sources, HumanTaken(o, s) PROVE Cited'
  <2>1. \A x \in Repaired(o, s) : x.w \notin {"version", "source"}
    BY DEF Repaired, Records
  <2>2. \A x : MovedAction(o, s, x) \/ Records(x, o, s, Len(actions[o][s].trans) + 1) => x.w \notin {"version", "source"}
    BY DEF MovedAction, Records
  <2>3. \A p \in 1 .. Len(todo') : todo'[p].w \notin {"version", "source"}
    BY <1>6, <2>1, <2>2, HumanParts
  <2>4. Taken("human", s)
    BY <1>6 DEF HumanTaken
  <2> QED
    BY <1>3, <2>3, <2>4, CitedPlain
<1> QED
  BY <1>3, <1>4, <1>5, <1>6, CitedSettled, CitedSaved, CitedCommit, CitedForget, CitedCorrect, CitedWritten DEF Kinds

LEMMA CitedInit ==
  ASSUME CenterAssumption, NamesAssumption, Init
  PROVE  Cited
<1>1. todo = <<>> /\ ledger = [s \in Sources |-> Decided(FirstRevision("content"), Home)]
  BY DEF Init
<1>2. "content" \in Availability
  BY DEF Availability
<1>3. PICK r : r = FirstRevision("content")
  OBVIOUS
<1>4. SourceOK(r) /\ r.rev = 1 /\ r.assoc = Unassociated
  BY <1>2, <1>3, FirstRevisionOK
<1>5. ~Associated(r)
  BY <1>4 DEF Associated, NamesAssumption
<1>6. r \in Record /\ r.status \in Waiting /\ r.done < r.rev
  BY <1>4, <1>5, Unassociating
<1>7. Home \in Places
  BY DEF CenterAssumption, Places
<1>8. Decided(r, Home).status # "processed"
  BY <1>4, <1>6, <1>7, DecidedWaiting
<1>9. \A s \in Sources : ~Processed(s)
  BY <1>1, <1>3, <1>8 DEF Processed
<1> QED
  BY <1>1, <1>9 DEF Cited, Kept


-----------------------------------------------------------------------------
(* What the pages show.                                                    *)

\* The status of a source that is listed.
LEMMA ListedStatus ==
  ASSUME CenterTypes, NEW s \in Sources, Known(s)
  PROVE  /\ SourceOK(ledger[s]) /\ ledger[s].rev > 0 /\ StatusOK(ledger[s]) /\ ledger[s].rev \in Nat
         /\ ledger[s].status \in {"awaiting_association", "awaiting_content", "queued", "processing", "processed", "failed"}
         /\ receipts[s] = "none" /\ s \notin Forgotten
<1>1. SourceOK(ledger[s]) /\ ledger[s].rev > 0 /\ receipts[s] = "none"
  BY DEF CenterTypes, StoredTypes, Known
<1>2. ledger[s].rev \in Nat /\ ledger[s].status \in Statuses
  BY <1>1 DEF SourceOK, Record
<1>3. StatusOK(ledger[s])
  BY <1>1 DEF SourceOK
<1>4. ledger[s].status \in {"awaiting_association", "awaiting_content", "queued", "processing", "processed", "failed"}
  BY <1>2, <1>3 DEF StatusOK, Statuses, Waiting
<1> QED
  BY <1>1, <1>2, <1>3, <1>4 DEF Forgotten

LEMMA NeverStuck ==
  ASSUME CenterTypes
  PROVE  NoDeadEnd
<1> SUFFICES ASSUME NEW s \in Sources, Known(s), Associated(ledger[s]), Latest(ledger[s]) = "content"
             PROVE  \/ ledger[s].status \in {"queued", "processing"}
                    \/ ledger[s].status = "processed" /\ ledger[s].done = ledger[s].rev
                    \/ ledger[s].status = "failed" /\ ledger[s].retry
  BY DEF NoDeadEnd
<1>1. /\ StatusOK(ledger[s])
      /\ ledger[s].status \in {"awaiting_association", "awaiting_content", "queued", "processing", "processed", "failed"}
  BY ListedStatus
<1> QED
  BY <1>1 DEF StatusOK

\* A processed source is in the overview.
LEMMA ProcessedReflected ==
  ASSUME CenterTypes, Cited, Idle, NEW s \in Sources, Known(s), ledger[s].status = "processed"
  PROVE  Reflected(s) /\ Latest(ledger[s]) = "content"
<1>1. SourceOK(ledger[s]) /\ s \notin Forgotten
  BY ListedStatus
<1>2. ledger[s].assoc \in Opps /\ ledger[s].done = ledger[s].rev /\ Latest(ledger[s]) = "content"
  BY <1>1, ProcessedBelongs
<1>3. ~Dropping(s)
  BY NothingTodo DEF Dropping, WritesSource
<1>4. Reflects(ledger[s].assoc, s)
  BY <1>1, <1>3 DEF Cited, Kept, Processed
<1>5. Inspect(ledger[s].assoc) = "current" => <<s, ledger[s].rev>> \in Last(history[ledger[s].assoc]).cites
  BY <1>2, <1>4 DEF Reflects, Inspect
<1> QED
  BY <1>2, <1>5 DEF Reflected, Associated

LEMMA Fresh ==
  ASSUME CenterTypes, counts.torn \/ Cited
  PROVE  FreshIsFresh
<1> SUFFICES ASSUME Idle, ~counts.torn, NEW o \in Opps, Freshness(o) = "processed_latest_import", NEW s \in Mine(o)
             PROVE  Reflected(s) /\ Latest(ledger[s]) = "content"
  BY DEF FreshIsFresh
<1>1. s \in Sources /\ Known(s) /\ Cited
  BY DEF Mine, Listed
<1>2. ledger[s].status \in {"awaiting_association", "awaiting_content", "queued", "processing", "processed", "failed"}
  BY <1>1, ListedStatus
<1>3. s \notin FailedOf(o) /\ s \notin PendingOf(o)
  BY DEF Freshness
<1>4. ledger[s].status # "failed" /\ ledger[s].status \notin Waiting \cup {"processing"}
  BY <1>3 DEF FailedOf, PendingOf
<1>5. ledger[s].status = "processed"
  BY <1>2, <1>4 DEF Waiting
<1> QED
  BY <1>1, <1>5, ProcessedReflected

LEMMA Seen ==
  ASSUME CenterTypes, counts.torn \/ Cited
  PROVE  NothingFallsThrough
<1> SUFFICES ASSUME Idle, ~counts.torn, NEW s \in Listed, ~Reflected(s)
             PROVE  \/ TodayItem(s) # "none"
                    \/ Associated(ledger[s]) /\ RowAttention(ledger[s].assoc) # {}
  BY DEF NothingFallsThrough
<1>1. s \in Sources /\ Known(s) /\ Cited
  BY DEF Listed
<1>2. /\ StatusOK(ledger[s])
      /\ ledger[s].status \in {"awaiting_association", "awaiting_content", "queued", "processing", "processed", "failed"}
  BY <1>1, ListedStatus
<1>3. ledger[s].status # "processed"
  BY <1>1, ProcessedReflected
<1>4. CASE ledger[s].status = "processing"
  <2> DEFINE o == ledger[s].assoc
  <2>1. o \in Opps /\ Associated(ledger[s])
    BY <1>2, <1>4 DEF StatusOK, Associated
  <2>2. s \in Mine(o) /\ s \in PendingOf(o)
    BY <1>4 DEF Mine, PendingOf
  <2>3. Freshness(o) \in {"unavailable", "failed", "source_pending"}
    BY <2>2 DEF Freshness
  <2>4. RowAttention(o) # {}
    BY <2>3 DEF RowAttention
  <2> QED
    BY <2>1, <2>4
<1>5. CASE ledger[s].status \in {"awaiting_association", "awaiting_content", "failed"}
  BY <1>5 DEF TodayItem
<1>6. CASE ledger[s].status = "queued"
  <2>1. Associated(ledger[s])
    BY <1>2, <1>6 DEF StatusOK
  <2> QED
    BY <1>6, <2>1 DEF TodayItem
<1> QED
  BY <1>2, <1>3, <1>4, <1>5, <1>6

LEMMA Offers ==
  ASSUME CenterTypes
  PROVE  OfferedUntilDone
<1> SUFFICES ASSUME NEW s \in Listed, Associated(ledger[s]), Latest(ledger[s]) = "content", jobs[s].phase = "none",
                    Inspect(ledger[s].assoc) \in {"current", "not_created"},
                    ledger[s].status # "processed" \/ pending[s] # NoPending
             PROVE  CanReconcile(s) \/ CanCreateFirst(s)
  BY DEF OfferedUntilDone
<1>1. s \in Sources /\ Known(s)
  BY DEF Listed
<1>2. /\ StatusOK(ledger[s])
      /\ ledger[s].status \in {"awaiting_association", "awaiting_content", "queued", "processing", "processed", "failed"}
  BY <1>1, ListedStatus
<1>3. ledger[s].status \in {"queued", "processing", "processed", "failed"}
  BY <1>2 DEF StatusOK
<1>4. Startable(s)
  BY <1>3 DEF Startable
<1> QED
  BY <1>4 DEF CanReconcile, CanCreateFirst, Offered

\* What the page offers, as it is asked for.
LEMMA Accepted ==
  ASSUME CenterTypes, NEW s \in Sources, Known(s), jobs[s].phase = "none", \A t \in Sources : jobs[t].o # ledger[s].assoc,
         NEW st, st.s = s, st.snap = ledger[s],
         \/ st.kind = "again" /\ st.base = Len(history[ledger[s].assoc]) /\ CanReconcile(s)
         \/ st.kind = "first" /\ CanCreateFirst(s)
  PROVE  ~Refused(st)
<1>1. receipts[s] = "none"
  BY DEF Known
<1>2. \/ st.kind = "again" /\ Inspect(ledger[s].assoc) = "current" /\ st.base = Len(history[ledger[s].assoc])
      \/ st.kind = "first" /\ Inspect(ledger[s].assoc) = "not_created"
  BY DEF CanReconcile, CanCreateFirst, Offered
<1>3. ASSUME st.kind = "again", pending[s] # NoPending, PromotedFor(s, pending[s]), Belongs(pending[s], ledger[s])
      PROVE  Resumable(st)
  <2>1. st.base = Len(history[ledger[s].assoc]) /\ pending[s].o = ledger[s].assoc
    BY <1>2, <1>3 DEF Belongs
  <2> QED
    BY <1>3, <2>1 DEF Resumable
<1> QED
  BY <1>1, <1>2, <1>3 DEF Refused

LEMMA Accepts ==
  ASSUME CenterTypes
  PROVE  OfferedIsAccepted
<1> SUFFICES ASSUME NEW s \in Listed, jobs[s].phase = "none", \A t \in Sources : jobs[t].o # ledger[s].assoc
             PROVE  /\ CanReconcile(s) => ~Refused([s |-> s, kind |-> "again", snap |-> ledger[s],
                                                    base |-> Len(history[ledger[s].assoc])])
                    /\ CanCreateFirst(s) => ~Refused([s |-> s, kind |-> "first", snap |-> ledger[s], base |-> 0])
  BY DEF OfferedIsAccepted
<1>1. s \in Sources /\ Known(s)
  BY DEF Listed
<1>2. ASSUME CanReconcile(s)
      PROVE  ~Refused([s |-> s, kind |-> "again", snap |-> ledger[s], base |-> Len(history[ledger[s].assoc])])
  <2>1. PICK st : st = [s |-> s, kind |-> "again", snap |-> ledger[s], base |-> Len(history[ledger[s].assoc])]
    OBVIOUS
  <2>2. st.s = s /\ st.kind = "again" /\ st.snap = ledger[s] /\ st.base = Len(history[ledger[s].assoc])
    BY <2>1
  <2>3. ~Refused(st)
    BY <1>1, <1>2, <2>2, Accepted
  <2> QED
    BY <2>1, <2>3
<1>3. ASSUME CanCreateFirst(s)
      PROVE  ~Refused([s |-> s, kind |-> "first", snap |-> ledger[s], base |-> 0])
  <2>1. PICK st : st = [s |-> s, kind |-> "first", snap |-> ledger[s], base |-> 0]
    OBVIOUS
  <2>2. st.s = s /\ st.kind = "first" /\ st.snap = ledger[s]
    BY <2>1
  <2>3. ~Refused(st)
    BY <1>1, <1>3, <2>2, Accepted
  <2> QED
    BY <2>1, <2>3
<1> QED
  BY <1>2, <1>3

\* The pages tell what there is to do, and what they offer can be done: no source that
\* can be read is stuck, an overview that is said to be current through the latest
\* import cites the latest revision of every source of the opportunity, what is not in
\* the overview is shown somewhere, and a page offers to go on exactly where a start is
\* accepted, after any sequence of runs, corrections, removals and crashes.
THEOREM Screens == Spec => []ScreensAreTrue
<1> DEFINE Inv == CenterTypes /\ Chains /\ (counts.torn \/ Effects) /\ (counts.torn \/ Cited)
<1>1. Init => Inv
  BY InitTypes, ChainsInit, EffectsInit, CitedInit, NamesAssumption, CenterAssumption
<1>2. Inv /\ [Next]_vars => Inv'
  <2> SUFFICES ASSUME Inv, [Next]_vars PROVE Inv'
    OBVIOUS
  <2>1. NamesAssumption /\ CenterTypes' /\ Kinds
    BY StepKinds
  <2>2. counts.torn \/ (Effects /\ Cited)
    OBVIOUS
  <2> QED
    BY <2>1, <2>2, ChainsStep, EffectsStep, CitedStep
<1>3. Inv => ScreensAreTrue
  BY NeverStuck, Fresh, Seen, Offers, Accepts DEF ScreensAreTrue
<1> QED
  BY <1>1, <1>2, <1>3, PTL DEF Spec

-----------------------------------------------------------------------------
(* The transitions of an action are recorded.                              *)

\* What the log of an opportunity says of a user's transitions: none is there
\* twice, only the last of an action can be missing, and none is ahead of the
\* action.
Unique ==
  \A o \in Opps : \A i, j \in 1 .. Len(changes[o]) :
    /\ changes[o][i].type = "action_transition" /\ changes[o][j].type = "action_transition"
    /\ changes[o][i].subject = changes[o][j].subject /\ changes[o][i].n = changes[o][j].n
    => i = j

Complete ==
  \A o \in Opps, s \in Sources : \A n \in 1 .. Len(actions[o][s].trans) :
    actions[o][s].trans[n].by # "analysis" /\ n < Len(actions[o][s].trans) => Recorded(o, s, n)

Within == \A o \in Opps, s \in Sources : \A n \in Nat : Recorded(o, s, n) => n <= Len(actions[o][s].trans)

\* What is left to write: a record that is not there yet, of a transition that
\* is there by then; an action that is not shorter, with the records of all its
\* transitions but the last.
IsNew(x) ==
  x.w = "change" /\ x.val.type = "action_transition" => ~Recorded(x.o, x.val.subject, x.val.n)

Extending(x, o, s, n) == x.w = "action" /\ x.o = o /\ x.s = s /\ n <= Len(x.val.trans)

InTime(p) ==
  \A o \in Opps, s \in Sources : \A n \in Nat :
    Records(todo[p], o, s, n) =>
      \/ n <= Len(actions[o][s].trans)
      \/ \E q \in 1 .. Len(todo) : q < p /\ Extending(todo[q], o, s, n)

Backed(p) ==
  todo[p].w = "action" =>
    \A n \in 1 .. Len(todo[p].val.trans) :
      todo[p].val.trans[n].by # "analysis" /\ n < Len(todo[p].val.trans) =>
        \/ Recorded(todo[p].o, todo[p].s, n)
        \/ \E q \in 1 .. Len(todo) : q < p /\ Records(todo[q], todo[p].o, todo[p].s, n)

NotShorter(x) == x.w = "action" => Len(actions[x.o][x.s].trans) <= Len(x.val.trans)

SameLength(F) ==
  \A p, q \in 1 .. Len(F) :
    F[p].w = "action" /\ F[q].w = "action" /\ F[p].o = F[q].o /\ F[p].s = F[q].s
    => Len(F[p].val.trans) = Len(F[q].val.trans)

Ahead ==
  /\ Once(todo) /\ SameLength(todo)
  /\ \A p \in 1 .. Len(todo) : IsNew(todo[p]) /\ InTime(p) /\ Backed(p) /\ NotShorter(todo[p])

Trailed == Unique /\ Complete /\ Within /\ Ahead

\* What the log and the actions say stays while they are the same.
LEMMA SameTrails ==
  ASSUME Trailed, actions' = actions, changes' = changes
  PROVE  Unique' /\ Complete' /\ Within'
<1>1. \A o, s, n : Recorded(o, s, n)' <=> Recorded(o, s, n)
  BY DEF Recorded
<1>2. Unique'
  BY DEF Trailed, Unique
<1>3. Complete'
  BY <1>1 DEF Trailed, Complete
<1>4. Within'
  BY <1>1 DEF Trailed, Within
<1> QED
  BY <1>2, <1>3, <1>4

LEMMA NothingAhead ==
  ASSUME todo' = <<>>
  PROVE  Ahead'
  BY DEF Ahead, Once, SameLength

\* A write that records nothing and leaves the transitions of an action alone, or
\* opens it.
PlainWrite(x) ==
  /\ x.w = "change" => x.val.type # "action_transition"
  /\ x.w = "action" => \/ x.val.trans = actions[x.o][x.s].trans
                       \/ actions[x.o][x.s].trans = <<>> /\ Len(x.val.trans) = 1

LEMMA TrailedPlain ==
  ASSUME CenterTypes, CenterTypes', Trailed, NEW kind, NEW s, Taken(kind, s), SameLength(todo'),
         \A p \in 1 .. Len(todo') : PlainWrite(todo'[p])
  PROVE  Trailed'
<1>1. actions' = actions /\ changes' = changes
  BY DEF Taken, stored
<1>2. \A o, n, t : Recorded(o, t, n)' <=> Recorded(o, t, n)
  BY <1>1 DEF Recorded
<1>3. todo' \in Seq(Writes)
  BY DEF CenterTypes, RunTypes
<1>4. Once(todo')
  BY DEF Once, PlainWrite
<1>5. ASSUME NEW p \in 1 .. Len(todo') PROVE IsNew(todo[p])' /\ InTime(p)'
  <2>1. ~(todo'[p].w = "change" /\ todo'[p].val.type = "action_transition")
    BY DEF PlainWrite
  <2> QED
    BY <2>1 DEF IsNew, InTime, Records
<1>6. ASSUME NEW p \in 1 .. Len(todo') PROVE Backed(p)' /\ NotShorter(todo[p])'
  <2>1. SUFFICES ASSUME todo'[p].w = "action" PROVE Backed(p)' /\ NotShorter(todo[p])'
    BY DEF Backed, NotShorter
  <2>2. PICK x \in Writes : x = todo'[p]
    BY <1>3
  <2>3. /\ x.w = "action" /\ x.o \in Opps /\ x.s \in Sources /\ x.val \in Action /\ PlainWrite(x)
    BY <2>1, <2>2, WriteTypes
  <2>4. PICK T \in Seq(Move) : T = actions[x.o][x.s].trans
    BY <2>3 DEF CenterTypes, StoredTypes, Action, Trail
  <2>5. x.val.trans = T \/ (T = <<>> /\ Len(x.val.trans) = 1)
    BY <2>3, <2>4 DEF PlainWrite
  <2>6. Len(T) <= Len(x.val.trans) /\ Len(T) \in Nat
    BY <2>5
  <2>7. ASSUME NEW n \in 1 .. Len(x.val.trans), x.val.trans[n].by # "analysis", n < Len(x.val.trans)
        PROVE  Recorded(x.o, x.s, n)
    <3>1. PICK k : k = Len(x.val.trans)
      OBVIOUS
    <3>2. n \in 1 .. k /\ n < k
      BY <2>7, <3>1, Zenon
    <3>3. k # 1
      BY <3>2
    <3>4. x.val.trans = T
      BY <2>5, <3>1, <3>3, Zenon
    <3> QED
      BY <2>3, <2>4, <2>7, <3>4 DEF Trailed, Complete
  <2>8. Backed(p)'
    BY <1>2, <2>2, <2>7 DEF Backed
  <2>9. NotShorter(x)'
    BY <1>1, <2>3, <2>4, <2>6 DEF NotShorter
  <2> QED
    BY <2>2, <2>8, <2>9
<1>7. Unique' /\ Complete' /\ Within'
  BY <1>1, SameTrails
<1> QED
  BY <1>4, <1>5, <1>6, <1>7 DEF Trailed, Ahead

LEMMA TrailedCommit ==
  ASSUME CenterTypes, CenterTypes', Trailed, NEW s \in Sources, CommitTaken(s)
  PROVE  Trailed'
<1> DEFINE j == jobs[s]
<1>1. PICK o : o = j.o
  OBVIOUS
<1>2. \A p \in 1 .. Len(todo') : todo'[p] \in Finished(o, s) \/ todo'[p].w = "version"
  BY <1>1, CommitParts
<1>3. ASSUME NEW x \in Finished(o, s)
      PROVE  /\ PlainWrite(x)
             /\ x.w = "action" => \/ x.val.trans = actions[x.o][x.s].trans /\ x.val.trans # <<>>
                                  \/ actions[x.o][x.s].trans = <<>> /\ Len(x.val.trans) = 1
  <2>1. x.w = "action" => AppliedAction(o, s, x)
    BY DEF Finished, Applied, Logged
  <2>2. x.w = "change" => x.val.type # "action_transition"
    BY DEF Finished, Applied, Logged, AppliedAction
  <2>3. x.w = "action" => \/ x.val.trans = actions[x.o][x.s].trans /\ x.val.trans # <<>>
                          \/ actions[x.o][x.s].trans = <<>> /\ Len(x.val.trans) = 1
    BY <2>1 DEF AppliedAction
  <2> QED
    BY <2>2, <2>3 DEF PlainWrite
<1>4. \A p \in 1 .. Len(todo') : PlainWrite(todo'[p])
  <2>1. \A x : x.w = "version" => PlainWrite(x)
    BY DEF PlainWrite
  <2> QED
    BY <1>2, <1>3, <2>1
<1>5. SameLength(todo')
  <2> SUFFICES ASSUME NEW p \in 1 .. Len(todo'), NEW q \in 1 .. Len(todo'), todo'[p].w = "action", todo'[q].w = "action",
                      todo'[p].o = todo'[q].o, todo'[p].s = todo'[q].s
               PROVE  Len(todo'[p].val.trans) = Len(todo'[q].val.trans)
    BY DEF SameLength
  <2>1. PICK x, y : x = todo'[p] /\ y = todo'[q]
    OBVIOUS
  <2>2. PICK T : T = actions[x.o][x.s].trans
    OBVIOUS
  <2>3. x \in Finished(o, s) /\ y \in Finished(o, s) /\ x.w = "action" /\ y.w = "action" /\ x.o = y.o /\ x.s = y.s
    BY <1>2, <2>1
  <2>4. /\ (x.val.trans = T /\ T # <<>>) \/ (T = <<>> /\ Len(x.val.trans) = 1)
        /\ (y.val.trans = T /\ T # <<>>) \/ (T = <<>> /\ Len(y.val.trans) = 1)
    BY <1>3, <2>2, <2>3
  <2>5. Len(x.val.trans) = Len(y.val.trans)
    BY <2>4
  <2> QED
    BY <2>1, <2>5
<1>6. Taken("commit", s)
  BY DEF CommitTaken
<1> QED
  BY <1>4, <1>5, <1>6, TrailedPlain

\* Corrections and removals.
LEMMA TrailedRetract ==
  ASSUME CenterTypes, CenterTypes', Trailed, NEW kind, NEW s, Taken(kind, s),
         \A p \in 1 .. Len(todo') : /\ todo'[p].w = "change" => todo'[p].val.type # "action_transition"
                                    /\ todo'[p].w = "action" => \E o, t : RetractedAction(t, o, todo'[p])
  PROVE  Trailed'
<1>1. \A p \in 1 .. Len(todo') : todo'[p].w = "action" => todo'[p].val.trans = actions[todo'[p].o][todo'[p].s].trans
  BY DEF RetractedAction
<1>2. \A p \in 1 .. Len(todo') : PlainWrite(todo'[p])
  BY <1>1 DEF PlainWrite
<1>3. SameLength(todo')
  BY <1>1 DEF SameLength
<1> QED
  BY <1>2, <1>3, TrailedPlain

LEMMA TrailedList ==
  ASSUME CenterTypes, CenterTypes', Trailed, NEW o \in Opps, ListTaken(o)
  PROVE  Trailed'
<1>1. actions' = actions /\ changes' = changes /\ todo' \in Seq(AllRepaired(o)) /\ Once(todo')
  BY DEF ListTaken, Taken, stored
<1>2. \A q, n, t : Recorded(q, t, n)' <=> Recorded(q, t, n)
  BY <1>1 DEF Recorded
<1>3. ASSUME NEW p \in 1 .. Len(todo')
      PROVE  /\ todo'[p].w = "change"
             /\ \E s \in Sources : \E n \in 1 .. Len(actions[o][s].trans) :
                  Records(todo'[p], o, s, n) /\ ~Recorded(o, s, n)
  <2>1. todo'[p] \in AllRepaired(o)
    BY <1>1
  <2> QED
    BY <2>1 DEF AllRepaired, Repaired, Records
<1>4. SameLength(todo')
  BY <1>3 DEF SameLength
<1>5. ASSUME NEW p \in 1 .. Len(todo') PROVE IsNew(todo[p])' /\ InTime(p)' /\ Backed(p)' /\ NotShorter(todo[p])'
  <2>0. PICK s \in Sources : \E n \in 1 .. Len(actions[o][s].trans) : Records(todo'[p], o, s, n) /\ ~Recorded(o, s, n)
    BY <1>3
  <2>1. PICK n \in 1 .. Len(actions[o][s].trans) : Records(todo'[p], o, s, n) /\ ~Recorded(o, s, n)
    BY <2>0
  <2>2. IsNew(todo[p])'
    BY <1>2, <2>1 DEF IsNew, Records
  <2>3. \A q \in Opps, t \in Sources : \A m \in Nat : Records(todo'[p], q, t, m) => m <= Len(actions[q][t].trans)
    BY <2>1 DEF Records
  <2>4. InTime(p)'
    BY <1>1, <2>3 DEF InTime, Records
  <2> QED
    BY <1>3, <2>2, <2>4 DEF Backed, NotShorter
<1>6. Unique' /\ Complete' /\ Within'
  BY <1>1, SameTrails
<1> QED
  BY <1>1, <1>4, <1>5, <1>6 DEF Trailed, Ahead

\* A user's transition: what the log lacks, the action, its record.
LEMMA TrailedHuman ==
  ASSUME CenterTypes, CenterTypes', Trailed, NEW o \in Opps, NEW s \in Sources, HumanTaken(o, s)
  PROVE  Trailed'
<1>1. actions' = actions /\ changes' = changes
  BY DEF HumanTaken, Taken, stored
<1>2. \A q, n, t : Recorded(q, t, n)' <=> Recorded(q, t, n)
  BY <1>1 DEF Recorded
<1>3. PICK x, y \in Writes : /\ todo' = (RepairWrites(o, s) \o <<x>>) \o <<y>>
                             /\ MovedAction(o, s, x)
                             /\ Records(y, o, s, Len(actions[o][s].trans) + 1)
  BY DEF HumanTaken
<1>4. PICK T \in Seq(Move) : T = actions[o][s].trans
  BY DEF CenterTypes, StoredTypes, Action, Trail
<1>5. PICK k \in Nat : k = Len(T)
  OBVIOUS
<1>6. PICK R \in Seq(Repaired(o, s)) :
        /\ R = RepairWrites(o, s) /\ Once(R)
        /\ \A n \in 1 .. Len(T) : T[n].by # "analysis" =>
             Recorded(o, s, n) \/ \E p \in 1 .. Len(R) : Records(R[p], o, s, n)
  BY <1>4, RepairDone DEF CenterTypes
<1>7. PICK r \in Nat : r = Len(R)
  BY <1>6
<1>8. /\ Len(todo') = r + 2 /\ todo'[r + 1] = x /\ todo'[r + 2] = y
      /\ \A p \in 1 .. r : todo'[p] = R[p]
  <2> DEFINE Y == Repaired(o, s) \cup {x, y}
             B == R \o <<x>>
  <2>1. R \in Seq(Y) /\ <<x>> \in Seq(Y) /\ <<y>> \in Seq(Y) /\ Len(<<x>>) = 1 /\ Len(<<y>>) = 1
    BY <1>6
  <2> HIDE DEF Y
  <2>2. B \in Seq(Y) /\ Len(B) = r + 1 /\ B[r + 1] = x /\ \A p \in 1 .. r : B[p] = R[p]
    BY <2>1, <1>7
  <2> HIDE DEF B
  <2>3. Len(B \o <<y>>) = r + 2 /\ (B \o <<y>>)[r + 2] = y /\ \A p \in 1 .. r + 1 : (B \o <<y>>)[p] = B[p]
    BY <2>1, <2>2
  <2>4. todo' = B \o <<y>>
    BY <1>3, <1>6 DEF B
  <2>5. r + 1 \in 1 .. r + 1 /\ \A p \in 1 .. r : p \in 1 .. r + 1
    OBVIOUS
  <2> QED
    BY <2>2, <2>3, <2>4, <2>5
<1>9. \A p \in 1 .. Len(todo') : p \in 1 .. r \/ p = r + 1 \/ p = r + 2
  BY <1>8
<1>10. ASSUME NEW p \in 1 .. r
       PROVE  /\ todo'[p].w = "change" /\ todo'[p].o = o
              /\ \E n \in 1 .. k : Records(todo'[p], o, s, n) /\ ~Recorded(o, s, n)
  <2>1. R[p] \in Repaired(o, s)
    BY <1>6, <1>7
  <2> QED
    BY <1>4, <1>5, <1>8, <2>1 DEF Repaired, Records
<1>11. PICK m \in Move : x.val.trans = Append(T, m)
  BY <1>3, <1>4 DEF MovedAction
<1>12. /\ Len(x.val.trans) = k + 1 /\ \A n \in 1 .. k : x.val.trans[n] = T[n]
       /\ x.w = "action" /\ x.o = o /\ x.s = s
  BY <1>3, <1>5, <1>11 DEF MovedAction
<1>13. Records(y, o, s, k + 1) /\ ~Recorded(o, s, k + 1) /\ y.w = "change"
  <2>1. ~Recorded(o, s, k + 1)
    BY <1>4, <1>5 DEF Trailed, Within
  <2> QED
    BY <1>3, <1>4, <1>5, <2>1 DEF Records
<1>14. Once(todo')
  <2> SUFFICES ASSUME NEW p \in 1 .. Len(todo'), NEW q \in 1 .. Len(todo'),
                      todo'[p].w = "change", todo'[q].w = "change", todo'[p].o = todo'[q].o,
                      todo'[p].val.type = "action_transition", todo'[q].val.type = "action_transition",
                      todo'[p].val.subject = todo'[q].val.subject, todo'[p].val.n = todo'[q].val.n
               PROVE  p = q
    BY DEF Once
  <2>1. p # r + 1 /\ q # r + 1
    BY <1>8, <1>12
  <2>2. \A i \in 1 .. r : todo'[i].val.n # k + 1
    BY <1>10 DEF Records
  <2>3. y.val.n = k + 1
    BY <1>13 DEF Records
  <2>4. CASE p \in 1 .. r /\ q \in 1 .. r
    <3>1. p \in 1 .. Len(R) /\ q \in 1 .. Len(R) /\ R[p] = todo'[p] /\ R[q] = todo'[q]
      BY <1>7, <1>8, <2>4
    <3> QED
      BY <1>6, <3>1 DEF Once
  <2>5. CASE p = r + 2 \/ q = r + 2
    <3>1. todo'[p].val.n = k + 1 /\ todo'[q].val.n = k + 1
      BY <1>8, <2>3, <2>5
    <3> QED
      BY <1>9, <2>1, <2>2, <3>1
  <2> QED
    BY <1>9, <2>1, <2>4, <2>5
<1>15. \A p \in 1 .. Len(todo') : todo'[p].w = "action" => p = r + 1
  BY <1>8, <1>9, <1>10, <1>13
<1>16. SameLength(todo')
  BY <1>15 DEF SameLength
<1>17. ASSUME NEW p \in 1 .. Len(todo') PROVE IsNew(todo[p])'
  <2>1. CASE p \in 1 .. r
    BY <1>2, <1>10, <2>1 DEF IsNew, Records
  <2>2. CASE p = r + 1
    BY <1>8, <1>12, <2>2 DEF IsNew
  <2>3. CASE p = r + 2
    BY <1>2, <1>8, <1>13, <2>3 DEF IsNew, Records
  <2> QED
    BY <1>9, <2>1, <2>2, <2>3
<1>18. ASSUME NEW p \in 1 .. Len(todo') PROVE InTime(p)'
  <2> SUFFICES ASSUME NEW q \in Opps, NEW t \in Sources, NEW n \in Nat, Records(todo'[p], q, t, n)
               PROVE  \/ n <= Len(actions[q][t].trans)
                      \/ \E i \in 1 .. Len(todo') : i < p /\ Extending(todo'[i], q, t, n)
    BY <1>1 DEF InTime, Records, Extending
  <2>1. CASE p \in 1 .. r
    <3>1. q = o /\ t = s /\ n <= k
      BY <1>10, <2>1 DEF Records
    <3> QED
      BY <1>4, <1>5, <3>1
  <2>2. CASE p = r + 1
    BY <1>8, <1>12, <2>2 DEF Records
  <2>3. CASE p = r + 2
    <3>1. q = o /\ t = s /\ n = k + 1
      BY <1>8, <1>13, <2>3 DEF Records
    <3>2. r + 1 \in 1 .. Len(todo') /\ r + 1 < p
      BY <1>8, <2>3
    <3>3. Extending(todo'[r + 1], q, t, n)
      BY <1>8, <1>12, <3>1 DEF Extending
    <3> QED
      BY <3>2, <3>3
  <2> QED
    BY <1>9, <2>1, <2>2, <2>3
<1>19. ASSUME NEW p \in 1 .. Len(todo') PROVE Backed(p)' /\ NotShorter(todo[p])'
  <2>1. SUFFICES ASSUME todo'[p].w = "action" PROVE Backed(p)' /\ NotShorter(todo[p])'
    BY DEF Backed, NotShorter
  <2>2. p = r + 1 /\ todo'[p] = x
    BY <1>8, <1>15, <2>1
  <2>3. ASSUME NEW n \in 1 .. Len(x.val.trans), x.val.trans[n].by # "analysis", n < Len(x.val.trans)
        PROVE  Recorded(o, s, n) \/ \E q \in 1 .. Len(todo') : q < p /\ Records(todo'[q], o, s, n)
    <3>1. n \in 1 .. Len(T) /\ T[n].by # "analysis"
      BY <1>5, <1>12, <2>3
    <3>2. CASE ~Recorded(o, s, n)
      <4>1. PICK q \in 1 .. Len(R) : Records(R[q], o, s, n)
        BY <1>6, <3>1, <3>2
      <4>2. q \in 1 .. Len(todo') /\ q < p /\ todo'[q] = R[q]
        BY <1>7, <1>8, <2>2
      <4> QED
        BY <4>1, <4>2
    <3> QED
      BY <3>2
  <2>4. Backed(p)'
    BY <1>2, <1>12, <2>2, <2>3 DEF Backed, Records
  <2>5. NotShorter(todo[p])'
    BY <1>1, <1>4, <1>5, <1>12, <2>2 DEF NotShorter
  <2> QED
    BY <2>4, <2>5
<1>20. Unique' /\ Complete' /\ Within'
  BY <1>1, SameTrails
<1> QED
  BY <1>14, <1>16, <1>17, <1>18, <1>19, <1>20 DEF Trailed, Ahead

\* The rest of the writes, after the next one.
LEMMA NextWrite ==
  ASSUME CenterTypes, Written
  PROVE  /\ 1 \in 1 .. Len(todo) /\ todo[1] \in Writes /\ Put(todo[1]) /\ todo \in Seq(Writes)
         /\ \A p \in 1 .. Len(todo') : p + 1 \in 1 .. Len(todo) /\ todo'[p] = todo[p + 1] /\ p \in Nat
         /\ \A p \in 1 .. Len(todo) : p \in Nat /\ (p = 1 \/ (p - 1 \in 1 .. Len(todo') /\ todo'[p - 1] = todo[p]))
<1>1. todo \in Seq(Writes) /\ todo # <<>> /\ todo' = Tail(todo) /\ Put(Head(todo))
  BY DEF Written, CenterTypes, RunTypes
<1>2. /\ 1 \in 1 .. Len(todo) /\ todo[1] = Head(todo) /\ todo[1] \in Writes
      /\ \A p \in 1 .. Len(todo') : p + 1 \in 1 .. Len(todo) /\ todo'[p] = todo[p + 1]
      /\ \A p \in 1 .. Len(todo) : p = 1 \/ (p - 1 \in 1 .. Len(todo') /\ todo'[p - 1] = todo[p])
  BY <1>1, Popped
<1> QED
  BY <1>1, <1>2

\* What a write does to the log and to the actions.
LEMMA TrailWrite ==
  ASSUME CenterTypes, NEW x \in Writes, Put(x)
  PROVE  /\ \A o \in Opps : \A s : \A n : Recorded(o, s, n)' <=> (Recorded(o, s, n) \/ Records(x, o, s, n))
         /\ \A o \in Opps, s \in Sources :
              IF x.w = "action" /\ x.o = o /\ x.s = s THEN actions'[o][s] = x.val ELSE actions'[o][s] = actions[o][s]
         /\ \A o \in Opps : changes'[o] = IF x.w = "change" /\ x.o = o THEN Append(changes[o], x.val) ELSE changes[o]
<1>1. /\ x.w = "action" => x.o \in Opps /\ x.s \in Sources
      /\ x.w = "change" => x.o \in Opps /\ x.val \in Change
      /\ actions \in [Opps -> [Sources -> Action]] /\ changes \in [Opps -> Seq(Change)]
  BY WriteTypes DEF CenterTypes, StoredTypes
<1>2. \A o \in Opps : changes'[o] = IF x.w = "change" /\ x.o = o THEN Append(changes[o], x.val) ELSE changes[o]
  BY <1>1 DEF Put
<1>3. \A o \in Opps, s \in Sources :
        IF x.w = "action" /\ x.o = o /\ x.s = s THEN actions'[o][s] = x.val ELSE actions'[o][s] = actions[o][s]
  BY <1>1 DEF Put
<1>4. ASSUME NEW o \in Opps, NEW s, NEW n PROVE Recorded(o, s, n)' <=> (Recorded(o, s, n) \/ Records(x, o, s, n))
  <2>1. CASE x.w = "change" /\ x.o = o
    <3>1. PICK C \in Seq(Change) : C = changes[o]
      BY <1>1
    <3>2. PICK D : D = Append(C, x.val)
      OBVIOUS
    <3>3. /\ Len(C) \in Nat /\ Len(D) = Len(C) + 1 /\ D[Len(C) + 1] = x.val
          /\ \A i \in 1 .. Len(C) : D[i] = C[i]
          /\ \A i \in 1 .. Len(D) : i \in 1 .. Len(C) \/ i = Len(C) + 1
      BY <1>1, <2>1, <3>1, <3>2, Appended
    <3>4. changes'[o] = D
      BY <1>2, <2>1, <3>1, <3>2
    <3>5. ASSUME Recorded(o, s, n) PROVE Recorded(o, s, n)'
      <4>1. PICK i \in 1 .. Len(C) : C[i].type = "action_transition" /\ C[i].subject = s /\ C[i].n = n
        BY <3>1, <3>5 DEF Recorded
      <4>2. i \in 1 .. Len(D) /\ D[i] = C[i]
        BY <3>3
      <4> QED
        BY <3>4, <4>1, <4>2 DEF Recorded
    <3>6. ASSUME Records(x, o, s, n) PROVE Recorded(o, s, n)'
      <4>1. Len(C) + 1 \in 1 .. Len(D)
        BY <3>3
      <4> QED
        BY <3>3, <3>4, <3>6, <4>1 DEF Recorded, Records
    <3>7. ASSUME Recorded(o, s, n)' PROVE Recorded(o, s, n) \/ Records(x, o, s, n)
      <4>1. PICK i \in 1 .. Len(D) : D[i].type = "action_transition" /\ D[i].subject = s /\ D[i].n = n
        BY <3>4, <3>7 DEF Recorded
      <4>2. CASE i \in 1 .. Len(C)
        BY <3>1, <3>3, <4>1, <4>2 DEF Recorded
      <4>3. CASE i = Len(C) + 1
        BY <2>1, <3>3, <4>1, <4>3 DEF Records
      <4> QED
        BY <3>3, <4>2, <4>3
    <3> QED
      BY <3>5, <3>6, <3>7
  <2>2. CASE ~(x.w = "change" /\ x.o = o)
    <3>1. changes'[o] = changes[o]
      BY <1>2, <2>2
    <3> QED
      BY <2>2, <3>1 DEF Recorded, Records
  <2> QED
    BY <2>1, <2>2
<1> QED
  BY <1>2, <1>3, <1>4

LEMMA TrailedWritten ==
  ASSUME CenterTypes, CenterTypes', Trailed, Written
  PROVE  Trailed'
<1>1. PICK x \in Writes : x = todo[1]
  BY NextWrite
<1>2. /\ 1 \in 1 .. Len(todo) /\ Put(x) /\ todo \in Seq(Writes)
      /\ \A p \in 1 .. Len(todo') : p + 1 \in 1 .. Len(todo) /\ todo'[p] = todo[p + 1] /\ p \in Nat
      /\ \A p \in 1 .. Len(todo) : p \in Nat /\ (p = 1 \/ (p - 1 \in 1 .. Len(todo') /\ todo'[p - 1] = todo[p]))
  BY <1>1, NextWrite
<1>3. \A o \in Opps : \A s, n : Recorded(o, s, n)' <=> (Recorded(o, s, n) \/ Records(x, o, s, n))
  BY <1>2, TrailWrite
<1>4. \A o \in Opps, s \in Sources :
        IF x.w = "action" /\ x.o = o /\ x.s = s THEN actions'[o][s] = x.val ELSE actions'[o][s] = actions[o][s]
  BY <1>2, TrailWrite
<1>5. \A o \in Opps : changes'[o] = IF x.w = "change" /\ x.o = o THEN Append(changes[o], x.val) ELSE changes[o]
  BY <1>2, TrailWrite
<1>6. Once(todo) /\ SameLength(todo) /\ IsNew(x) /\ InTime(1) /\ Backed(1) /\ NotShorter(x)
  BY <1>1, <1>2 DEF Trailed, Ahead
<1>7. \A o \in Opps, s \in Sources : /\ Len(actions[o][s].trans) \in Nat /\ Len(actions'[o][s].trans) \in Nat
                                     /\ Len(actions[o][s].trans) <= Len(actions'[o][s].trans)
  <2> SUFFICES ASSUME NEW o \in Opps, NEW s \in Sources
               PROVE  /\ Len(actions[o][s].trans) \in Nat /\ Len(actions'[o][s].trans) \in Nat
                      /\ Len(actions[o][s].trans) <= Len(actions'[o][s].trans)
    OBVIOUS
  <2>1. actions[o][s].trans \in Seq(Move) /\ actions'[o][s].trans \in Seq(Move)
    BY DEF CenterTypes, StoredTypes, Action, Trail
  <2>2. Len(actions[o][s].trans) \in Nat /\ Len(actions'[o][s].trans) \in Nat
    BY <2>1
  <2>3. Len(actions[o][s].trans) <= Len(actions'[o][s].trans)
    BY <1>4, <1>6, <2>2 DEF NotShorter
  <2> QED
    BY <2>2, <2>3
<1>8. Unique'
  <2> SUFFICES ASSUME NEW o \in Opps, NEW i \in 1 .. Len(changes'[o]), NEW k \in 1 .. Len(changes'[o]),
                      changes'[o][i].type = "action_transition", changes'[o][k].type = "action_transition",
                      changes'[o][i].subject = changes'[o][k].subject, changes'[o][i].n = changes'[o][k].n
               PROVE  i = k
    BY DEF Unique
  <2>1. CASE x.w = "change" /\ x.o = o
    <3>1. PICK C \in Seq(Change) : C = changes[o]
      BY DEF CenterTypes, StoredTypes
    <3>2. PICK D : D = Append(C, x.val)
      OBVIOUS
    <3>3. x.val \in Change
      BY <2>1, WriteTypes
    <3>4. /\ Len(C) \in Nat /\ D[Len(C) + 1] = x.val /\ \A m \in 1 .. Len(C) : D[m] = C[m]
          /\ \A m \in 1 .. Len(D) : m \in 1 .. Len(C) \/ m = Len(C) + 1
      BY <3>1, <3>2, <3>3, Appended
    <3>5. changes'[o] = D
      BY <1>5, <2>1, <3>1, <3>2
    <3>6. ASSUME NEW m \in 1 .. Len(C), C[m].type = "action_transition", C[m].subject = x.val.subject, C[m].n = x.val.n,
                 x.val.type = "action_transition"
          PROVE  FALSE
      <4>1. Recorded(o, x.val.subject, x.val.n)
        BY <3>1, <3>6 DEF Recorded
      <4> QED
        BY <1>6, <2>1, <3>6, <4>1 DEF IsNew
    <3>7. CASE i \in 1 .. Len(C) /\ k \in 1 .. Len(C)
      <4>1. D[i] = C[i] /\ D[k] = C[k]
        BY <3>4, <3>7
      <4> QED
        BY <3>1, <3>5, <3>7, <4>1 DEF Trailed, Unique
    <3>8. CASE i \in 1 .. Len(C) /\ k = Len(C) + 1
      BY <3>4, <3>5, <3>6, <3>8
    <3>9. CASE i = Len(C) + 1 /\ k \in 1 .. Len(C)
      BY <3>4, <3>5, <3>6, <3>9
    <3> QED
      BY <3>4, <3>5, <3>7, <3>8, <3>9
  <2>2. CASE ~(x.w = "change" /\ x.o = o)
    <3>1. changes'[o] = changes[o]
      BY <1>5, <2>2
    <3> QED
      BY <3>1 DEF Trailed, Unique
  <2> QED
    BY <2>1, <2>2
<1>9. Complete'
  <2> SUFFICES ASSUME NEW o \in Opps, NEW s \in Sources, NEW n \in 1 .. Len(actions'[o][s].trans),
                      actions'[o][s].trans[n].by # "analysis", n < Len(actions'[o][s].trans)
               PROVE  Recorded(o, s, n)'
    BY DEF Complete
  <2>1. CASE x.w = "action" /\ x.o = o /\ x.s = s
    <3>1. actions'[o][s] = x.val
      BY <1>4, <2>1
    <3>2. \A q \in 1 .. Len(todo) : ~(q < 1)
      BY <1>2
    <3>3. Recorded(o, s, n)
      BY <1>1, <1>6, <2>1, <3>1, <3>2 DEF Backed
    <3> QED
      BY <1>3, <3>3
  <2>2. CASE ~(x.w = "action" /\ x.o = o /\ x.s = s)
    <3>1. actions'[o][s] = actions[o][s]
      BY <1>4, <2>2
    <3>2. Recorded(o, s, n)
      BY <3>1 DEF Trailed, Complete
    <3> QED
      BY <1>3, <3>2
  <2> QED
    BY <2>1, <2>2
<1>10. Within'
  <2> SUFFICES ASSUME NEW o \in Opps, NEW s \in Sources, NEW n \in Nat, Recorded(o, s, n)'
               PROVE  n <= Len(actions'[o][s].trans)
    BY DEF Within
  <2>1. CASE Recorded(o, s, n)
    <3>1. n <= Len(actions[o][s].trans)
      BY <2>1 DEF Trailed, Within
    <3> QED
      BY <1>7, <3>1
  <2>2. CASE Records(x, o, s, n)
    <3>1. \A q \in 1 .. Len(todo) : ~(q < 1)
      BY <1>2
    <3>2. n <= Len(actions[o][s].trans)
      BY <1>1, <1>6, <2>2, <3>1 DEF InTime
    <3> QED
      BY <1>7, <3>2
  <2> QED
    BY <1>3, <2>1, <2>2
<1>11. Once(todo') /\ SameLength(todo')
  <2>1. ASSUME NEW p \in 1 .. Len(todo'), NEW q \in 1 .. Len(todo'), p + 1 = q + 1 PROVE p = q
    BY <1>2, <2>1
  <2>2. Once(todo')
    <3> SUFFICES ASSUME NEW p \in 1 .. Len(todo'), NEW q \in 1 .. Len(todo'),
                        todo'[p].w = "change", todo'[q].w = "change", todo'[p].o = todo'[q].o,
                        todo'[p].val.type = "action_transition", todo'[q].val.type = "action_transition",
                        todo'[p].val.subject = todo'[q].val.subject, todo'[p].val.n = todo'[q].val.n
                 PROVE  p = q
      BY DEF Once
    <3>1. PICK i, k \in 1 .. Len(todo) : i = p + 1 /\ k = q + 1 /\ todo'[p] = todo[i] /\ todo'[q] = todo[k]
      BY <1>2
    <3>2. i = k
      BY <1>6, <3>1 DEF Once
    <3> QED
      BY <2>1, <3>1, <3>2
  <2>3. SameLength(todo')
    <3> SUFFICES ASSUME NEW p \in 1 .. Len(todo'), NEW q \in 1 .. Len(todo'), todo'[p].w = "action", todo'[q].w = "action",
                        todo'[p].o = todo'[q].o, todo'[p].s = todo'[q].s
                 PROVE  Len(todo'[p].val.trans) = Len(todo'[q].val.trans)
      BY DEF SameLength
    <3>1. PICK i, k \in 1 .. Len(todo) : todo'[p] = todo[i] /\ todo'[q] = todo[k]
      BY <1>2
    <3> QED
      BY <1>6, <3>1 DEF SameLength
  <2> QED
    BY <2>2, <2>3
<1>12. ASSUME NEW p \in 1 .. Len(todo')
       PROVE  IsNew(todo[p])' /\ InTime(p)' /\ Backed(p)' /\ NotShorter(todo[p])'
  <2>1. PICK y \in Writes : y = todo'[p] /\ y = todo[p + 1]
    BY <1>2
  <2>2. p + 1 \in 1 .. Len(todo) /\ p \in Nat /\ p + 1 # 1
    BY <1>2
  <2>3. IsNew(y) /\ InTime(p + 1) /\ Backed(p + 1) /\ NotShorter(y)
    BY <2>1, <2>2 DEF Trailed, Ahead
  <2>4. IsNew(todo[p])'
    <3> SUFFICES ASSUME y.w = "change", y.val.type = "action_transition"
                 PROVE  ~Recorded(y.o, y.val.subject, y.val.n)'
      BY <2>1 DEF IsNew
    <3>1. y.o \in Opps
      BY WriteTypes
    <3>2. ~Recorded(y.o, y.val.subject, y.val.n)
      BY <2>3 DEF IsNew
    <3>3. ~Records(x, y.o, y.val.subject, y.val.n)
      BY <1>1, <1>2, <1>6, <2>1, <2>2 DEF Records, Once
    <3> QED
      BY <1>3, <3>1, <3>2, <3>3
  <2>5. InTime(p)'
    <3> SUFFICES ASSUME NEW o \in Opps, NEW s \in Sources, NEW n \in Nat, Records(y, o, s, n)
                 PROVE  \/ n <= Len(actions'[o][s].trans)
                        \/ \E q \in 1 .. Len(todo') : q < p /\ Extending(todo'[q], o, s, n)
      BY <2>1 DEF InTime, Records, Extending
    <3>1. CASE n <= Len(actions[o][s].trans)
      BY <1>7, <3>1
    <3>2. CASE \E q \in 1 .. Len(todo) : q < p + 1 /\ Extending(todo[q], o, s, n)
      <4>1. PICK q \in 1 .. Len(todo) : q < p + 1 /\ Extending(todo[q], o, s, n)
        BY <3>2
      <4>2. CASE q = 1
        <5>1. actions'[o][s] = x.val /\ n <= Len(x.val.trans)
          BY <1>1, <1>4, <4>1, <4>2 DEF Extending
        <5> QED
          BY <5>1
      <4>3. CASE q # 1
        <5>1. q - 1 \in 1 .. Len(todo') /\ todo'[q - 1] = todo[q] /\ q \in Nat
          BY <1>2, <4>3
        <5>2. q - 1 < p
          BY <2>2, <4>1, <5>1
        <5> QED
          BY <4>1, <5>1, <5>2
      <4> QED
        BY <4>2, <4>3
    <3> QED
      BY <2>1, <2>3, <3>1, <3>2 DEF InTime
  <2>6. Backed(p)'
    <3> SUFFICES ASSUME y.w = "action", NEW n \in 1 .. Len(y.val.trans), y.val.trans[n].by # "analysis", n < Len(y.val.trans)
                 PROVE  \/ Recorded(y.o, y.s, n)'
                        \/ \E q \in 1 .. Len(todo') : q < p /\ Records(todo'[q], y.o, y.s, n)
      BY <2>1 DEF Backed, Records
    <3>1. y.o \in Opps
      BY WriteTypes
    <3>2. CASE Recorded(y.o, y.s, n)
      BY <1>3, <3>1, <3>2
    <3>3. CASE \E q \in 1 .. Len(todo) : q < p + 1 /\ Records(todo[q], y.o, y.s, n)
      <4>1. PICK q \in 1 .. Len(todo) : q < p + 1 /\ Records(todo[q], y.o, y.s, n)
        BY <3>3
      <4>2. CASE q = 1
        BY <1>1, <1>3, <3>1, <4>1, <4>2
      <4>3. CASE q # 1
        <5>1. q - 1 \in 1 .. Len(todo') /\ todo'[q - 1] = todo[q] /\ q \in Nat
          BY <1>2, <4>3
        <5>2. q - 1 < p
          BY <2>2, <4>1, <5>1
        <5> QED
          BY <4>1, <5>1, <5>2
      <4> QED
        BY <4>2, <4>3
    <3> QED
      BY <2>1, <2>3, <3>2, <3>3 DEF Backed
  <2>7. NotShorter(todo[p])'
    <3> SUFFICES ASSUME y.w = "action" PROVE Len(actions'[y.o][y.s].trans) <= Len(y.val.trans)
      BY <2>1 DEF NotShorter
    <3>1. y.o \in Opps /\ y.s \in Sources
      BY WriteTypes
    <3>2. CASE x.w = "action" /\ x.o = y.o /\ x.s = y.s
      <4>1. actions'[y.o][y.s] = x.val
        BY <1>4, <3>1, <3>2
      <4>2. Len(x.val.trans) = Len(y.val.trans)
        BY <1>1, <1>2, <1>6, <2>1, <2>2, <3>2 DEF SameLength
      <4>3. Len(actions'[y.o][y.s].trans) \in Nat
        BY <1>7, <3>1
      <4> QED
        BY <4>1, <4>2, <4>3
    <3>3. CASE ~(x.w = "action" /\ x.o = y.o /\ x.s = y.s)
      <4>1. actions'[y.o][y.s] = actions[y.o][y.s]
        BY <1>4, <3>1, <3>3
      <4> QED
        BY <2>3, <4>1 DEF NotShorter
    <3> QED
      BY <3>2, <3>3
  <2> QED
    BY <2>4, <2>5, <2>6, <2>7
<1> QED
  BY <1>8, <1>9, <1>10, <1>11, <1>12 DEF Trailed, Ahead

LEMMA TrailedStep ==
  ASSUME CenterTypes, CenterTypes', Trailed, Kinds
  PROVE  Trailed'
<1>1. CASE Settled
  <2>1. actions' = actions /\ changes' = changes /\ todo' = todo
    BY <1>1 DEF Settled
  <2>2. \A o, s, n : Recorded(o, s, n)' <=> Recorded(o, s, n)
    BY <2>1 DEF Recorded
  <2>3. Ahead'
    BY <2>1, <2>2 DEF Trailed, Ahead, IsNew, InTime, Backed, NotShorter
  <2> QED
    BY <2>1, <2>3, SameTrails DEF Trailed
<1>2. ASSUME NEW o \in Opps, Saved(o) PROVE Trailed'
  <2>1. actions' = actions /\ changes' = changes /\ todo' = todo
    BY <1>2 DEF Saved
  <2>2. \A q, s, n : Recorded(q, s, n)' <=> Recorded(q, s, n)
    BY <2>1 DEF Recorded
  <2>3. Ahead'
    BY <2>1, <2>2 DEF Trailed, Ahead, IsNew, InTime, Backed, NotShorter
  <2> QED
    BY <2>1, <2>3, SameTrails DEF Trailed
<1>3. CASE Stopped
  <2>1. actions' = actions /\ changes' = changes /\ todo' = <<>>
    BY <1>3 DEF Stopped
  <2> QED
    BY <2>1, SameTrails, NothingAhead DEF Trailed
<1>4. ASSUME NEW s \in Sources, ForgetTaken(s) PROVE Trailed'
  <2>1. Taken("forget", s) /\ todo' \in Seq(Forgot(s))
    BY <1>4 DEF ForgetTaken, ForgettingOf
  <2>2. ASSUME NEW x \in Forgot(s)
        PROVE  /\ x.w = "change" => x.val.type # "action_transition"
               /\ x.w = "action" => \E o, t : RetractedAction(t, o, x)
    BY DEF Forgot, Logged
  <2>3. \A p \in 1 .. Len(todo') : todo'[p] \in Forgot(s)
    BY <2>1
  <2> QED
    BY <2>1, <2>2, <2>3, TrailedRetract
<1>5. ASSUME NEW s \in Sources, NEW to \in Opps \cup {Unassociated}, CorrectTaken(s, to) PROVE Trailed'
  <2>1. Taken("correct", s) /\ todo' \in Seq(Corrected(s, to))
    BY <1>5 DEF CorrectTaken, CorrectionFor
  <2>2. ASSUME NEW x \in Corrected(s, to)
        PROVE  /\ x.w = "change" => x.val.type # "action_transition"
               /\ x.w = "action" => \E o, t : RetractedAction(t, o, x)
    BY DEF Corrected, Logged
  <2>3. \A p \in 1 .. Len(todo') : todo'[p] \in Corrected(s, to)
    BY <2>1
  <2> QED
    BY <2>1, <2>2, <2>3, TrailedRetract
<1> QED
  BY <1>1, <1>2, <1>3, <1>4, <1>5, TrailedList, TrailedHuman, TrailedCommit, TrailedWritten DEF Kinds

LEMMA TrailedInit ==
  ASSUME Init
  PROVE  Trailed
<1>1. todo = <<>> /\ actions = [o \in Opps |-> [s \in Sources |-> NoAction]] /\ changes = [o \in Opps |-> <<>>]
  BY DEF Init
<1>2. \A o \in Opps : changes[o] = <<>> /\ \A s \in Sources : actions[o][s].trans = <<>>
  BY <1>1, NoActionType
<1>3. Unique /\ Within
  BY <1>2 DEF Unique, Within, Recorded
<1>4. Complete
  BY <1>2 DEF Complete
<1>5. Ahead
  BY <1>1 DEF Ahead, Once, SameLength
<1> QED
  BY <1>3, <1>4, <1>5 DEF Trailed

LEMMA TrailsAreRecorded ==
  ASSUME CenterTypes, Trailed
  PROVE  TransitionsAreRecorded
<1> SUFFICES ASSUME NEW o \in Opps, NEW s \in Sources, NEW n \in 1 .. Len(actions[o][s].trans)
             PROVE  LET Of == {i \in 1 .. Len(changes[o]) : changes[o][i].type = "action_transition"
                                             /\ changes[o][i].subject = s /\ changes[o][i].n = n}
                    IN /\ Cardinality(Of) <= 1
                       /\ actions[o][s].trans[n].by # "analysis" /\ n < Len(actions[o][s].trans) => Of # {}
  BY DEF TransitionsAreRecorded
<1>1. PICK S : S = {i \in 1 .. Len(changes[o]) : changes[o][i].type = "action_transition"
                                             /\ changes[o][i].subject = s /\ changes[o][i].n = n}
  OBVIOUS
<1>2. \A i, k \in S : i = k
  BY <1>1 DEF Trailed, Unique
<1>3. Cardinality(S) <= 1
  <2>1. CASE S = {}
    BY <2>1, FS_EmptySet
  <2>2. CASE S # {}
    <3>1. PICK i : i \in S
      BY <2>2
    <3>2. S = {i}
      BY <1>2, <3>1
    <3>3. Cardinality({i}) = 1
      BY FS_Singleton
    <3> QED
      BY <3>2, <3>3
  <2> QED
    BY <2>1, <2>2
<1>4. ASSUME actions[o][s].trans[n].by # "analysis", n < Len(actions[o][s].trans) PROVE S # {}
  <2>1. Recorded(o, s, n)
    BY <1>4 DEF Trailed, Complete
  <2> QED
    BY <1>1, <2>1 DEF Recorded
<1> QED
  BY <1>1, <1>3, <1>4

\* Of a user's transitions only the last can lack its change, and none has two,
\* whatever was cut off before (_repair_transition_changes runs before every write).
THEOREM Transitions == Spec => []TransitionsAreRecorded
<1> DEFINE Inv == CenterTypes /\ Trailed
<1>1. Init => Inv
  BY InitTypes, TrailedInit, NamesAssumption, CenterAssumption
<1>2. Inv /\ [Next]_vars => Inv'
  BY StepKinds, TrailedStep
<1>3. Inv => TransitionsAreRecorded
  BY TrailsAreRecorded
<1> QED
  BY <1>1, <1>2, <1>3, PTL DEF Spec

-----------------------------------------------------------------------------
(* What is processed is applied.                                           *)

\* An operation under way brings the evidence of a revision; it is there or comes.
Coming(o, s, r) == \E p \in 1 .. Len(todo) : Brings(todo[p], o, s, r)
Sure(o, s, r)   == Evident(o, s, r) \/ Coming(o, s, r)

Asks(v) == v.obs \in {"open", "proposed"}

\* An overview has a version that was made from a revision, and what it asks for
\* is in the actions.
Made(o, c)       == \E i \in 1 .. Len(history[o]) : history[o][i].by = c
Carried(o, s, r) == \E i \in 1 .. Len(history[o]) :
                      history[o][i].by = <<s, r>> /\ (Asks(history[o][i]) => Evident(o, s, r))

MakesVersion(x, o, c) == x.w = "version" /\ x.o = o /\ x.val.by = c
Making(o, c)          == \E p \in 1 .. Len(todo) : MakesVersion(todo[p], o, c)

\* Every revision that an overview cites has a version that was made from it.
Origins == \A o \in Opps : \A i \in 1 .. Len(history[o]) : \A c \in history[o][i].cites :
             c[1] \in Sources => Made(o, c)

Applieds == \A s \in Sources : ledger[s].status = "processed" => Carried(ledger[s].assoc, s, ledger[s].done)

\* Without a fault a revision is applied with its version.
Carrying == counts.faults = 0 =>
  \A o \in Opps : \A s \in Sources : \A r \in Nat :
    Made(o, <<s, r>>) => \/ Carried(o, s, r)
                         \/ Coming(o, s, r) /\ \A p \in 1 .. Len(todo) : todo[p].w # "version"

\* The version after the base of a marker, when it cites the revision, is the one
\* that was promoted, or the revision was applied before.
Own(o, s, r, base) ==
  Len(history[o]) = base + 1 /\ <<s, r>> \in Last(history[o]).cites
    => Last(history[o]).by = <<s, r>> \/ Carried(o, s, r)

Marked(s, m) ==
  m.o \in Opps =>
    /\ m.base <= Len(history[m.o]) /\ Own(m.o, s, m.rev, m.base)
    /\ Len(history[m.o]) = m.base /\ Made(m.o, <<s, m.rev>>) => Carried(m.o, s, m.rev) \/ Making(m.o, <<s, m.rev>>)

Markers == \A s \in Sources : Marked(s, pending[s])

Resumes(s, j) == j.phase = "resume" => j.base < Len(history[j.o]) /\ Own(j.o, s, j.rev, j.base)

Resuming == \A s \in Sources : Resumes(s, jobs[s])

\* What is left to write: a version cites what has a version, or what it is made
\* from; an action keeps its evidence, and all writes of an action have the same;
\* a version comes before the actions it asks for, a source is marked after its
\* version and its actions, a marker is the first and has its version after it.
Sourced(x) == x.w = "version" =>
  \A c \in x.val.cites : c[1] \in Sources => c = x.val.by \/ Made(x.o, c)

Keeps(x) == x.w = "action" => \A r \in Nat : Evident(x.o, x.s, r) => Brings(x, x.o, x.s, r)

Agree(F) == \A p, q \in 1 .. Len(F) :
  F[p].w = "action" /\ F[q].w = "action" /\ F[p].o = F[q].o /\ F[p].s = F[q].s
  => \A r \in Nat : Brings(F[p], F[p].o, F[p].s, r) => Brings(F[q], F[p].o, F[p].s, r)

Asked(p) == todo[p].w = "version" /\ Asks(todo[p].val) =>
  /\ \A q \in 1 .. Len(todo) : todo[q].w = "version" => q = p
  /\ \A q \in 1 .. Len(todo) : todo[q].w = "action" => p < q
  /\ \E s \in Sources, r \in Nat : todo[p].val.by = <<s, r>> /\ Sure(todo[p].o, s, r)

Backs(v, o, s, r) == v.by = <<s, r>> /\ (Asks(v) => Sure(o, s, r))

Marking(p) == todo[p].w = "source" /\ todo[p].val.status = "processed" =>
  /\ \A q \in 1 .. Len(todo) : todo[q].w \in {"action", "version"} => q < p
  /\ \/ \E i \in 1 .. Len(history[todo[p].val.assoc]) :
          Backs(history[todo[p].val.assoc][i], todo[p].val.assoc, todo[p].s, todo[p].val.done)
     \/ \E q \in 1 .. Len(todo) : /\ todo[q].w = "version" /\ todo[q].o = todo[p].val.assoc
                                  /\ Backs(todo[q].val, todo[p].val.assoc, todo[p].s, todo[p].val.done)

Owing(p) == todo[p].w = "pending" /\ todo[p].val.o \in Opps =>
  /\ p = 1 /\ Len(history[todo[p].val.o]) = todo[p].val.base
  /\ Making(todo[p].val.o, <<todo[p].s, todo[p].val.rev>>)

Holds == Origins /\ Applieds /\ Carrying /\ Markers /\ Resuming

Leaves ==
  /\ Agree(todo)
  /\ \A p \in 1 .. Len(todo) : Sourced(todo[p]) /\ Keeps(todo[p]) /\ Asked(p) /\ Marking(p) /\ Owing(p)

\* What every step does to the faults, the markers and the resumptions.
Relaunched(t) ==
  /\ Idle /\ pending[t].o \in Opps /\ Len(history[pending[t].o]) = pending[t].base + 1
  /\ jobs'[t].o = pending[t].o /\ jobs'[t].rev = pending[t].rev /\ jobs'[t].base = pending[t].base

Turn ==
  /\ counts.faults <= counts'.faults
  /\ \/ Written
     \/ \A t \in Sources : pending'[t] = pending[t] \/ pending'[t] = NoPending
  /\ \A t \in Sources : jobs'[t].phase = "resume" => jobs'[t] = jobs[t] \/ Relaunched(t)
  /\ todo # <<>> /\ todo' = <<>> => Written \/ counts.faults < counts'.faults

LEMMA FaultsCounted ==
  ASSUME CenterTypes
  PROVE  /\ counts.faults \in Nat
         /\ Requested => counts'.faults = counts.faults
         /\ Chance("faults", MaxFaults) => counts'.faults = counts.faults + 1
         /\ Cut => counts'.faults = counts.faults + 1
<1>1. counts \in [requests : Nat, faults : Nat, torn : BOOLEAN]
  BY DEF CenterTypes, RunTypes
<1>2. Requested => counts'.faults = counts.faults
  BY <1>1 DEF Requested, Chance
<1>3. Chance("faults", MaxFaults) => counts'.faults = counts.faults + 1
  BY <1>1 DEF Chance
<1>4. Cut => counts'.faults = counts.faults + 1
  BY <1>1 DEF Cut
<1> QED
  BY <1>1, <1>2, <1>3, <1>4

\* A step that starts no resumption and loses no write.
LEMMA PlainTurn ==
  ASSUME CenterTypes, counts'.faults = counts.faults \/ counts'.faults = counts.faults + 1,
         \A t \in Sources : pending'[t] = pending[t] \/ pending'[t] = NoPending,
         \A t \in Sources : jobs'[t] = jobs[t] \/ jobs'[t].phase # "resume",
         todo' = todo \/ Idle \/ counts'.faults = counts.faults + 1
  PROVE  Turn
<1>1. counts.faults \in Nat
  BY FaultsCounted
<1>2. Idle => todo = <<>>
  BY NothingTodo
<1> QED
  BY <1>1, <1>2 DEF Turn

LEMMA UserTurn ==
  ASSUME CenterTypes, NEW s \in Sources, User(s)
  PROVE  Turn
<1>1. ASSUME Requested, UNCHANGED <<pending, jobs>>, todo' = todo \/ Idle PROVE Turn
  BY <1>1, FaultsCounted, PlainTurn
<1>2. ASSUME NEW a \in Imports, Import(s, a) PROVE Turn
  BY <1>1, <1>2 DEF Import
<1>3. CASE Propose(s) \/ Retry(s)
  BY <1>1, <1>3 DEF Propose, Retry
<1>4. ASSUME NEW to \in Opps \cup {Unassociated}, Correct(s, to) PROVE Turn
  BY <1>1, <1>4 DEF Correct, stored
<1>5. CASE Forget(s)
  BY <1>1, <1>5 DEF Forget, stored
<1>6. ASSUME NEW o \in Opps, Undo(o, s) \/ \E to \in Targets : Transition(o, s, to) PROVE Turn
  BY <1>1, <1>6 DEF Undo, Transition, HumanMay, stored
<1>7. ASSUME NEW b \in 0 .. MaxVersions, NEW kind, BeginStart(s, kind, b) PROVE Turn
  BY <1>1, <1>7 DEF BeginStart, stored
<1> QED
  BY <1>2, <1>3, <1>4, <1>5, <1>6, <1>7 DEF User

LEMMA JobTurn ==
  ASSUME CenterTypes, NEW s \in Sources, Job(s)
  PROVE  Turn
<1>1. jobs \in [Sources -> JobRec] /\ pending \in [Sources -> Marker] /\ NoJob.phase = "none"
  BY NoJobType DEF CenterTypes, RunTypes, StoredTypes
<1>2. FailJob(s) => \A t \in Sources : jobs'[t] = jobs[t] \/ jobs'[t].phase # "resume"
  BY <1>1 DEF FailJob
<1>3. \A phase : phase # "resume" /\ jobs' = [jobs EXCEPT ![s].phase = phase]
                 => \A t \in Sources : jobs'[t] = jobs[t] \/ jobs'[t].phase # "resume"
  BY <1>1 DEF JobRec
<1>4. CASE Analyse(s)
  <2>1. \A t \in Sources : jobs'[t] = jobs[t] \/ jobs'[t].phase # "resume"
    BY <1>2, <1>3, <1>4 DEF Analyse
  <2> QED
    BY <1>4, <2>1, PlainTurn DEF Analyse
<1>5. ASSUME NEW obs \in Observations, Answer(s, obs) PROVE Turn
  <2>1. jobs' = [jobs EXCEPT ![s].phase = "commit", ![s].obs = obs]
    BY <1>5 DEF Answer
  <2>2. \A t \in Sources : jobs'[t] = jobs[t] \/ jobs'[t].phase # "resume"
    BY <1>1, <2>1 DEF JobRec
  <2> QED
    BY <1>5, <2>2, PlainTurn DEF Answer, stored
<1>6. CASE ModelFails(s)
  BY <1>2, <1>6, FaultsCounted, PlainTurn DEF ModelFails
<1>7. CASE Commit(s)
  BY <1>2, <1>7, PlainTurn DEF Commit
<1>8. CASE Resume(s)
  <2>1. Idle /\ counts' = counts
    BY <1>8 DEF Resume
  <2>2. \/ jobs' = jobs /\ pending' = pending
        \/ jobs' = [jobs EXCEPT ![s] = NoJob] /\ (pending' = pending \/ pending' = [pending EXCEPT ![s] = NoPending])
    BY <1>8 DEF Resume
  <2>3. \A t \in Sources : jobs'[t] = jobs[t] \/ jobs'[t].phase # "resume"
    BY <1>1, <2>2
  <2>4. \A t \in Sources : pending'[t] = pending[t] \/ pending'[t] = NoPending
    BY <1>1, <2>2
  <2> QED
    BY <2>1, <2>3, <2>4, PlainTurn
<1> QED
  BY <1>4, <1>5, <1>6, <1>7, <1>8 DEF Job

LEMMA StartTurn ==
  ASSUME CenterTypes, StartRefused \/ StartResumes \/ StartRuns
  PROVE  Turn
<1>1. jobs \in [Sources -> JobRec] /\ pending \in [Sources -> Marker]
  BY DEF CenterTypes, RunTypes, StoredTypes
<1>2. CASE StartRefused
  BY <1>2, PlainTurn DEF StartRefused, stored
<1>3. ASSUME start # NoStart
      PROVE  start.s \in Sources /\ start.snap.assoc \in Opps
  BY <1>3 DEF CenterTypes, RunTypes, Associated
<1>4. CASE StartRuns
  <2>1. PICK s \in Sources : s = start.s
    BY <1>3, <1>4 DEF StartRuns
  <2>2. /\ Idle /\ counts' = counts /\ pending' = [pending EXCEPT ![s] = NoPending]
        /\ jobs' = jobs \/ \E o, rev, base, seq : Launch(s, "ready", o, rev, base, seq)
    BY <1>4, <2>1 DEF StartRuns
  <2>3. \A t \in Sources : jobs'[t] = jobs[t] \/ jobs'[t].phase # "resume"
    BY <1>1, <2>2 DEF Launch, NoJob
  <2>4. \A t \in Sources : pending'[t] = pending[t] \/ pending'[t] = NoPending
    BY <1>1, <2>2
  <2> QED
    BY <2>2, <2>3, <2>4, PlainTurn
<1>5. CASE StartResumes
  <2>1. PICK s \in Sources : s = start.s /\ start.snap.assoc \in Opps
    BY <1>3, <1>5 DEF StartResumes
  <2>2. PICK m : m = pending[s]
    OBVIOUS
  <2>3. /\ Idle /\ counts' = counts /\ pending' = pending
        /\ jobs' = jobs \/ Launch(s, "resume", m.o, m.rev, m.base, m.seq)
        /\ Resumable(start)
    BY <1>5, <2>1, <2>2 DEF StartResumes
  <2>4. m.o \in Opps /\ Len(history[m.o]) = m.base + 1
    BY <2>1, <2>2, <2>3 DEF Resumable, Belongs, PromotedFor
  <2>5. \A t \in Sources : jobs'[t] = jobs[t] \/ Relaunched(t)
    <3> SUFFICES ASSUME NEW t \in Sources, jobs'[t] # jobs[t] PROVE Relaunched(t)
      OBVIOUS
    <3>1. jobs' = [jobs EXCEPT ![s] = [NoJob EXCEPT !.phase = "resume", !.o = m.o, !.rev = m.rev, !.base = m.base, !.seq = m.seq]]
      BY <2>3 DEF Launch
    <3>2. t = s
      BY <1>1, <3>1
    <3>3. jobs'[t] = [NoJob EXCEPT !.phase = "resume", !.o = m.o, !.rev = m.rev, !.base = m.base, !.seq = m.seq]
      BY <1>1, <3>1, <3>2
    <3>4. jobs'[t].o = m.o /\ jobs'[t].rev = m.rev /\ jobs'[t].base = m.base
      BY <3>3 DEF NoJob
    <3> QED
      BY <2>2, <2>3, <2>4, <3>2, <3>4 DEF Relaunched
  <2>6. counts.faults \in Nat /\ todo = <<>>
    BY <2>3, FaultsCounted, NothingTodo
  <2> QED
    BY <2>3, <2>5, <2>6 DEF Turn
<1> QED
  BY <1>2, <1>4, <1>5

LEMMA TurnStep ==
  ASSUME CenterTypes, [Next]_vars
  PROVE  Turn
<1>1. jobs \in [Sources -> JobRec] /\ pending \in [Sources -> Marker] /\ NoJob.phase = "none" /\ counts.faults \in Nat
  BY NoJobType, FaultsCounted DEF CenterTypes, RunTypes, StoredTypes
<1>2. Release /\ CenterTypes => \A t \in Sources : jobs'[t] = jobs[t] \/ jobs'[t].phase # "resume"
  BY <1>1 DEF Release
<1>3. ASSUME NEW o \in Opps, ListChanges(o) PROVE Turn
  BY <1>3, PlainTurn DEF ListChanges, stored
<1>4. ASSUME NEW o \in Opps, OtherVersion(o) PROVE Turn
  BY <1>4, FaultsCounted, PlainTurn DEF OtherVersion
<1>5. CASE Write
  <2>1. Written
    BY <1>5, WriteStep
  <2>2. \A t \in Sources : jobs'[t] = jobs[t] \/ jobs'[t].phase # "resume"
    BY <1>2, <1>5 DEF Write
  <2>3. counts' = counts
    BY <1>5 DEF Write
  <2> QED
    BY <1>1, <2>1, <2>2, <2>3 DEF Turn
<1>6. CASE WriteFails
  <2>1. counts'.faults = counts.faults + 1
    BY <1>6, FaultsCounted DEF WriteFails
  <2>2. \A t \in Sources : jobs'[t] = jobs[t] \/ jobs'[t].phase # "resume"
    BY <1>2, <1>6 DEF WriteFails
  <2>3. \A t \in Sources : pending'[t] = pending[t] \/ pending'[t] = NoPending
    BY <1>1, <1>6 DEF WriteFails
  <2> QED
    BY <2>1, <2>2, <2>3, PlainTurn
<1>7. CASE Crash
  <2>1. counts'.faults = counts.faults + 1
    BY <1>7, FaultsCounted DEF Crash
  <2>2. \A t \in Sources : jobs'[t].phase # "resume"
    BY <1>1, <1>7 DEF Crash
  <2> QED
    BY <1>7, <2>1, <2>2, PlainTurn DEF Crash, stored
<1>8. CASE UNCHANGED vars
  BY <1>8, PlainTurn DEF vars
<1> QED
  BY <1>3, <1>4, <1>5, <1>6, <1>7, <1>8, UserTurn, JobTurn, StartTurn DEF Next

\* What is known of the versions while they and the actions are the same.
LEMMA SameStore ==
  ASSUME history' = history, actions' = actions
  PROVE  /\ \A o, c : Made(o, c)' <=> Made(o, c)
         /\ \A o, s, r : Evident(o, s, r)' <=> Evident(o, s, r)
         /\ \A o, s, r : Carried(o, s, r)' <=> Carried(o, s, r)
         /\ \A o, s, r, base : Own(o, s, r, base)' <=> Own(o, s, r, base)
<1>1. \A o, c : Made(o, c)' <=> Made(o, c)
  BY DEF Made
<1>2. \A o, s, r : Evident(o, s, r)' <=> Evident(o, s, r)
  BY DEF Evident
<1>3. \A o, s, r : Carried(o, s, r)' <=> Carried(o, s, r)
  BY <1>2 DEF Carried
<1>4. \A o, s, r, base : Own(o, s, r, base)' <=> Own(o, s, r, base)
  BY <1>3 DEF Own
<1> QED
  BY <1>1, <1>2, <1>3, <1>4

\* No marker that is empty asks for anything.
LEMMA EmptyMarker == ASSUME NamesAssumption, NEW s PROVE Marked(s, NoPending)
  BY DEF NamesAssumption, NoPending, Marked

\* A step that writes nothing: the lock is free before it, or what is left to
\* write is the same or lost.
LEMMA HoldsQuiet ==
  ASSUME NamesAssumption, CenterTypes, Holds, Turn, ~Written, history' = history, actions' = actions,
         \A s \in Sources : ledger'[s].status = "processed" =>
           ledger[s].status = "processed" /\ ledger'[s].assoc = ledger[s].assoc /\ ledger'[s].done = ledger[s].done,
         todo' = todo \/ todo = <<>> \/ counts.faults < counts'.faults, counts'.faults \in Nat, counts'.faults <= 1
  PROVE  Holds'
<1>1. /\ \A o, c : Made(o, c)' <=> Made(o, c)
      /\ \A o, s, r : Evident(o, s, r)' <=> Evident(o, s, r)
      /\ \A o, s, r : Carried(o, s, r)' <=> Carried(o, s, r)
      /\ \A o, s, r, base : Own(o, s, r, base)' <=> Own(o, s, r, base)
  BY SameStore
<1>2. counts.faults \in Nat /\ counts.faults <= counts'.faults
  BY FaultsCounted DEF Turn
<1>3. Origins'
  BY <1>1 DEF Holds, Origins
<1>4. Applieds'
  BY <1>1 DEF Holds, Applieds
<1>5. \A o, s, r : Coming(o, s, r) => Coming(o, s, r)' \/ counts'.faults # 0
  BY <1>2 DEF Coming
<1>6. Carrying'
  <2> SUFFICES ASSUME counts'.faults = 0, NEW o \in Opps, NEW s \in Sources, NEW r \in Nat, Made(o, <<s, r>>)
               PROVE  \/ Carried(o, s, r)
                      \/ Coming(o, s, r)' /\ \A p \in 1 .. Len(todo') : todo'[p].w # "version"
    BY <1>1 DEF Carrying
  <2>1. counts.faults = 0 /\ (todo' = todo \/ todo = <<>>)
    BY <1>2
  <2>2. Carried(o, s, r) \/ (Coming(o, s, r) /\ \A p \in 1 .. Len(todo) : todo[p].w # "version")
    BY <2>1 DEF Holds, Carrying
  <2>3. todo = <<>> => ~Coming(o, s, r)
    BY DEF Coming
  <2> QED
    BY <1>5, <2>1, <2>2, <2>3
<1>7. ASSUME NEW o \in Opps, NEW s \in Sources, NEW r \in Nat, Made(o, <<s, r>>), Making(o, <<s, r>>)
      PROVE  Carried(o, s, r) \/ Making(o, <<s, r>>)'
  <2>1. CASE todo' = todo
    BY <1>7, <2>1 DEF Making
  <2>2. CASE todo = <<>>
    BY <1>7, <2>2 DEF Making
  <2>3. CASE counts.faults < counts'.faults
    <3>1. counts.faults = 0
      BY <1>2, <2>3
    <3>2. \E p \in 1 .. Len(todo) : todo[p].w = "version"
      BY <1>7 DEF Making, MakesVersion
    <3> QED
      BY <1>7, <3>1, <3>2 DEF Holds, Carrying
  <2> QED
    BY <2>1, <2>2, <2>3
<1>8. Markers'
  <2> SUFFICES ASSUME NEW s \in Sources, NEW k, k = pending'[s] PROVE Marked(s, k)'
    BY DEF Markers
  <2>1. k = pending[s] \/ k = NoPending
    BY DEF Turn
  <2>2. CASE k = NoPending
    BY <2>2 DEF NamesAssumption, NoPending, Marked
  <2>3. CASE k = pending[s]
    <3>1. k \in Marker
      BY <2>3 DEF CenterTypes, StoredTypes
    <3>2. Marked(s, k)
      BY <2>3 DEF Holds, Markers
    <3>3. k.rev \in Nat
      BY <3>1 DEF Marker
    <3> QED
      BY <1>1, <1>7, <3>2, <3>3 DEF Marked
  <2> QED
    BY <2>1, <2>2, <2>3
<1>9. Resuming'
  <2> SUFFICES ASSUME NEW s \in Sources, jobs'[s].phase = "resume"
               PROVE  jobs'[s].base < Len(history[jobs'[s].o]) /\ Own(jobs'[s].o, s, jobs'[s].rev, jobs'[s].base)
    BY <1>1 DEF Resuming, Resumes
  <2>1. CASE jobs'[s] = jobs[s]
    BY <2>1 DEF Holds, Resuming, Resumes
  <2>2. CASE Relaunched(s)
    <3>1. PICK m \in Marker : m = pending[s]
      BY DEF CenterTypes, StoredTypes
    <3>2. m.o \in Opps /\ Len(history[m.o]) = m.base + 1 /\ jobs'[s].o = m.o /\ jobs'[s].rev = m.rev /\ jobs'[s].base = m.base
      BY <2>2, <3>1 DEF Relaunched
    <3>3. Own(m.o, s, m.rev, m.base)
      BY <3>1, <3>2 DEF Holds, Markers, Marked
    <3>4. m.base \in Nat
      BY <3>1 DEF Marker
    <3> QED
      BY <3>2, <3>3, <3>4
  <2> QED
    BY <2>1, <2>2 DEF Turn
<1> QED
  BY <1>3, <1>4, <1>6, <1>8, <1>9 DEF Holds

\* What is left is the same while it, the versions and the actions are.
LEMMA LeavesSame ==
  ASSUME Leaves, todo' = todo, history' = history, actions' = actions
  PROVE  Leaves'
<1>1. /\ \A o, c : Made(o, c)' <=> Made(o, c)
      /\ \A o, s, r : Evident(o, s, r)' <=> Evident(o, s, r)
  BY SameStore
<1>2. \A o, s, r : Sure(o, s, r)' <=> Sure(o, s, r)
  BY <1>1 DEF Sure, Coming
<1>3. \A v, o, s, r : Backs(v, o, s, r)' <=> Backs(v, o, s, r)
  BY <1>2 DEF Backs
<1>4. ASSUME NEW p \in 1 .. Len(todo)
      PROVE  Sourced(todo[p])' /\ Keeps(todo[p])' /\ Asked(p)' /\ Marking(p)' /\ Owing(p)'
  <2>1. Sourced(todo[p]) /\ Keeps(todo[p]) /\ Asked(p) /\ Marking(p) /\ Owing(p)
    BY DEF Leaves
  <2>2. Sourced(todo[p])' /\ Keeps(todo[p])'
    BY <1>1, <2>1 DEF Sourced, Keeps
  <2>3. Asked(p)'
    BY <1>2, <2>1 DEF Asked
  <2>4. Marking(p)'
    BY <1>3, <2>1 DEF Marking
  <2>5. Owing(p)'
    BY <2>1 DEF Owing, Making
  <2> QED
    BY <2>2, <2>3, <2>4, <2>5
<1>5. Agree(todo)'
  BY DEF Leaves, Agree
<1> QED
  BY <1>4, <1>5 DEF Leaves

LEMMA NothingLeft == ASSUME todo' = <<>> PROVE Leaves'
  BY DEF Leaves, Agree

\* An action that keeps what is evident from it.
SameSaying(x) ==
  /\ x.val.evidence = actions[x.o][x.s].evidence
  /\ x.val.trans = <<>> <=> actions[x.o][x.s].trans = <<>>

\* A write that applies nothing.
PlainKind(x) ==
  /\ x.w = "action" => SameSaying(x)
  /\ x.w = "version" => ~Asks(x.val) /\ Sourced(x)
  /\ x.w = "source" => x.val.status # "processed"
  /\ x.w = "pending" => x.val = NoPending

LEMMA LeavesPlain ==
  ASSUME NamesAssumption, history' = history, actions' = actions,
         \A p \in 1 .. Len(todo') : PlainKind(todo'[p])
  PROVE  Leaves'
<1>1. /\ \A o, c : Made(o, c)' <=> Made(o, c)
      /\ \A o, s, r : Evident(o, s, r)' <=> Evident(o, s, r)
  BY SameStore
<1>2. \A x : x.w = "action" /\ SameSaying(x) => \A r : Brings(x, x.o, x.s, r) <=> Evident(x.o, x.s, r)
  BY DEF SameSaying, Brings, Evident
<1>3. Agree(todo')
  <2> SUFFICES ASSUME NEW p \in 1 .. Len(todo'), NEW q \in 1 .. Len(todo'), NEW x, NEW y, x = todo'[p], y = todo'[q],
                      x.w = "action", y.w = "action", x.o = y.o, x.s = y.s, NEW r \in Nat, Brings(x, x.o, x.s, r)
               PROVE  Brings(y, x.o, x.s, r)
    BY DEF Agree
  <2>1. SameSaying(x) /\ SameSaying(y)
    BY DEF PlainKind
  <2> QED
    BY <1>2, <2>1
<1>4. ASSUME NEW p \in 1 .. Len(todo')
      PROVE  Sourced(todo[p])' /\ Keeps(todo[p])' /\ Asked(p)' /\ Marking(p)' /\ Owing(p)'
  <2>1. PICK x : x = todo'[p]
    OBVIOUS
  <2>2. PlainKind(x)
    BY <2>1
  <2>3. Sourced(todo[p])' /\ Keeps(todo[p])'
    BY <1>1, <1>2, <2>1, <2>2 DEF PlainKind, Sourced, Keeps
  <2>4. Asked(p)' /\ Marking(p)'
    BY <2>1, <2>2 DEF PlainKind, Asked, Marking
  <2>5. Owing(p)'
    BY <2>1, <2>2 DEF PlainKind, Owing, NoPending, NamesAssumption
  <2> QED
    BY <2>3, <2>4, <2>5
<1>5. Agree(todo)'
  BY <1>3 DEF Agree
<1> QED
  BY <1>4, <1>5 DEF Leaves

LEMMA LeavesList ==
  ASSUME NamesAssumption, NEW o \in Opps, ListTaken(o)
  PROVE  Leaves'
<1>1. \A x \in AllRepaired(o) : PlainKind(x)
  BY ModelVersions DEF PlainKind
<1>2. \A p \in 1 .. Len(todo') : PlainKind(todo'[p])
  BY <1>1 DEF ListTaken
<1>3. history' = history /\ actions' = actions
  BY DEF ListTaken, Taken, stored
<1> QED
  BY <1>2, <1>3, LeavesPlain

LEMMA LeavesHuman ==
  ASSUME NamesAssumption, CenterTypes, NEW o \in Opps, NEW s \in Sources, HumanTaken(o, s)
  PROVE  Leaves'
<1>1. \A x \in Repaired(o, s) : PlainKind(x)
  BY DEF Repaired, Records, PlainKind
<1>2. \A x : Records(x, o, s, Len(actions[o][s].trans) + 1) => PlainKind(x)
  BY DEF Records, PlainKind
<1>3. ASSUME NEW x, MovedAction(o, s, x) PROVE PlainKind(x)
  <2>1. actions[o][s] \in Action /\ actions[o][s].trans # <<>>
    BY DEF HumanTaken, HumanMay, Exists, CenterTypes, StoredTypes
  <2>2. PICK T \in Seq(Move) : T = actions[o][s].trans
    BY <2>1 DEF Action, Trail
  <2>3. PICK m \in Move : x.val.trans = Append(T, m)
    BY <1>3, <2>2 DEF MovedAction
  <2>4. x.val.trans # <<>>
    BY <2>2, <2>3, Appended
  <2> QED
    BY <1>3, <2>1, <2>4 DEF MovedAction, PlainKind, SameSaying
<1>4. \A p \in 1 .. Len(todo') : PlainKind(todo'[p])
  BY <1>1, <1>2, <1>3, HumanParts
<1>5. history' = history /\ actions' = actions
  BY DEF HumanTaken, Taken, stored
<1> QED
  BY <1>4, <1>5, LeavesPlain

LEMMA RetractedPlain ==
  ASSUME NEW s, NEW o, NEW x, RetractedAction(s, o, x)
  PROVE  PlainKind(x)
  BY DEF RetractedAction, PlainKind, SameSaying

\* A version with less than what another has cites what has a version.
LEMMA OldCitations ==
  ASSUME Origins, NEW o \in Opps, NEW i \in 1 .. Len(history[o]), NEW x, x.w = "version", x.o = o,
         x.val.cites \subseteq history[o][i].cites
  PROVE  Sourced(x)
  BY DEF Origins, Sourced

LEMMA LeavesForget ==
  ASSUME NamesAssumption, CenterTypes, Holds, NEW s \in Sources, ForgetTaken(s)
  PROVE  Leaves'
<1>1. ASSUME NEW x \in Forgot(s) PROVE PlainKind(x)
  <2>1. x.w = "action" => PlainKind(x)
    BY <1>1, RetractedPlain DEF Forgot, Logged
  <2>2. x.w = "source" => x.val = NoSource
    BY <1>1 DEF Forgot, Logged, RetractedAction
  <2>3. NoSource.status # "processed"
    BY DEF NoSource
  <2>4. x.w = "pending" => x.val = NoPending
    BY <1>1 DEF Forgot, Logged, RetractedAction
  <2>5. ASSUME x.w = "version" PROVE ~Asks(x.val) /\ Sourced(x)
    <3>1. x \in Writes /\ ForgetVersion(s, x.o, x.val)
      BY <1>1, <2>5 DEF Forgot, Logged, RetractedAction
    <3>2. PICK o \in Opps : o = x.o
      BY <2>5, <3>1, WriteTypes
    <3>3. PICK f \in Attributed(o, s) : TRUE
      BY <3>1, <3>2 DEF ForgetVersion
    <3>4. PICK H \in Seq(Version) : H = history[o]
      BY DEF CenterTypes, StoredTypes
    <3>5. f \in 2 .. Len(H)
      BY <3>3, <3>4 DEF Attributed
    <3>6. Len(H) \in 1 .. Len(H) /\ Last(H) = H[Len(H)]
      BY <3>5 DEF Last
    <3>7. x.val.cites \subseteq H[Len(H)].cites
      BY <3>1, <3>2, <3>4, <3>6 DEF ForgetVersion
    <3>8. Sourced(x)
      BY <2>5, <3>2, <3>4, <3>6, <3>7, OldCitations DEF Holds
    <3> QED
      BY <3>1, <3>8 DEF ForgetVersion, Asks
  <2> QED
    BY <2>1, <2>2, <2>3, <2>4, <2>5 DEF PlainKind
<1>2. \A p \in 1 .. Len(todo') : PlainKind(todo'[p])
  BY <1>1 DEF ForgetTaken, ForgettingOf
<1>3. history' = history /\ actions' = actions
  BY DEF ForgetTaken, Taken, stored
<1> QED
  BY <1>2, <1>3, LeavesPlain

LEMMA LeavesCorrect ==
  ASSUME NamesAssumption, CenterTypes, Holds, NEW s \in Sources, NEW to \in Opps \cup {Unassociated}, CorrectTaken(s, to)
  PROVE  Leaves'
<1>1. ASSUME NEW x \in Corrected(s, to) PROVE PlainKind(x)
  <2>1. x.w = "action" => PlainKind(x)
    BY <1>1, RetractedPlain DEF Corrected, Logged
  <2>2. x.w = "source" => x.val.status # "processed"
    BY <1>1 DEF Corrected, Logged, RetractedAction
  <2>3. x.w = "pending" => x.val = NoPending
    BY <1>1 DEF Corrected, Logged, RetractedAction
  <2>4. ASSUME x.w = "version" PROVE ~Asks(x.val) /\ Sourced(x)
    <3>1. x \in Writes /\ RevertVersion(s, x.o, x.val)
      BY <1>1, <2>4 DEF Corrected, Logged, RetractedAction
    <3>2. PICK o \in Opps : o = x.o
      BY <2>4, <3>1, WriteTypes
    <3>3. PICK i \in CleanVersions(o, s) : x.val.cites = history[o][i].cites /\ x.val.obs = "nothing"
      BY <3>1, <3>2 DEF RevertVersion
    <3>4. i \in 1 .. Len(history[o])
      BY <3>3 DEF CleanVersions, Visible
    <3>5. Sourced(x)
      BY <2>4, <3>2, <3>3, <3>4, OldCitations DEF Holds
    <3> QED
      BY <3>3, <3>5 DEF Asks
  <2> QED
    BY <2>1, <2>2, <2>3, <2>4 DEF PlainKind
<1>2. \A p \in 1 .. Len(todo') : PlainKind(todo'[p])
  BY <1>1 DEF CorrectTaken, CorrectionFor
<1>3. history' = history /\ actions' = actions
  BY DEF CorrectTaken, Taken, stored
<1> QED
  BY <1>2, <1>3, LeavesPlain

\* Two writes and the others after them.
LEMMA TwoBefore ==
  ASSUME NEW X, NEW m \in X, NEW x \in X, NEW C \in Seq(X), NEW F, F = (<<m>> \o <<x>>) \o C
  PROVE  /\ 1 \in 1 .. Len(F) /\ 2 \in 1 .. Len(F) /\ F[1] = m /\ F[2] = x
         /\ \A k \in 1 .. Len(C) : k + 2 \in 1 .. Len(F) /\ F[k + 2] = C[k]
         /\ \A p \in 1 .. Len(F) : p = 1 \/ p = 2 \/ \E k \in 1 .. Len(C) : p = k + 2
<1> DEFINE B == <<m>> \o <<x>>
<1>1. B \in Seq(X) /\ Len(B) = 2 /\ B[1] = m /\ B[2] = x
  OBVIOUS
<1> HIDE DEF B
<1>2. F = B \o C
  BY DEF B
<1>3. Len(F) = 2 + Len(C) /\ Len(C) \in Nat
  BY <1>1, <1>2
<1>4. F[1] = m /\ F[2] = x
  BY <1>1, <1>2, <1>3
<1>5. \A k \in 1 .. Len(C) : k + 2 \in 1 .. Len(F) /\ F[k + 2] = C[k]
  BY <1>1, <1>2, <1>3
<1>6. ASSUME NEW p \in 1 .. Len(F), p # 1, p # 2 PROVE \E k \in 1 .. Len(C) : p = k + 2
  <2>1. p - 2 \in 1 .. Len(C) /\ p = (p - 2) + 2
    BY <1>3, <1>6
  <2> QED
    BY <2>1
<1> QED
  BY <1>3, <1>4, <1>5, <1>6

\* The actions of an application keep what is evident, and agree.
LEMMA ApplyingKeeps ==
  ASSUME NEW C, NEW o, NEW s, NEW rev, NEW obs, Applying(C, o, s, rev, obs)
  PROVE  /\ \A p \in 1 .. Len(C) : Keeps(C[p])
         /\ Agree(C)
<1>1. CASE \A p \in 1 .. Len(C) : C[p].w = "action" => SameAction(C[p])
  BY <1>1 DEF SameAction, Keeps, Agree, Evident, Brings
<1>2. CASE \A p \in 1 .. Len(C) : C[p].w = "action" => LinkedAction(o, s, rev, C[p])
  <2>1. \A p \in 1 .. Len(C) : Keeps(C[p])
    BY <1>2 DEF LinkedAction, Keeps, Evident, Brings
  <2>2. Agree(C)
    BY <1>2 DEF LinkedAction, Agree, Brings
  <2> QED
    BY <2>1, <2>2
<1> QED
  BY <1>1, <1>2 DEF Applying

\* The source of an application.
LEMMA FinishedSource ==
  ASSUME NEW o, NEW s, NEW x \in Finished(o, s)
  PROVE  /\ x.w # "version"
         /\ x.w = "source" => x.s = s /\ x.val.done = ledger[s].rev /\ x.val.assoc = ledger[s].assoc
<1>1. x.w # "version"
  BY FinishedWrites
<1>2. x.w = "source" => x \notin Applied(o, s)
  BY DEF Applied, Logged, AppliedAction
<1> QED
  BY <1>1, <1>2 DEF Finished, SameEvidence

LEMMA LeavesCommit ==
  ASSUME NamesAssumption, CenterTypes, Holds, NEW s \in Sources, CommitTaken(s)
  PROVE  Leaves'
<1>1. PICK j \in JobRec : j = jobs[s] /\ j.rev \in Nat /\ j.base \in Nat
  BY DEF CenterTypes, RunTypes, JobRec
<1>2. PICK o \in Opps : o = j.o
  BY <1>1 DEF CommitTaken
<1>3. /\ ledger[s].rev = j.rev /\ ledger[s].assoc = o
      /\ history' = history /\ actions' = actions
  BY <1>1, <1>2 DEF CommitTaken, SourceUnchanged, Taken, stored
<1>4. PICK C \in Seq(Finished(o, s)) :
       \/ /\ j.phase = "commit" /\ CanPromote(j) /\ Completing(C, o, s, j.rev, j.obs)
          /\ \E m, x \in Writes : /\ m.w = "pending" /\ m.s = s
                                  /\ m.val.o = o /\ m.val.rev = j.rev /\ m.val.base = j.base
                                  /\ x.w = "version" /\ x.o = o /\ x.val = NewVersion(s, j)
                                  /\ todo' = (<<m>> \o <<x>>) \o C
       \/ /\ j.phase = "resume" /\ <<s, j.rev>> \in Last(history[o]).cites
          /\ Len(history[o]) = j.base + 1 /\ Completing(C, o, s, j.rev, Last(history[o]).obs)
          /\ todo' = C
  BY <1>1, <1>2 DEF CommitTaken
<1>5. \A p \in 1 .. Len(C) : C[p] \in Finished(o, s)
  OBVIOUS
<1>6. /\ \A q, c : Made(q, c)' <=> Made(q, c)
      /\ \A q, t, r : Evident(q, t, r)' <=> Evident(q, t, r)
  BY <1>3, SameStore
<1>7. \A x : (Keeps(x)' <=> Keeps(x)) /\ (Sourced(x)' <=> Sourced(x))
  BY <1>6 DEF Keeps, Sourced
<1>8. \A p \in 1 .. Len(C) : C[p].w # "version" /\ Keeps(C[p]) /\ Sourced(C[p])
  <2>1. \A p \in 1 .. Len(C) : C[p].w # "version"
    BY <1>5, FinishedSource
  <2>2. \E obs : Applying(C, o, s, j.rev, obs)
    BY <1>4 DEF Completing
  <2> QED
    BY <2>1, <2>2, ApplyingKeeps DEF Sourced
<1>9. Agree(C)
  <2>1. \E obs : Applying(C, o, s, j.rev, obs)
    BY <1>4 DEF Completing
  <2> QED
    BY <2>1, ApplyingKeeps
<1>10. \A p \in 1 .. Len(C) : C[p].w = "source" => C[p].s = s /\ C[p].val.done = j.rev /\ C[p].val.assoc = o
  BY <1>3, <1>5, FinishedSource
<1>11. \A p \in 1 .. Len(C) : C[p].w = "pending" => C[p].val.o \notin Opps
  BY <1>4 DEF Completing, NamesAssumption, NoPending
<1>12. \A p, q \in 1 .. Len(C) : C[p].w = "source" /\ C[q].w = "action" => q < p
  BY <1>4 DEF Completing
<1>13. CASE j.phase = "resume"
  <2>1. /\ <<s, j.rev>> \in Last(history[o]).cites /\ Len(history[o]) = j.base + 1
        /\ Completing(C, o, s, j.rev, Last(history[o]).obs) /\ todo' = C
    BY <1>4, <1>13
  <2>2. PICK H \in Seq(Version) : H = history[o]
    BY DEF CenterTypes, StoredTypes
  <2>3. Len(H) \in 1 .. Len(H) /\ Last(H) = H[Len(H)]
    BY <1>1, <2>1, <2>2 DEF Last
  <2>4. Last(H).by = <<s, j.rev>> \/ Carried(o, s, j.rev)
    BY <1>1, <1>2, <1>13, <2>1, <2>2 DEF Holds, Resuming, Resumes, Own
  <2>5. Asks(Last(H)) => Sure(o, s, j.rev)'
    BY <1>6, <2>1, <2>2 DEF Completing, Applying, Asks, Sure, Coming
  <2>6. \E i \in 1 .. Len(history[o]) : Backs(history[o][i], o, s, j.rev)'
    <3>1. CASE Last(H).by = <<s, j.rev>>
      BY <1>3, <2>2, <2>3, <2>5, <3>1 DEF Backs
    <3>2. CASE Carried(o, s, j.rev)
      <4>1. PICK i \in 1 .. Len(history[o]) : history[o][i].by = <<s, j.rev>> /\ (Asks(history[o][i]) => Evident(o, s, j.rev))
        BY <3>2 DEF Carried
      <4> QED
        BY <1>3, <1>6, <4>1 DEF Backs, Sure
    <3> QED
      BY <2>4, <3>1, <3>2
  <2>7. ASSUME NEW p \in 1 .. Len(todo')
        PROVE  Sourced(todo[p])' /\ Keeps(todo[p])' /\ Asked(p)' /\ Marking(p)' /\ Owing(p)'
    <3>1. PICK y : y = todo'[p] /\ y = C[p] /\ p \in 1 .. Len(C)
      BY <2>1
    <3>2. Sourced(todo[p])' /\ Keeps(todo[p])'
      BY <1>7, <1>8, <3>1
    <3>3. Asked(p)' /\ Owing(p)'
      BY <1>8, <1>11, <3>1 DEF Asked, Owing
    <3>4. Marking(p)'
      <4> SUFFICES ASSUME y.w = "source"
                   PROVE  /\ \A q \in 1 .. Len(todo') : todo'[q].w \in {"action", "version"} => q < p
                          /\ \E i \in 1 .. Len(history[y.val.assoc]) : Backs(history[y.val.assoc][i], y.val.assoc, y.s, y.val.done)'
        BY <1>3, <3>1 DEF Marking
      <4> QED
        BY <1>8, <1>10, <1>12, <2>1, <2>6, <3>1
    <3> QED
      BY <3>2, <3>3, <3>4
  <2>8. Agree(todo)'
    BY <1>9, <2>1 DEF Agree
  <2> QED
    BY <2>7, <2>8 DEF Leaves
<1>14. CASE j.phase # "resume"
  <2>1. CanPromote(j) /\ Completing(C, o, s, j.rev, j.obs)
    BY <1>4, <1>14
  <2>2. PICK m, x \in Writes : /\ m.w = "pending" /\ m.s = s
                               /\ m.val.o = o /\ m.val.rev = j.rev /\ m.val.base = j.base
                               /\ x.w = "version" /\ x.o = o /\ x.val = NewVersion(s, j)
                               /\ todo' = (<<m>> \o <<x>>) \o C
    BY <1>4, <1>14
  <2>3. C \in Seq(Writes)
    <3>1. \A y \in Finished(o, s) : y \in Writes
      BY DEF Finished
    <3> QED
      BY <1>4, <3>1, WritesIn
  <2>4. PICK F : F = todo'
    OBVIOUS
  <2>5. /\ 1 \in 1 .. Len(F) /\ 2 \in 1 .. Len(F) /\ F[1] = m /\ F[2] = x
        /\ \A k \in 1 .. Len(C) : k + 2 \in 1 .. Len(F) /\ F[k + 2] = C[k]
        /\ \A p \in 1 .. Len(F) : p = 1 \/ p = 2 \/ \E k \in 1 .. Len(C) : p = k + 2
    BY <2>2, <2>3, <2>4, TwoBefore
  <2>6. PICK v : v = NewVersion(s, j)
    OBVIOUS
  <2>7. /\ v.by = <<s, j.rev>> /\ v.obs = j.obs
        /\ history[o] = <<>> => v.cites = {<<s, j.rev>>}
        /\ history[o] # <<>> => v.cites = Last(history[o]).cites \cup {<<s, j.rev>>}
    <3>1. v.obs = j.obs
      BY <2>6 DEF NewVersion
    <3> QED
      BY <1>1, <1>2, <2>1, <2>6, <3>1, NewVersionType
  <2>8. Sourced(x)
    <3> SUFFICES ASSUME NEW c \in v.cites, c[1] \in Sources, c # <<s, j.rev>> PROVE Made(o, c)
      BY <2>2, <2>6, <2>7 DEF Sourced
    <3>1. history[o] # <<>> /\ c \in Last(history[o]).cites
      BY <2>7
    <3>2. PICK H \in Seq(Version) : H = history[o]
      BY DEF CenterTypes, StoredTypes
    <3>3. Len(H) \in 1 .. Len(H) /\ Last(H) = H[Len(H)]
      BY <3>1, <3>2 DEF Last
    <3> QED
      BY <3>1, <3>2, <3>3 DEF Holds, Origins
  <2>9. Asks(v) => Sure(o, s, j.rev)'
    <3> SUFFICES ASSUME Asks(v) PROVE Sure(o, s, j.rev)'
      OBVIOUS
    <3>1. Evident(o, s, j.rev) \/ \E k \in 1 .. Len(C) : Brings(C[k], o, s, j.rev)
      BY <2>1, <2>7 DEF Completing, Applying, Asks
    <3>2. CASE Evident(o, s, j.rev)
      BY <1>6, <3>2 DEF Sure
    <3>3. CASE \E k \in 1 .. Len(C) : Brings(C[k], o, s, j.rev)
      BY <2>4, <2>5, <3>3 DEF Sure, Coming
    <3> QED
      BY <3>1, <3>2, <3>3
  <2>10. Len(history[o]) = j.base
    BY <1>2, <2>1 DEF CanPromote
  <2>11. \A q \in 1 .. Len(F) : F[q].w = "version" => q = 2
    <3> SUFFICES ASSUME NEW q \in 1 .. Len(F), q # 2 PROVE F[q].w # "version"
      OBVIOUS
    <3>1. CASE q = 1
      BY <2>2, <2>5, <3>1
    <3>2. ASSUME NEW k \in 1 .. Len(C), q = k + 2 PROVE F[q].w # "version"
      <4>1. F[q] = C[k]
        BY <2>5, <3>2
      <4> QED
        BY <1>8, <4>1
    <3> QED
      BY <2>5, <3>1, <3>2
  <2>12. \A q \in 1 .. Len(F) : F[q].w = "action" => \E k \in 1 .. Len(C) : q = k + 2 /\ F[q] = C[k]
    <3> SUFFICES ASSUME NEW q \in 1 .. Len(F), F[q].w = "action"
                 PROVE  \E k \in 1 .. Len(C) : q = k + 2 /\ F[q] = C[k]
      OBVIOUS
    <3>1. q # 1 /\ q # 2
      BY <2>2, <2>5
    <3>2. PICK k \in 1 .. Len(C) : q = k + 2
      BY <2>5, <3>1
    <3> QED
      BY <2>5, <3>2
  <2>13. ASSUME NEW p \in 1 .. Len(F)
         PROVE  Sourced(todo[p])' /\ Keeps(todo[p])' /\ Asked(p)' /\ Marking(p)' /\ Owing(p)'
    <3>1. Sourced(F[p]) /\ Keeps(F[p])
      BY <1>8, <2>2, <2>5, <2>8 DEF Sourced, Keeps
    <3>2. Asked(p)'
      <4> SUFFICES ASSUME F[p].w = "version", Asks(F[p].val)
                   PROVE  /\ \A q \in 1 .. Len(F) : F[q].w = "version" => q = p
                          /\ \A q \in 1 .. Len(F) : F[q].w = "action" => p < q
                          /\ F[p].val.by = <<s, j.rev>> /\ Sure(F[p].o, s, j.rev)'
        BY <1>1, <2>4 DEF Asked
      <4>1. p = 2 /\ F[p] = x
        BY <2>5, <2>11
      <4>2. \A q \in 1 .. Len(F) : F[q].w = "action" => 2 < q
        BY <2>12
      <4> QED
        BY <2>2, <2>6, <2>7, <2>9, <2>11, <4>1, <4>2
    <3>3. Marking(p)'
      <4> SUFFICES ASSUME F[p].w = "source"
                   PROVE  /\ \A q \in 1 .. Len(F) : F[q].w \in {"action", "version"} => q < p
                          /\ F[2].w = "version" /\ F[2].o = F[p].val.assoc
                          /\ Backs(F[2].val, F[p].val.assoc, F[p].s, F[p].val.done)'
        BY <2>4, <2>5 DEF Marking
      <4>1. PICK k \in 1 .. Len(C) : p = k + 2 /\ F[p] = C[k]
        BY <2>2, <2>5
      <4>2. \A q \in 1 .. Len(F) : F[q].w = "action" => q < p
        <5> SUFFICES ASSUME NEW q \in 1 .. Len(F), F[q].w = "action" PROVE q < p
          OBVIOUS
        <5>1. PICK i \in 1 .. Len(C) : q = i + 2 /\ F[q] = C[i]
          BY <2>12
        <5>2. i < k
          BY <1>12, <4>1, <5>1
        <5> QED
          BY <4>1, <5>1, <5>2
      <4>3. \A q \in 1 .. Len(F) : F[q].w = "version" => q < p
        BY <2>11, <4>1
      <4>4. F[p].s = s /\ F[p].val.done = j.rev /\ F[p].val.assoc = o
        BY <1>10, <4>1
      <4>5. Backs(v, o, s, j.rev)'
        BY <2>7, <2>9 DEF Backs
      <4> QED
        BY <2>2, <2>5, <2>6, <4>2, <4>3, <4>4, <4>5
    <3>4. Owing(p)'
      <4> SUFFICES ASSUME F[p].w = "pending", F[p].val.o \in Opps
                   PROVE  /\ p = 1 /\ Len(history[F[p].val.o]) = F[p].val.base
                          /\ Making(F[p].val.o, <<F[p].s, F[p].val.rev>>)'
        BY <1>3, <2>4 DEF Owing
      <4>1. p = 1 /\ F[p] = m
        BY <1>11, <2>2, <2>5
      <4>2. MakesVersion(F[2], o, <<s, j.rev>>)
        BY <2>2, <2>5, <2>6, <2>7 DEF MakesVersion
      <4>3. Making(o, <<s, j.rev>>)'
        BY <2>4, <2>5, <4>2 DEF Making
      <4> QED
        BY <2>2, <2>10, <4>1, <4>3
    <3> QED
      BY <1>7, <2>4, <3>1, <3>2, <3>3, <3>4
  <2>14. Agree(F)
    <3> SUFFICES ASSUME NEW p \in 1 .. Len(F), NEW q \in 1 .. Len(F), F[p].w = "action", F[q].w = "action",
                        F[p].o = F[q].o, F[p].s = F[q].s, NEW r \in Nat, Brings(F[p], F[p].o, F[p].s, r)
                 PROVE  Brings(F[q], F[p].o, F[p].s, r)
      BY DEF Agree
    <3>1. PICK i \in 1 .. Len(C) : F[p] = C[i]
      BY <2>12
    <3>2. PICK k \in 1 .. Len(C) : F[q] = C[k]
      BY <2>12
    <3> QED
      BY <1>9, <3>1, <3>2 DEF Agree
  <2>15. Agree(todo)'
    BY <2>4, <2>14 DEF Agree
  <2> QED
    BY <2>4, <2>13, <2>15 DEF Leaves
<1> QED
  BY <1>13, <1>14

\* A version is appended.
Grown(q, v) ==
  /\ q \in Opps /\ v \in Version /\ actions' = actions
  /\ history' = [history EXCEPT ![q] = Append(@, v)]
  /\ \A c \in v.cites : c[1] \in Sources => c = v.by \/ Made(q, c)

LEMMA GrownStore ==
  ASSUME CenterTypes, Origins, NEW q, NEW v, Grown(q, v)
  PROVE  /\ \A o \in Opps : o # q => history'[o] = history[o]
         /\ Len(history[q]) \in Nat /\ Len(history'[q]) = Len(history[q]) + 1 /\ Last(history'[q]) = v
         /\ \A o \in Opps : \A c : Made(o, c) => Made(o, c)'
         /\ \A c : Made(q, c)' => Made(q, c) \/ c = v.by
         /\ \A o \in Opps : \A s, r : Carried(o, s, r) => Carried(o, s, r)'
         /\ \A s, r : v.by = <<s, r>> /\ (Asks(v) => Evident(q, s, r)) => Carried(q, s, r)'
         /\ Origins'
<1>1. history \in [Opps -> Seq(Version)] /\ q \in Opps /\ v \in Version
  BY DEF CenterTypes, StoredTypes, Grown
<1>2. PICK H \in Seq(Version) : H = history[q]
  BY <1>1
<1>3. PICK n \in Nat : n = Len(H)
  OBVIOUS
<1>4. history'[q] = Append(H, v) /\ \A o \in Opps : o # q => history'[o] = history[o]
  BY <1>1, <1>2 DEF Grown
<1>5. PICK G : G = history'[q]
  OBVIOUS
<1>6. /\ Len(G) = n + 1 /\ Last(G) = v /\ G[n + 1] = v /\ \A i \in 1 .. n : G[i] = H[i] /\ i \in 1 .. n + 1
      /\ n + 1 \in 1 .. n + 1 /\ \A i \in 1 .. n + 1 : i \in 1 .. n \/ i = n + 1
  BY <1>1, <1>3, <1>4, <1>5, Appended
<1>7. \A o, s, r : Evident(o, s, r)' <=> Evident(o, s, r)
  BY DEF Evident, Grown
<1>8. ASSUME NEW o \in Opps, NEW i \in 1 .. Len(history[o])
      PROVE  i \in 1 .. Len(history'[o]) /\ history'[o][i] = history[o][i]
  <2>1. CASE o = q
    BY <1>2, <1>3, <1>5, <1>6, <1>8, <2>1
  <2>2. CASE o # q
    BY <1>4, <1>8, <2>2
  <2> QED
    BY <2>1, <2>2
<1>9. \A o \in Opps : \A c : Made(o, c) => Made(o, c)'
  BY <1>8 DEF Made
<1>10. \A c : Made(q, c)' => Made(q, c) \/ c = v.by
  BY <1>2, <1>3, <1>5, <1>6 DEF Made
<1>11. \A o \in Opps : \A s, r : Carried(o, s, r) => Carried(o, s, r)'
  BY <1>7, <1>8 DEF Carried
<1>12. n + 1 \in 1 .. Len(history'[q]) /\ history'[q][n + 1] = v
  BY <1>5, <1>6
<1>13. \A s, r : v.by = <<s, r>> /\ (Asks(v) => Evident(q, s, r)) => Carried(q, s, r)'
  BY <1>7, <1>12 DEF Carried
<1>14. Made(q, v.by)'
  BY <1>12 DEF Made
<1>15. Origins'
  <2> SUFFICES ASSUME NEW o \in Opps, NEW i \in 1 .. Len(history'[o]), NEW c \in history'[o][i].cites, c[1] \in Sources
               PROVE  Made(o, c)'
    BY DEF Origins
  <2>1. CASE i \in 1 .. Len(history[o])
    <3>1. c \in history[o][i].cites
      BY <1>8, <2>1
    <3> QED
      BY <1>9, <2>1, <3>1 DEF Origins
  <2>2. CASE i \notin 1 .. Len(history[o])
    <3>1. o = q /\ i = n + 1 /\ c \in v.cites
      BY <1>2, <1>3, <1>4, <1>5, <1>6, <2>2
    <3>2. c = v.by \/ Made(q, c)
      BY <3>1 DEF Grown
    <3> QED
      BY <1>9, <1>14, <1>1, <3>1, <3>2
  <2> QED
    BY <2>1, <2>2
<1> QED
  BY <1>2, <1>3, <1>4, <1>5, <1>6, <1>9, <1>10, <1>11, <1>13, <1>15

\* What a marker or a resumption says of its overview.
LEMMA GrownOwn ==
  ASSUME CenterTypes, Origins, NEW q, NEW v, Grown(q, v),
         NEW o \in Opps, NEW s \in Sources, NEW r \in Nat, NEW base \in Nat, base <= Len(history[o]), Own(o, s, r, base),
         o = q /\ Len(history[o]) = base /\ Made(o, <<s, r>>) => Carried(o, s, r) \/ v.by = <<s, r>>
  PROVE  base <= Len(history'[o]) /\ Own(o, s, r, base)' /\ (o = q => base < Len(history'[o]))
<1>1. CASE o # q
  <2>1. history'[o] = history[o]
    BY <1>1, GrownStore
  <2> QED
    BY <1>1, <2>1, GrownStore DEF Own
<1>2. CASE o = q
  <2>1. PICK n \in Nat : n = Len(history[q])
    BY GrownStore
  <2>2. Len(history'[q]) = n + 1 /\ Last(history'[q]) = v
    BY <2>1, GrownStore
  <2>3. base <= n
    BY <1>2, <2>1
  <2>4. ASSUME n = base, <<s, r>> \in v.cites PROVE v.by = <<s, r>> \/ Carried(q, s, r)'
    <3>1. v.by = <<s, r>> \/ Made(q, <<s, r>>)
      BY <2>4 DEF Grown
    <3>2. v.by = <<s, r>> \/ Carried(q, s, r)
      BY <1>2, <2>1, <2>4, <3>1
    <3> QED
      BY <1>2, <3>2, GrownStore
  <2>5. Own(q, s, r, base)'
    <3> SUFFICES ASSUME Len(history'[q]) = base + 1, <<s, r>> \in Last(history'[q]).cites
                 PROVE  Last(history'[q]).by = <<s, r>> \/ Carried(q, s, r)'
      BY DEF Own
    <3>1. n = base
      BY <2>2
    <3> QED
      BY <2>2, <2>4, <3>1
  <2> QED
    BY <1>2, <2>2, <2>3, <2>5
<1> QED
  BY <1>1, <1>2

LEMMA GrownMarked ==
  ASSUME CenterTypes, Origins, NEW q, NEW v, Grown(q, v), NEW s \in Sources, NEW m \in Marker, Marked(s, m),
         m.o = q /\ Making(q, <<s, m.rev>>) => v.by = <<s, m.rev>>,
         m.o # q /\ Making(m.o, <<s, m.rev>>) => Making(m.o, <<s, m.rev>>)'
  PROVE  Marked(s, m)'
<1> SUFFICES ASSUME m.o \in Opps
             PROVE  /\ m.base <= Len(history'[m.o]) /\ Own(m.o, s, m.rev, m.base)'
                    /\ Len(history'[m.o]) = m.base /\ Made(m.o, <<s, m.rev>>)'
                         => Carried(m.o, s, m.rev)' \/ Making(m.o, <<s, m.rev>>)'
  BY DEF Marked
<1>1. m.rev \in Nat /\ m.base \in Nat
  BY DEF Marker
<1>2. /\ m.base <= Len(history[m.o]) /\ Own(m.o, s, m.rev, m.base)
      /\ Len(history[m.o]) = m.base /\ Made(m.o, <<s, m.rev>>) => Carried(m.o, s, m.rev) \/ Making(m.o, <<s, m.rev>>)
  BY DEF Marked
<1>3. m.base <= Len(history'[m.o]) /\ Own(m.o, s, m.rev, m.base)' /\ (m.o = q => m.base < Len(history'[m.o]))
  <2>1. m.o = q /\ Len(history[m.o]) = m.base /\ Made(m.o, <<s, m.rev>>) => Carried(m.o, s, m.rev) \/ v.by = <<s, m.rev>>
    BY <1>2
  <2> QED
    BY <1>1, <1>2, <2>1, GrownOwn
<1>4. ASSUME Len(history'[m.o]) = m.base, Made(m.o, <<s, m.rev>>)'
      PROVE  Carried(m.o, s, m.rev)' \/ Making(m.o, <<s, m.rev>>)'
  <2>1. m.o # q
    BY <1>1, <1>3, <1>4
  <2>2. history'[m.o] = history[m.o]
    BY <2>1, GrownStore
  <2>3. Made(m.o, <<s, m.rev>>)
    BY <1>4, <2>2 DEF Made
  <2> QED
    BY <1>2, <1>4, <2>1, <2>2, <2>3, GrownStore
<1> QED
  BY <1>3, <1>4

LEMMA GrownResumes ==
  ASSUME CenterTypes, Origins, NEW q, NEW v, Grown(q, v), NEW s \in Sources, Resumes(s, jobs[s])
  PROVE  Resumes(s, jobs[s])'  \/ jobs'[s] # jobs[s]
<1> SUFFICES ASSUME NEW j \in JobRec, j = jobs[s], j = jobs'[s], j.phase = "resume"
             PROVE  j.base < Len(history'[j.o]) /\ Own(j.o, s, j.rev, j.base)'
  BY DEF Resumes, CenterTypes, RunTypes
<1>1. j.o \in Opps /\ j.rev \in Nat /\ j.base \in Nat /\ j.base < Len(history[j.o]) /\ Own(j.o, s, j.rev, j.base)
  BY DEF Resumes, CenterTypes, RunTypes, JobRec
<1>2. PICK n \in Nat : n = Len(history[j.o])
  <2>1. history[j.o] \in Seq(Version)
    BY <1>1 DEF CenterTypes, StoredTypes
  <2> QED
    BY <2>1
<1>3. j.base <= n /\ n # j.base
  BY <1>1, <1>2
<1>4. Own(j.o, s, j.rev, j.base)' /\ (j.o = q => j.base < Len(history'[j.o]))
  BY <1>1, <1>2, <1>3, GrownOwn
<1>5. j.o # q => history'[j.o] = history[j.o]
  BY <1>1, GrownStore
<1> QED
  BY <1>1, <1>4, <1>5

LEMMA HoldsSaved ==
  ASSUME NamesAssumption, CenterTypes, Holds, Turn, NEW q \in Opps, Saved(q)
  PROVE  Holds'
<1>1. /\ Idle /\ UNCHANGED <<ledger, receipts, retired, actions, changes, jobs, work, todo>>
      /\ history' = [history EXCEPT ![q] = Append(@, SavedVersion(@))]
  BY DEF Saved
<1>2. todo = <<>> /\ todo' = <<>> /\ ~Written
  BY <1>1, NothingTodo DEF Written
<1>3. PICK H \in Seq(Version) : H = history[q]
  BY DEF CenterTypes, StoredTypes
<1>4. PICK v \in Version :
        /\ v = SavedVersion(H) /\ v.by = <<None, 0>>
        /\ H = <<>> => v.cites = {<<None, Len(H) + 1>>}
        /\ H # <<>> => v.cites = Last(H).cites \cup {<<None, Len(H) + 1>>}
  BY SavedType
<1>5. Origins
  BY DEF Holds
<1>6. Grown(q, v)
  <2>1. ASSUME NEW c \in v.cites, c[1] \in Sources PROVE Made(q, c)
    <3>1. c # <<None, Len(H) + 1>>
      BY <2>1 DEF NamesAssumption
    <3>2. H # <<>> /\ c \in Last(H).cites
      BY <1>4, <2>1, <3>1
    <3>3. Len(H) \in 1 .. Len(H) /\ Last(H) = H[Len(H)]
      BY <3>2 DEF Last
    <3> QED
      BY <1>3, <1>5, <2>1, <3>2, <3>3 DEF Origins
  <2>2. history \in [Opps -> Seq(Version)]
    BY DEF CenterTypes, StoredTypes
  <2> QED
    BY <1>1, <1>3, <1>4, <2>1, <2>2 DEF Grown
<1>7. \A o, c : ~Making(o, c)
  BY <1>2 DEF Making
<1>8. Applieds'
  <2> SUFFICES ASSUME NEW s \in Sources, ledger[s].status = "processed", NEW o, o = ledger[s].assoc, NEW r, r = ledger[s].done
               PROVE  Carried(o, s, r)'
    BY <1>1 DEF Applieds
  <2>1. o \in Opps
    BY ProcessedBelongs DEF CenterTypes, StoredTypes
  <2>2. Carried(o, s, r)
    BY DEF Holds, Applieds
  <2> QED
    BY <1>5, <1>6, <2>1, <2>2, GrownStore
<1>9. Carrying'
  <2> SUFFICES ASSUME counts'.faults = 0, NEW o \in Opps, NEW s \in Sources, NEW r \in Nat, Made(o, <<s, r>>)'
               PROVE  Carried(o, s, r)'
    BY DEF Carrying
  <2>1. counts.faults = 0
    BY FaultsCounted DEF Turn
  <2>2. Made(o, <<s, r>>)
    <3>1. CASE o = q
      <4>1. <<s, r>> # <<None, 0>>
        BY DEF NamesAssumption
      <4> QED
        BY <1>4, <1>5, <1>6, <3>1, <4>1, GrownStore
    <3>2. CASE o # q
      BY <1>5, <1>6, <3>2, GrownStore DEF Made
    <3> QED
      BY <3>1, <3>2
  <2>3. Carried(o, s, r)
    BY <1>2, <2>1, <2>2 DEF Holds, Carrying, Coming
  <2> QED
    BY <1>5, <1>6, <2>3, GrownStore
<1>10. Markers'
  <2> SUFFICES ASSUME NEW s \in Sources, NEW k, k = pending'[s] PROVE Marked(s, k)'
    BY DEF Markers
  <2>1. k = pending[s] \/ k = NoPending
    BY <1>2 DEF Turn
  <2>2. CASE k = NoPending
    BY <2>2 DEF NamesAssumption, NoPending, Marked
  <2>3. CASE k = pending[s]
    <3>1. k \in Marker
      BY <2>3 DEF CenterTypes, StoredTypes
    <3>2. Marked(s, k)
      BY <2>3 DEF Holds, Markers
    <3> QED
      BY <1>5, <1>6, <1>7, <3>1, <3>2, GrownMarked
  <2> QED
    BY <2>1, <2>2, <2>3
<1>11. Resuming'
  <2> SUFFICES ASSUME NEW s \in Sources PROVE Resumes(s, jobs[s])'
    BY DEF Resuming
  <2> QED
    BY <1>1, <1>5, <1>6, GrownResumes DEF Holds, Resuming
<1>12. Origins'
  BY <1>5, <1>6, GrownStore
<1> QED
  BY <1>8, <1>9, <1>10, <1>11, <1>12 DEF Holds

\* What a write of a version makes of the overview.
LEMMA VersionGrown ==
  ASSUME CenterTypes, Leaves, NEW x \in Writes, x.w = "version", 1 \in 1 .. Len(todo), x = todo[1], Put(x)
  PROVE  Grown(x.o, x.val)
<1>1. x.o \in Opps /\ x.val \in Version
  BY WriteTypes
<1>2. Sourced(x)
  BY DEF Leaves
<1> QED
  BY <1>1, <1>2 DEF Put, Grown, Sourced

\* The next write is the first of what is left.
LEMMA FirstWritten ==
  ASSUME CenterTypes, Written
  PROVE  /\ 1 \in 1 .. Len(todo) /\ todo[1] \in Writes /\ Put(todo[1])
         /\ \A p \in 1 .. Len(todo') : p + 1 \in 1 .. Len(todo) /\ todo'[p] = todo[p + 1]
         /\ \A p \in 1 .. Len(todo) : p = 1 \/ (p - 1 \in 1 .. Len(todo') /\ todo'[p - 1] = todo[p])
<1>1. todo \in Seq(Writes) /\ todo # <<>> /\ todo' = Tail(todo) /\ Put(Head(todo))
  BY DEF CenterTypes, RunTypes, Written
<1> QED
  BY <1>1, Popped

\* What the next write makes of the actions: nothing that is evident, or will be,
\* is lost.
LEMMA SureWritten ==
  ASSUME CenterTypes, Leaves, Written
  PROVE  /\ \A o \in Opps : \A s \in Sources : \A r \in Nat : Evident(o, s, r) => Evident(o, s, r)'
         /\ \A o \in Opps : \A s \in Sources : \A r \in Nat : Coming(o, s, r) => Evident(o, s, r)' \/ Coming(o, s, r)'
         /\ todo[1].w # "action" => \A o, s, r : Coming(o, s, r) => Coming(o, s, r)'
         /\ \A p \in 1 .. Len(todo') : Keeps(todo[p])'
<1>1. PICK x : x = todo[1]
  OBVIOUS
<1>2. /\ 1 \in 1 .. Len(todo) /\ x \in Writes /\ Put(x)
      /\ \A p \in 1 .. Len(todo') : p + 1 \in 1 .. Len(todo) /\ todo'[p] = todo[p + 1]
      /\ \A p \in 1 .. Len(todo) : p = 1 \/ (p - 1 \in 1 .. Len(todo') /\ todo'[p - 1] = todo[p])
  BY <1>1, FirstWritten
<1>3. actions \in [Opps -> [Sources -> Action]]
  BY DEF CenterTypes, StoredTypes
<1>4. x.w = "action" => x.o \in Opps /\ x.s \in Sources
  BY <1>2, WriteTypes
<1>5. ASSUME NEW o \in Opps, NEW s \in Sources
      PROVE  actions'[o][s] = IF x.w = "action" /\ x.o = o /\ x.s = s THEN x.val ELSE actions[o][s]
  <2>1. actions' = IF x.w = "action" THEN [actions EXCEPT ![x.o][x.s] = x.val] ELSE actions
    BY <1>2 DEF Put
  <2> QED
    BY <1>3, <1>4, <2>1
<1>6. \A o \in Opps : \A s \in Sources : \A r \in Nat :
        x.w = "action" /\ x.o = o /\ x.s = s => (Evident(o, s, r)' <=> Brings(x, o, s, r))
  BY <1>5 DEF Evident, Brings
<1>7. \A o \in Opps : \A s \in Sources : \A r \in Nat :
        ~(x.w = "action" /\ x.o = o /\ x.s = s) => (Evident(o, s, r)' <=> Evident(o, s, r))
  BY <1>5 DEF Evident
<1>8. Keeps(x)
  BY <1>1, <1>2 DEF Leaves
<1>9. \A o \in Opps : \A s \in Sources : \A r \in Nat : Evident(o, s, r) => Evident(o, s, r)'
  BY <1>6, <1>7, <1>8 DEF Keeps
<1>10. ASSUME NEW o, NEW s, NEW r, Coming(o, s, r), ~Brings(x, o, s, r) PROVE Coming(o, s, r)'
  BY <1>1, <1>2, <1>10 DEF Coming
<1>11. \A o \in Opps : \A s \in Sources : \A r \in Nat : Coming(o, s, r) => Evident(o, s, r)' \/ Coming(o, s, r)'
  <2> SUFFICES ASSUME NEW o \in Opps, NEW s \in Sources, NEW r \in Nat, Coming(o, s, r), Brings(x, o, s, r)
               PROVE  Evident(o, s, r)'
    BY <1>10
  <2> QED
    BY <1>6 DEF Brings
<1>12. x.w # "action" => \A o, s, r : Coming(o, s, r) => Coming(o, s, r)'
  BY <1>10 DEF Brings
<1>13. ASSUME NEW p \in 1 .. Len(todo') PROVE Keeps(todo[p])'
  <2>1. PICK y \in Writes : y = todo'[p] /\ y = todo[p + 1] /\ p + 1 \in 1 .. Len(todo)
    BY <1>2 DEF CenterTypes, RunTypes
  <2> SUFFICES ASSUME y.w = "action", NEW r \in Nat, Evident(y.o, y.s, r)' PROVE Brings(y, y.o, y.s, r)
    BY <2>1 DEF Keeps, Brings
  <2>2. y.o \in Opps /\ y.s \in Sources
    BY <2>1, WriteTypes
  <2>3. CASE x.w = "action" /\ x.o = y.o /\ x.s = y.s
    <3>1. Brings(x, x.o, x.s, r)
      BY <1>6, <2>2, <2>3
    <3> QED
      BY <1>1, <1>2, <2>1, <2>3, <3>1 DEF Leaves, Agree
  <2>4. CASE ~(x.w = "action" /\ x.o = y.o /\ x.s = y.s)
    <3>1. Evident(y.o, y.s, r)
      BY <1>7, <2>2, <2>4
    <3>2. Keeps(y)
      BY <2>1 DEF Leaves
    <3> QED
      BY <3>1, <3>2 DEF Keeps
  <2> QED
    BY <2>3, <2>4
<1> QED
  BY <1>1, <1>9, <1>11, <1>12, <1>13

\* What the next write makes of the versions: what is made or carried stays so.
LEMMA WrittenStore ==
  ASSUME CenterTypes, Origins, Leaves, Written
  PROVE  /\ \A o \in Opps : \A i \in 1 .. Len(history[o]) :
              i \in 1 .. Len(history'[o]) /\ history'[o][i] = history[o][i]
         /\ todo[1].w # "version" => history' = history
         /\ todo[1].w = "version" => \E i \in 1 .. Len(history'[todo[1].o]) : history'[todo[1].o][i] = todo[1].val
         /\ \A o \in Opps : \A c : Made(o, c) => Made(o, c)'
         /\ \A o \in Opps : \A s \in Sources : \A r \in Nat : Carried(o, s, r) => Carried(o, s, r)'
         /\ \A o \in Opps : \A s \in Sources : \A r \in Nat : Sure(o, s, r) => Sure(o, s, r)'
         /\ Origins'
<1>1. PICK x : x = todo[1]
  OBVIOUS
<1>2. 1 \in 1 .. Len(todo) /\ x \in Writes /\ Put(x)
  BY <1>1, FirstWritten
<1>3. x.w # "version" => history' = history
  BY <1>2 DEF Put
<1>4. ASSUME x.w = "version" PROVE x.o \in Opps /\ Grown(x.o, x.val)
  BY <1>1, <1>2, <1>4, VersionGrown DEF Grown
<1>5. ASSUME NEW o \in Opps, NEW i \in 1 .. Len(history[o])
      PROVE  i \in 1 .. Len(history'[o]) /\ history'[o][i] = history[o][i]
  <2>1. CASE x.w = "version" /\ x.o = o
    <3>1. PICK H \in Seq(Version) : H = history[o]
      BY DEF CenterTypes, StoredTypes
    <3>2. x.val \in Version /\ history'[o] = Append(H, x.val)
      BY <1>4, <2>1, <3>1 DEF Grown, CenterTypes, StoredTypes
    <3> QED
      BY <1>5, <3>1, <3>2
  <2>2. CASE ~(x.w = "version" /\ x.o = o)
    <3>1. history'[o] = history[o]
      BY <1>3, <1>4, <2>2, GrownStore
    <3> QED
      BY <1>5, <3>1
  <2> QED
    BY <2>1, <2>2
<1>6. ASSUME x.w = "version" PROVE \E i \in 1 .. Len(history'[x.o]) : history'[x.o][i] = x.val
  <2>1. PICK H \in Seq(Version) : H = history[x.o]
    BY <1>4, <1>6 DEF CenterTypes, StoredTypes
  <2>2. x.val \in Version /\ history'[x.o] = Append(H, x.val)
    BY <1>4, <1>6, <2>1 DEF Grown, CenterTypes, StoredTypes
  <2>3. Len(H) + 1 \in 1 .. Len(history'[x.o]) /\ history'[x.o][Len(H) + 1] = x.val
    BY <2>1, <2>2
  <2> QED
    BY <2>3
<1>7. \A o \in Opps : \A c : Made(o, c) => Made(o, c)'
  BY <1>5 DEF Made
<1>8. \A o \in Opps : \A s \in Sources : \A r \in Nat : Evident(o, s, r) => Evident(o, s, r)'
  BY SureWritten
<1>9. \A o \in Opps : \A s \in Sources : \A r \in Nat : Carried(o, s, r) => Carried(o, s, r)'
  BY <1>5, <1>8 DEF Carried
<1>10. \A o \in Opps : \A s \in Sources : \A r \in Nat : Sure(o, s, r) => Sure(o, s, r)'
  BY SureWritten DEF Sure
<1>11. Origins'
  <2>1. CASE x.w = "version"
    BY <1>4, <2>1, GrownStore
  <2>2. CASE x.w # "version"
    BY <1>3, <1>7, <2>2 DEF Origins
  <2> QED
    BY <2>1, <2>2
<1> QED
  BY <1>1, <1>3, <1>5, <1>6, <1>7, <1>9, <1>10, <1>11

LEMMA LeavesWritten ==
  ASSUME CenterTypes, Holds, Leaves, Written
  PROVE  Leaves'
<1>1. PICK x : x = todo[1]
  OBVIOUS
<1>2. /\ 1 \in 1 .. Len(todo) /\ x \in Writes /\ Put(x)
      /\ \A p \in 1 .. Len(todo') : p + 1 \in 1 .. Len(todo) /\ todo'[p] = todo[p + 1]
      /\ \A p \in 1 .. Len(todo) : p = 1 \/ (p - 1 \in 1 .. Len(todo') /\ todo'[p - 1] = todo[p])
  BY <1>1, FirstWritten
<1>3. todo \in Seq(Writes) /\ Origins
  BY DEF CenterTypes, RunTypes, Holds
<1>4. /\ \A o \in Opps : \A i \in 1 .. Len(history[o]) :
           i \in 1 .. Len(history'[o]) /\ history'[o][i] = history[o][i]
      /\ x.w = "version" => \E i \in 1 .. Len(history'[x.o]) : history'[x.o][i] = x.val
      /\ \A o \in Opps : \A c : Made(o, c) => Made(o, c)'
      /\ \A o \in Opps : \A s \in Sources : \A r \in Nat : Sure(o, s, r) => Sure(o, s, r)'
  BY <1>1, <1>3, WrittenStore
<1>5. Agree(todo')
  <2> SUFFICES ASSUME NEW p \in 1 .. Len(todo'), NEW q \in 1 .. Len(todo'), NEW y, NEW z, y = todo'[p], z = todo'[q],
                      y.w = "action", z.w = "action", y.o = z.o, y.s = z.s, NEW r \in Nat, Brings(y, y.o, y.s, r)
               PROVE  Brings(z, y.o, y.s, r)
    BY DEF Agree
  <2>1. p + 1 \in 1 .. Len(todo) /\ y = todo[p + 1] /\ q + 1 \in 1 .. Len(todo) /\ z = todo[q + 1]
    BY <1>2
  <2> QED
    BY <2>1 DEF Leaves, Agree
<1>6. ASSUME NEW p \in 1 .. Len(todo')
      PROVE  Sourced(todo[p])' /\ Asked(p)' /\ Marking(p)' /\ Owing(p)'
  <2>1. PICK y \in Writes : y = todo'[p] /\ y = todo[p + 1] /\ p + 1 \in 1 .. Len(todo) /\ p \in Nat /\ p > 0
    BY <1>2, <1>3
  <2>2. Sourced(y) /\ Asked(p + 1) /\ Marking(p + 1) /\ Owing(p + 1)
    BY <2>1 DEF Leaves
  <2>3. Sourced(todo[p])'
    <3>1. y.w = "version" => y.o \in Opps
      BY <2>1, WriteTypes
    <3> QED
      BY <1>4, <2>1, <2>2, <3>1 DEF Sourced
  <2>4. Asked(p)'
    <3> SUFFICES ASSUME y.w = "version", Asks(y.val)
                 PROVE  /\ \A q \in 1 .. Len(todo') : todo'[q].w = "version" => q = p
                        /\ \A q \in 1 .. Len(todo') : todo'[q].w = "action" => p < q
                        /\ \E s \in Sources, r \in Nat : y.val.by = <<s, r>> /\ Sure(y.o, s, r)'
      BY <2>1 DEF Asked
    <3>1. /\ \A q \in 1 .. Len(todo) : todo[q].w = "version" => q = p + 1
          /\ \A q \in 1 .. Len(todo) : todo[q].w = "action" => p + 1 < q
          /\ \E s \in Sources, r \in Nat : y.val.by = <<s, r>> /\ Sure(y.o, s, r)
      BY <2>1, <2>2 DEF Asked
    <3>2. y.o \in Opps
      BY <2>1, WriteTypes
    <3>3. ASSUME NEW q \in 1 .. Len(todo')
          PROVE  (todo'[q].w = "version" => q = p) /\ (todo'[q].w = "action" => p < q)
      <4>1. q + 1 \in 1 .. Len(todo) /\ todo'[q] = todo[q + 1] /\ q \in Nat
        BY <1>2
      <4>2. (todo'[q].w = "version" => q + 1 = p + 1) /\ (todo'[q].w = "action" => p + 1 < q + 1)
        BY <3>1, <4>1
      <4> QED
        BY <2>1, <4>1, <4>2
    <3> QED
      BY <1>4, <3>1, <3>2, <3>3
  <2>5. Marking(p)'
    <3> SUFFICES ASSUME y.w = "source", y.val.status = "processed", NEW o, o = y.val.assoc, NEW s, s = y.s,
                        NEW r, r = y.val.done
                 PROVE  /\ \A q \in 1 .. Len(todo') : todo'[q].w \in {"action", "version"} => q < p
                        /\ \/ \E i \in 1 .. Len(history'[o]) : Backs(history[o][i], o, s, r)'
                           \/ \E q \in 1 .. Len(todo') : /\ todo'[q].w = "version" /\ todo'[q].o = o
                                                         /\ Backs(todo[q].val, o, s, r)'
      BY <2>1 DEF Marking
    <3>1. o \in Opps /\ s \in Sources /\ r \in Nat
      <4>1. SourceOK(y.val) /\ y.s \in Sources
        BY <2>1, WriteTypes
      <4>2. y.val.assoc \in Opps /\ y.val.done = y.val.rev /\ y.val.rev \in Nat
        BY <4>1, ProcessedBelongs
      <4> QED
        BY <4>1, <4>2
    <3>2. /\ \A q \in 1 .. Len(todo) : todo[q].w \in {"action", "version"} => q < p + 1
          /\ \/ \E i \in 1 .. Len(history[o]) : Backs(history[o][i], o, s, r)
             \/ \E q \in 1 .. Len(todo) : todo[q].w = "version" /\ todo[q].o = o /\ Backs(todo[q].val, o, s, r)
      BY <2>1, <2>2 DEF Marking
    <3>3. \A v : Backs(v, o, s, r) => v.by = <<s, r>> /\ (Asks(v) => Sure(o, s, r)')
      BY <1>4, <3>1 DEF Backs
    <3>4. ASSUME NEW q \in 1 .. Len(todo'), todo'[q].w \in {"action", "version"} PROVE q < p
      <4>1. q + 1 \in 1 .. Len(todo) /\ todo'[q] = todo[q + 1] /\ q \in Nat
        BY <1>2
      <4>2. q + 1 < p + 1
        BY <3>2, <3>4, <4>1
      <4> QED
        BY <2>1, <4>1, <4>2
    <3>5. ASSUME NEW i \in 1 .. Len(history[o]), Backs(history[o][i], o, s, r)
          PROVE  \E k \in 1 .. Len(history'[o]) : Backs(history[o][k], o, s, r)'
      BY <1>4, <3>1, <3>3, <3>5 DEF Backs
    <3>6. ASSUME NEW q \in 1 .. Len(todo), todo[q].w = "version", todo[q].o = o, Backs(todo[q].val, o, s, r)
          PROVE  \/ \E i \in 1 .. Len(history'[o]) : Backs(history[o][i], o, s, r)'
                 \/ \E k \in 1 .. Len(todo') : /\ todo'[k].w = "version" /\ todo'[k].o = o
                                               /\ Backs(todo[k].val, o, s, r)'
      <4>1. CASE q = 1
        <5>1. \E i \in 1 .. Len(history'[o]) : history'[o][i] = todo[q].val
          BY <1>1, <1>4, <3>6, <4>1
        <5> QED
          BY <3>3, <3>6, <5>1 DEF Backs
      <4>2. CASE q # 1
        <5>1. PICK k \in 1 .. Len(todo') : todo'[k] = todo[q]
          BY <1>2, <4>2
        <5>2. Backs(todo[k].val, o, s, r)'
          BY <3>3, <3>6, <5>1 DEF Backs
        <5> QED
          BY <3>6, <5>1, <5>2
      <4> QED
        BY <4>1, <4>2
    <3> QED
      BY <3>2, <3>4, <3>5, <3>6
  <2>6. Owing(p)'
    <3>1. ~(y.w = "pending" /\ y.val.o \in Opps)
      BY <2>1, <2>2 DEF Owing
    <3> QED
      BY <2>1, <3>1 DEF Owing
  <2> QED
    BY <2>3, <2>4, <2>5, <2>6
<1>7. \A p \in 1 .. Len(todo') : Keeps(todo[p])'
  BY SureWritten
<1>8. Agree(todo)'
  BY <1>5 DEF Agree
<1> QED
  BY <1>6, <1>7, <1>8 DEF Leaves

LEMMA HoldsWritten ==
  ASSUME NamesAssumption, CenterTypes, CenterTypes', OneVersion(todo), Holds, Leaves, Turn, Written
  PROVE  Holds'
<1>1. PICK x : x = todo[1]
  OBVIOUS
<1>2. /\ 1 \in 1 .. Len(todo) /\ x \in Writes /\ Put(x)
      /\ \A p \in 1 .. Len(todo') : p + 1 \in 1 .. Len(todo) /\ todo'[p] = todo[p + 1]
      /\ \A p \in 1 .. Len(todo) : p = 1 \/ (p - 1 \in 1 .. Len(todo') /\ todo'[p - 1] = todo[p])
  BY <1>1, FirstWritten
<1>3. /\ Origins /\ Origins'
      /\ x.w # "version" => history' = history
      /\ \A o \in Opps : \A c : Made(o, c) => Made(o, c)'
      /\ \A o \in Opps : \A s \in Sources : \A r \in Nat : Carried(o, s, r) => Carried(o, s, r)'
  BY <1>1, WrittenStore DEF Holds
<1>4. x.w = "version" => x.o \in Opps /\ Grown(x.o, x.val)
  BY <1>1, <1>2, VersionGrown DEF Grown
<1>5. /\ ledger \in [Sources -> Record] /\ pending \in [Sources -> Marker]
      /\ \A s \in Sources : SourceOK(ledger[s]) /\ SourceOK(ledger'[s])
  BY DEF CenterTypes, StoredTypes
<1>6. Applieds'
  <2> SUFFICES ASSUME NEW s \in Sources, NEW k, k = ledger'[s], k.status = "processed", NEW o, o = k.assoc, NEW r, r = k.done
               PROVE  Carried(o, s, r)'
    BY DEF Applieds
  <2>1. o \in Opps /\ r \in Nat
    <3>1. SourceOK(k)
      BY <1>5
    <3> QED
      BY <3>1, ProcessedBelongs
  <2>2. Carried(o, s, r)
    <3>1. CASE x.w = "source" /\ x.s = s
      <4>1. k = x.val
        BY <1>2, <1>5, <3>1 DEF Put
      <4>2. /\ \A q \in 1 .. Len(todo) : todo[q].w \in {"action", "version"} => q < 1
            /\ \/ \E i \in 1 .. Len(history[o]) : Backs(history[o][i], o, s, r)
               \/ \E q \in 1 .. Len(todo) : todo[q].w = "version"
        BY <1>1, <1>2, <3>1, <4>1 DEF Leaves, Marking
      <4>3. \A q \in 1 .. Len(todo) : todo[q].w \notin {"action", "version"}
        <5> SUFFICES ASSUME NEW q \in 1 .. Len(todo), todo[q].w \in {"action", "version"} PROVE FALSE
          OBVIOUS
        <5>1. q < 1
          BY <4>2
        <5> QED
          BY <5>1
      <4>4. ~Coming(o, s, r)
        BY <4>3 DEF Coming, Brings
      <4> QED
        BY <4>2, <4>3, <4>4 DEF Backs, Sure, Carried
    <3>2. CASE ~(x.w = "source" /\ x.s = s)
      <4>1. k = ledger[s]
        BY <1>2, <1>5, <3>2 DEF Put
      <4> QED
        BY <4>1 DEF Holds, Applieds
    <3> QED
      BY <3>1, <3>2
  <2> QED
    BY <1>3, <2>1, <2>2
<1>7. Carrying'
  <2> SUFFICES ASSUME counts'.faults = 0, NEW o \in Opps, NEW s \in Sources, NEW r \in Nat, Made(o, <<s, r>>)'
               PROVE  \/ Carried(o, s, r)'
                      \/ Coming(o, s, r)' /\ \A p \in 1 .. Len(todo') : todo'[p].w # "version"
    BY DEF Carrying
  <2>1. counts.faults = 0
    BY DEF Written
  <2>2. \A p \in 1 .. Len(todo) : Sourced(todo[p]) /\ Asked(p)
    BY DEF Leaves
  <2>3. CASE x.w = "version" /\ x.o = o /\ x.val.by = <<s, r>>
    <3>1. Asks(x.val) => Sure(o, s, r) /\ \A q \in 1 .. Len(todo) : todo[q].w = "version" => q = 1
      <4> HAVE Asks(x.val)
      <4>1. /\ \A q \in 1 .. Len(todo) : todo[q].w = "version" => q = 1
            /\ \E t \in Sources, n \in Nat : x.val.by = <<t, n>> /\ Sure(x.o, t, n)
        BY <1>1, <1>2, <2>2, <2>3 DEF Asked
      <4>2. PICK t \in Sources, n \in Nat : x.val.by = <<t, n>> /\ Sure(x.o, t, n)
        BY <4>1
      <4>3. t = s /\ n = r
        BY <2>3, <4>2
      <4> QED
        BY <2>3, <4>1, <4>2, <4>3
    <3>2. CASE ~Asks(x.val) \/ Evident(o, s, r)
      BY <1>3, <1>4, <2>3, <3>2, GrownStore
    <3>3. CASE Asks(x.val) /\ ~Evident(o, s, r)
      <4>1. Coming(o, s, r)
        BY <3>1, <3>3 DEF Sure
      <4>2. Coming(o, s, r)'
        BY <1>1, <2>3, <4>1, SureWritten
      <4>3. ASSUME NEW p \in 1 .. Len(todo') PROVE todo'[p].w # "version"
        <5>1. p + 1 \in 1 .. Len(todo) /\ todo'[p] = todo[p + 1] /\ p + 1 # 1
          BY <1>2
        <5> QED
          BY <3>1, <3>3, <5>1
      <4> QED
        BY <4>2, <4>3
    <3> QED
      BY <3>2, <3>3
  <2>4. CASE ~(x.w = "version" /\ x.o = o /\ x.val.by = <<s, r>>)
    <3>1. Made(o, <<s, r>>)
      <4>1. CASE x.w = "version" /\ x.o = o
        BY <1>3, <1>4, <2>4, <4>1, GrownStore
      <4>2. CASE ~(x.w = "version" /\ x.o = o)
        <5>1. history'[o] = history[o]
          BY <1>3, <1>4, <4>2, GrownStore
        <5> QED
          BY <5>1 DEF Made
      <4> QED
        BY <4>1, <4>2
    <3>2. CASE Carried(o, s, r)
      BY <1>3, <3>2
    <3>3. CASE Coming(o, s, r) /\ \A p \in 1 .. Len(todo) : todo[p].w # "version"
      <4>1. \A p \in 1 .. Len(todo') : todo'[p].w # "version"
        BY <1>2, <3>3
      <4>2. Evident(o, s, r)' \/ Coming(o, s, r)'
        BY <3>3, SureWritten
      <4>3. Evident(o, s, r)' => Carried(o, s, r)'
        BY DEF Made, Carried
      <4> QED
        BY <4>1, <4>2, <4>3
    <3> QED
      BY <2>1, <3>1, <3>2, <3>3 DEF Holds, Carrying
  <2> QED
    BY <2>3, <2>4
<1>8. ASSUME NEW o, NEW c, Making(o, c), ~MakesVersion(x, o, c) PROVE Making(o, c)'
  <2>1. PICK p \in 1 .. Len(todo) : MakesVersion(todo[p], o, c)
    BY <1>8 DEF Making
  <2>2. PICK k \in 1 .. Len(todo') : todo'[k] = todo[p]
    BY <1>1, <1>2, <1>8, <2>1
  <2> QED
    BY <2>1, <2>2 DEF Making, MakesVersion
<1>9. Markers'
  <2> SUFFICES ASSUME NEW s \in Sources, NEW k, k = pending'[s] PROVE Marked(s, k)'
    BY DEF Markers
  <2>1. CASE x.w = "pending" /\ x.s = s
    <3>1. k = x.val /\ history' = history /\ x.val \in Marker
      BY <1>2, <1>5, <2>1, WriteTypes DEF Put
    <3> SUFFICES ASSUME k.o \in Opps
                 PROVE  /\ k.base <= Len(history[k.o]) /\ Own(k.o, s, k.rev, k.base)'
                        /\ Making(k.o, <<s, k.rev>>)'
      BY <3>1 DEF Marked
    <3>2. Len(history[k.o]) = k.base /\ Making(k.o, <<s, k.rev>>)
      BY <1>1, <1>2, <2>1, <3>1 DEF Leaves, Owing
    <3>3. Making(k.o, <<s, k.rev>>)'
      BY <1>8, <2>1, <3>2 DEF MakesVersion
    <3>4. k.base \in Nat
      BY <3>1 DEF Marker
    <3>5. Own(k.o, s, k.rev, k.base)'
      BY <3>1, <3>2, <3>4 DEF Own
    <3> QED
      BY <3>2, <3>3, <3>4, <3>5
  <2>2. CASE ~(x.w = "pending" /\ x.s = s)
    <3>1. k = pending[s] /\ k \in Marker
      BY <1>2, <1>5, <2>2 DEF Put
    <3>2. Marked(s, k)
      BY <3>1 DEF Holds, Markers
    <3>3. CASE x.w = "version"
      <4>1. k.o = x.o /\ Making(x.o, <<s, k.rev>>) => x.val.by = <<s, k.rev>>
        <5> HAVE k.o = x.o /\ Making(x.o, <<s, k.rev>>)
        <5>1. PICK p \in 1 .. Len(todo) : MakesVersion(todo[p], x.o, <<s, k.rev>>)
          BY DEF Making
        <5>2. p = 1
          BY <1>1, <1>2, <3>3, <5>1 DEF OneVersion, MakesVersion
        <5> QED
          BY <1>1, <5>1, <5>2 DEF MakesVersion
      <4>2. k.o # x.o /\ Making(k.o, <<s, k.rev>>) => Making(k.o, <<s, k.rev>>)'
        BY <1>8 DEF MakesVersion
      <4> QED
        BY <1>3, <1>4, <3>1, <3>2, <3>3, <4>1, <4>2, GrownMarked
    <3>4. CASE x.w # "version"
      <4>1. history' = history /\ k.rev \in Nat
        BY <1>3, <3>1, <3>4 DEF Marker
      <4>2. Making(k.o, <<s, k.rev>>) => Making(k.o, <<s, k.rev>>)'
        BY <1>8, <3>4 DEF MakesVersion
      <4>3. k.o \in Opps /\ Carried(k.o, s, k.rev) => Carried(k.o, s, k.rev)'
        BY <1>3, <4>1
      <4>4. Made(k.o, <<s, k.rev>>)' => Made(k.o, <<s, k.rev>>)
        BY <4>1 DEF Made
      <4> QED
        BY <3>2, <4>1, <4>2, <4>3, <4>4 DEF Marked, Own
    <3> QED
      BY <3>3, <3>4
  <2> QED
    BY <2>1, <2>2
<1>10. Resuming'
  <2> SUFFICES ASSUME NEW s \in Sources, NEW j, j = jobs'[s], j.phase = "resume"
               PROVE  j.base < Len(history'[j.o]) /\ Own(j.o, s, j.rev, j.base)'
    BY DEF Resuming, Resumes
  <2>1. ~Idle
    BY NothingTodo DEF Written
  <2>2. jobs[s] = j
    BY <2>1 DEF Turn, Relaunched
  <2>3. Resumes(s, jobs[s])
    BY DEF Holds, Resuming
  <2>4. CASE x.w = "version"
    <3>1. Resumes(s, jobs[s])'
      BY <1>3, <1>4, <2>2, <2>3, <2>4, GrownResumes
    <3> QED
      BY <3>1 DEF Resumes
  <2>5. CASE x.w # "version"
    <3>1. history' = history
      BY <1>3, <2>5
    <3>2. j.o \in Opps /\ j.rev \in Nat
      BY <2>2 DEF CenterTypes, RunTypes, JobRec
    <3> QED
      BY <1>3, <2>2, <2>3, <3>1, <3>2 DEF Resumes, Own
  <2> QED
    BY <2>4, <2>5
<1> QED
  BY <1>3, <1>6, <1>7, <1>9, <1>10 DEF Holds

\* One step, while there was one fault at most.
Sound == Holds /\ Leaves

LEMMA SoundStep ==
  ASSUME NamesAssumption, CenterTypes, CenterTypes', Chains, Sound, Turn, Kinds, counts'.faults <= 1
  PROVE  Sound'
<1>1. counts'.faults \in Nat /\ counts.faults \in Nat
  BY DEF CenterTypes, RunTypes
<1>2. Holds /\ Leaves
  BY DEF Sound
<1>3. CASE Written
  BY <1>2, <1>3, HoldsWritten, LeavesWritten DEF Sound, Chains
<1>4. ASSUME NEW q \in Opps, Saved(q) PROVE Sound'
  <2>1. todo' = <<>>
    BY <1>4, NothingTodo DEF Saved
  <2> QED
    BY <1>2, <1>4, <2>1, HoldsSaved, NothingLeft DEF Sound
<1>5. CASE Settled /\ ~Written
  <2>1. history' = history /\ actions' = actions /\ todo' = todo
    BY <1>5 DEF Settled
  <2>2. \A s \in Sources : ledger'[s].status = "processed" =>
          ledger[s].status = "processed" /\ ledger'[s].assoc = ledger[s].assoc /\ ledger'[s].done = ledger[s].done
    BY <1>5 DEF Settled, Calm
  <2> QED
    BY <1>1, <1>2, <1>5, <2>1, <2>2, HoldsQuiet, LeavesSame DEF Sound
<1>6. CASE Stopped /\ ~Written
  <2>1. history' = history /\ actions' = actions /\ todo' = <<>> /\ ledger' = ledger
    BY <1>6 DEF Stopped
  <2>2. todo = <<>> \/ counts.faults < counts'.faults
    BY <1>6, <2>1 DEF Turn
  <2> QED
    BY <1>1, <1>2, <1>6, <2>1, <2>2, HoldsQuiet, NothingLeft DEF Sound
<1>7. ASSUME NEW kind, NEW s, Taken(kind, s) PROVE Holds'
  <2>1. history' = history /\ actions' = actions /\ ledger' = ledger /\ Idle
    BY <1>7 DEF Taken, stored
  <2>2. todo = <<>> /\ ~Written
    BY <2>1, NothingTodo DEF Written
  <2> QED
    BY <1>1, <1>2, <2>1, <2>2, HoldsQuiet
<1>8. ASSUME NEW o \in Opps, ListTaken(o) \/ \E s \in Sources : HumanTaken(o, s) PROVE Sound'
  <2>1. Holds'
    BY <1>7, <1>8 DEF ListTaken, HumanTaken
  <2> QED
    BY <1>8, <2>1, LeavesList, LeavesHuman DEF Sound
<1>9. ASSUME NEW s \in Sources,
             CommitTaken(s) \/ ForgetTaken(s) \/ \E to \in Opps \cup {Unassociated} : CorrectTaken(s, to)
      PROVE  Sound'
  <2>1. Holds'
    BY <1>7, <1>9 DEF CommitTaken, ForgetTaken, CorrectTaken
  <2> QED
    BY <1>2, <1>9, <2>1, LeavesCommit, LeavesForget, LeavesCorrect DEF Sound
<1> QED
  BY <1>3, <1>4, <1>5, <1>6, <1>8, <1>9 DEF Kinds

LEMMA SoundInit ==
  ASSUME CenterAssumption, NamesAssumption, Init
  PROVE  Sound
<1>1. /\ todo = <<>> /\ pending = [s \in Sources |-> NoPending] /\ jobs = [s \in Sources |-> NoJob]
      /\ ledger = [s \in Sources |-> Decided(FirstRevision("content"), Home)]
  BY DEF Init
<1>2. PICK v : v = SavedVersion(<<>>)
  OBVIOUS
<1>3. v.by = <<None, 0>> /\ v.cites = {<<None, 1>>}
  <2>1. PICK H \in Seq(Version) : H = <<>> /\ Len(H) = 0
    BY SeqNone
  <2>2. SavedVersion(H).by = <<None, 0>> /\ SavedVersion(H).cites = {<<None, Len(H) + 1>>}
    BY <2>1, SavedType
  <2>3. Len(H) + 1 = 1
    BY <2>1
  <2>4. v = SavedVersion(H)
    BY <1>2, <2>1
  <2> QED
    BY <2>2, <2>3, <2>4
<1>4. PICK h \in {<<>>, <<v>>} : history = [o \in Opps |-> IF o = Home THEN h ELSE <<>>]
  BY <1>2 DEF Init
<1>5. \A o \in Opps : \A i \in 1 .. Len(history[o]) : history[o][i] = v
  BY <1>4
<1>6. Origins
  BY <1>3, <1>5 DEF Origins, NamesAssumption
<1>7. Applieds
  <2>1. "content" \in Availability
    BY DEF Availability
  <2>2. PICK r : r = FirstRevision("content")
    OBVIOUS
  <2>3. SourceOK(r) /\ r.rev = 1 /\ r.assoc = Unassociated
    BY <2>1, <2>2, FirstRevisionOK
  <2>4. ~Associated(r)
    BY <2>3 DEF Associated, NamesAssumption
  <2>5. r \in Record /\ r.status \in Waiting /\ r.done < r.rev
    BY <2>3, <2>4, Unassociating
  <2>6. Home \in Places
    BY DEF CenterAssumption, Places
  <2>7. Decided(r, Home).status # "processed"
    BY <2>3, <2>5, <2>6, DecidedWaiting
  <2> QED
    BY <1>1, <2>2, <2>7 DEF Applieds
<1>8. Carrying
  <2> SUFFICES ASSUME NEW o \in Opps, NEW s \in Sources, NEW r \in Nat, Made(o, <<s, r>>) PROVE FALSE
    BY DEF Carrying
  <2>1. <<s, r>> = <<None, 0>>
    BY <1>3, <1>5 DEF Made
  <2> QED
    BY <2>1 DEF NamesAssumption
<1>9. Markers
  BY <1>1, EmptyMarker DEF Markers
<1>10. Resuming
  BY <1>1, NoJobType DEF Resuming, Resumes
<1>11. Leaves
  BY <1>1 DEF Leaves, Agree
<1> QED
  BY <1>6, <1>7, <1>8, <1>9, <1>10, <1>11 DEF Sound, Holds

\* What a page says of a processed source, from what the store keeps.
LEMMA AppliedShows ==
  ASSUME CenterTypes, Cited, Applieds, Idle, NEW s \in Sources, Known(s), ledger[s].status = "processed"
  PROVE  LET r == ledger[s]
             o == r.assoc
         IN /\ Associated(r) /\ history[o] # <<>>
            /\ <<s, r.done>> \in Last(history[o]).cites \/ Inspect(o) \in {"retired", "withheld"}
            /\ \E v \in ToSet(history[o]) :
                 /\ v.by = <<s, r.done>>
                 /\ v.obs \in {"open", "proposed"} => Exists(actions[o][s]) /\ r.done \in actions[o][s].evidence
<1>1. SourceOK(ledger[s]) /\ s \notin Forgotten
  BY ListedStatus
<1>2. PICK o \in Opps : o = ledger[s].assoc
  BY <1>1, ProcessedBelongs
<1>3. ~Dropping(s)
  BY NothingTodo DEF Dropping, WritesSource
<1>4. Reflects(o, s)
  BY <1>1, <1>2, <1>3 DEF Cited, Kept, Processed
<1>5. history[o] # <<>> /\ (<<s, ledger[s].done>> \in Last(history[o]).cites \/ Inspect(o) = "retired")
  BY <1>4 DEF Reflects, Inspect
<1>6. PICK i \in 1 .. Len(history[o]) :
        /\ history[o][i].by = <<s, ledger[s].done>>
        /\ Asks(history[o][i]) => Evident(o, s, ledger[s].done)
  BY <1>2 DEF Applieds, Carried
<1>7. history[o][i] \in ToSet(history[o])
  BY <1>6 DEF ToSet
<1>8. history[o][i].obs \in {"open", "proposed"}
        => Exists(actions[o][s]) /\ ledger[s].done \in actions[o][s].evidence
  BY <1>6 DEF Asks, Evident, Exists
<1>9. \E v \in ToSet(history[o]) :
        /\ v.by = <<s, ledger[s].done>>
        /\ v.obs \in {"open", "proposed"} => Exists(actions[o][s]) /\ ledger[s].done \in actions[o][s].evidence
  BY <1>6, <1>7, <1>8
<1> QED
  BY <1>2, <1>5, <1>9 DEF Associated

LEMMA AllApplied ==
  ASSUME CenterTypes, counts.torn \/ Cited, counts.faults <= 1 => Sound
  PROVE  ProcessedIsApplied
<1> SUFFICES ASSUME NEW s \in Sources, Idle, ~counts.torn, counts.faults <= 1, Known(s), ledger[s].status = "processed"
             PROVE  LET r == ledger[s]
                        o == r.assoc
                    IN /\ Associated(r) /\ history[o] # <<>>
                       /\ <<s, r.done>> \in Last(history[o]).cites \/ Inspect(o) \in {"retired", "withheld"}
                       /\ \E v \in ToSet(history[o]) :
                            /\ v.by = <<s, r.done>>
                            /\ v.obs \in {"open", "proposed"}
                                 => Exists(actions[o][s]) /\ r.done \in actions[o][s].evidence
  BY DEF ProcessedIsApplied
<1>1. Cited /\ Applieds
  BY DEF Sound, Holds
<1> QED
  BY <1>1, AppliedShows

LEMMA SoundKept ==
  ASSUME CenterTypes, Chains, counts.faults <= 1 => Sound, [Next]_vars
  PROVE  counts'.faults <= 1 => Sound'
<1> SUFFICES ASSUME counts'.faults <= 1 PROVE Sound'
  OBVIOUS
<1>1. NamesAssumption /\ CenterTypes' /\ Kinds
  BY StepKinds
<1>2. Turn
  BY TurnStep
<1>3. counts.faults \in Nat /\ counts'.faults \in Nat
  BY <1>1 DEF CenterTypes, RunTypes
<1>4. counts.faults <= 1
  BY <1>2, <1>3 DEF Turn
<1> QED
  BY <1>1, <1>2, <1>4, SoundStep

\* An operation is a whole, whatever was cut off: a source that is said to be processed
\* belongs to an opportunity whose overview cites it, unless it is held back, it has
\* the version and the action that its analysis asked for, and of a user's transitions
\* only the last can lack its change. What was applied is told for up to one fault:
\* after two, a marker can name a version that was not made from its source.
THEOREM Operations == Spec => []OperationsAreWhole
<1> DEFINE Inv == /\ CenterTypes /\ Chains
                  /\ counts.torn \/ (Effects /\ Cited)
                  /\ Trailed
                  /\ counts.faults <= 1 => Sound
<1>1. Init => Inv
  BY InitTypes, ChainsInit, EffectsInit, CitedInit, TrailedInit, SoundInit, NamesAssumption, CenterAssumption
<1>2. Inv /\ [Next]_vars => Inv'
  <2> SUFFICES ASSUME Inv, [Next]_vars PROVE Inv'
    OBVIOUS
  <2>1. NamesAssumption /\ CenterTypes' /\ Kinds
    BY StepKinds
  <2>2. counts.torn \/ Effects
    OBVIOUS
  <2>3. Chains' /\ (counts'.torn \/ Effects') /\ (counts'.torn \/ Cited')
    BY <2>1, <2>2, ChainsStep, EffectsStep, CitedStep
  <2>4. Trailed'
    BY <2>1, TrailedStep
  <2>5. counts'.faults <= 1 => Sound'
    BY SoundKept
  <2> QED
    BY <2>1, <2>3, <2>4, <2>5
<1>3. Inv => OperationsAreWhole
  BY AllApplied, TrailsAreRecorded DEF OperationsAreWhole
<1> QED
  BY <1>1, <1>2, <1>3, PTL DEF Spec
=============================================================================
