--------------------------- MODULE SequenceLemmas ---------------------------
(***************************************************************************)
(* Facts about numbers, sequences and sums, for the proofs about the       *)
(* modules: what FlattenSeq, MapThenSumSet and the count of the elements   *)
(* of a sequence give when one element is added.                           *)
(*                                                                         *)
(* They are defined by recursion, and the induction theorems of the        *)
(* library take an operator; induction is stated here over the set of the  *)
(* numbers or sequences that a formula holds for.                          *)
(***************************************************************************)
EXTENDS Integers, Sequences, FiniteSets, SequencesExt, FiniteSetsExt, FiniteSetTheorems,
        WellFoundedInduction, TLAPS

(* A set of numbers that is not empty has a least: of the intervals that     *)
(* start at 1 and end in the set, one holds no other.                        *)
LEMMA LeastNumber ==
  ASSUME NEW T \in SUBSET Nat, T # {}
  PROVE  \E k \in T : \A n \in T : k <= n
  <1> DEFINE Intervals == {1..k : k \in T}
  <1>1. Intervals \subseteq FiniteSubsetsOf(Nat) /\ Intervals # {}
    <2>1. \A k \in T : 1..k \in SUBSET Nat /\ IsFiniteSet(1..k)
      BY FS_Interval
    <2>2. QED  BY <2>1 DEF FiniteSubsetsOf
  <1>2. PICK I \in Intervals : \A J \in Intervals : <<J, I>> \notin StrictSubsetOrdering(Nat)
    <2>1. IsWellFoundedOn(StrictSubsetOrdering(Nat), FiniteSubsetsOf(Nat))
      BY FS_StrictSubsetOrderingWellFounded
    <2> HIDE DEF Intervals
    <2>2. QED  BY <1>1, <2>1, WFMin
  <1>3. PICK k \in T : I = 1..k  OBVIOUS
  <1>4. ASSUME NEW n \in T, n < k PROVE FALSE
    <2>1. 1..n \in Intervals  OBVIOUS
    <2>2. 1..n \subseteq 1..k /\ k \in 1..k /\ k \notin 1..n
      BY <1>4
    <2>3. 1..n \in SUBSET Nat /\ 1..k \in SUBSET Nat  OBVIOUS
    <2>4. <<1..n, 1..k>> \in StrictSubsetOrdering(Nat)
      <3>1. PICK a, b : a = 1..n /\ b = 1..k  OBVIOUS
      <3>2. a \subseteq b /\ a # b /\ a \in SUBSET Nat /\ b \in SUBSET Nat  BY <2>2, <2>3, <3>1
      <3>3. <<a, b>> \in StrictSubsetOrdering(Nat)  BY <3>2 DEF StrictSubsetOrdering
      <3>4. QED  BY <3>1, <3>3
    <2>5. QED  BY <1>2, <1>3, <2>1, <2>4
  <1>5. \A n \in T : k <= n  BY <1>4
  <1>6. QED  BY <1>5

(* Induction, for a set of numbers.                                          *)
LEMMA AllNumbers ==
  ASSUME NEW S, 0 \in S, \A n \in Nat : n \in S => n + 1 \in S
  PROVE  Nat \subseteq S
  <1>1. SUFFICES ASSUME Nat \ S # {} PROVE FALSE  OBVIOUS
  <1>2. PICK k \in Nat \ S : \A n \in Nat \ S : k <= n
    <2>1. Nat \ S \in SUBSET Nat  OBVIOUS
    <2>2. QED  BY <1>1, <2>1, LeastNumber
  <1>3. k - 1 \in Nat /\ k - 1 \notin S
    <2>1. k # 0  OBVIOUS
    <2>2. k - 1 \in Nat /\ (k - 1) + 1 = k  BY <2>1
    <2>3. QED  BY <2>2
  <1>4. QED  BY <1>2, <1>3

(* Induction over sequences, for a set of them.                              *)
LEMMA AllSequences ==
  ASSUME NEW S, NEW P, <<>> \in P,
         \A q \in Seq(S), e \in S : q \in P => Append(q, e) \in P
  PROVE  Seq(S) \subseteq P
  <1> DEFINE Lengths == {n \in Nat : \A q \in Seq(S) : Len(q) = n => q \in P}
  <1>1. 0 \in Lengths
    <2>1. \A q \in Seq(S) : Len(q) = 0 => q = <<>>  OBVIOUS
    <2>2. QED  BY <2>1
  <1>2. ASSUME NEW n \in Nat, n \in Lengths PROVE n + 1 \in Lengths
    <2>1. SUFFICES ASSUME NEW q \in Seq(S), Len(q) = n + 1 PROVE q \in P
      BY <1>2
    <2>2. PICK r \in Seq(S), e \in S : q = Append(r, e) /\ Len(r) = n
      <3>1. q = Append(SubSeq(q, 1, n), q[n + 1]) /\ SubSeq(q, 1, n) \in Seq(S)
            /\ Len(SubSeq(q, 1, n)) = n /\ q[n + 1] \in S
        BY <1>2, <2>1
      <3>2. QED  BY <3>1
    <2>3. r \in P  BY <1>2, <2>2
    <2>4. QED  BY <2>2, <2>3
  <1> HIDE DEF Lengths
  <1>3. Nat \subseteq Lengths  BY <1>1, <1>2, AllNumbers
  <1>4. \A q \in Seq(S) : Len(q) \in Nat  OBVIOUS
  <1>5. QED  BY <1>3, <1>4 DEF Lengths
-----------------------------------------------------------------------------
(* Sequences of sequences: the facts of the solver, once for any elements.   *)
LEMMA EmptyIsSeq ==
  ASSUME NEW T
  PROVE  <<>> \in Seq(T)
  OBVIOUS

LEMMA AppendFacts ==
  ASSUME NEW T, NEW q \in Seq(T), NEW e \in T
  PROVE  /\ Append(q, e) \in Seq(T) /\ Append(q, e) # <<>>
         /\ Len(Append(q, e)) = Len(q) + 1 /\ Append(q, e)[Len(q) + 1] = e
         /\ \A i \in 1..Len(q) : Append(q, e)[i] = q[i]
  OBVIOUS

LEMMA ConcatFacts ==
  ASSUME NEW T, NEW q \in Seq(T), NEW r \in Seq(T)
  PROVE  /\ q \o r \in Seq(T) /\ q \o <<>> = q /\ <<>> \o q = q
  OBVIOUS

Extends(r, q, e) ==
  /\ r # <<>> /\ Len(r) = Len(q) + 1 /\ r[Len(q) + 1] = e
  /\ \A i \in 1..Len(q) : q[i] = r[i]

LEMMA AppendExtends ==
  ASSUME NEW T, NEW q \in Seq(T), NEW e \in T
  PROVE  Append(q, e) \in Seq(T) /\ Extends(Append(q, e), q, e)
  BY AppendFacts DEF Extends

Associates(q, r, u) == (q \o r) \o u = q \o (r \o u)

LEMMA ConcatAssoc ==
  ASSUME NEW T, NEW q \in Seq(T), NEW r \in Seq(T), NEW u \in Seq(T)
  PROVE  Associates(q, r, u)
  BY DEF Associates

Regroups(q, r, u, v) == (q \o (r \o u)) \o v = (q \o r) \o (u \o v)

LEMMA ConcatFour ==
  ASSUME NEW T, NEW q \in Seq(T), NEW r \in Seq(T), NEW u \in Seq(T), NEW v \in Seq(T)
  PROVE  Regroups(q, r, u, v)
  <1>1. Associates(q, r, u) /\ Associates(q \o r, u, v)
    <2>1. q \o r \in Seq(T)  OBVIOUS
    <2>2. QED  BY <2>1, ConcatAssoc, Zenon
  <1>2. QED  BY <1>1, Zenon DEF Associates, Regroups

LEMMA SplitAt ==
  ASSUME NEW T, NEW d \in Seq(T), NEW k \in 0..Len(d)
  PROVE  /\ SubSeq(d, 1, k) \in Seq(T) /\ SubSeq(d, k + 1, Len(d)) \in Seq(T)
         /\ d = SubSeq(d, 1, k) \o SubSeq(d, k + 1, Len(d))
  <1>1. PICK n \in Nat : n = Len(d)  OBVIOUS
  <1>2. PICK a, b : a = SubSeq(d, 1, k) /\ b = SubSeq(d, k + 1, n)  OBVIOUS
  <1>3. a \in Seq(T) /\ Len(a) = k /\ \A i \in 1..k : a[i] = d[i]
    <2>1. SubSeq(d, 1, k) \in Seq(T) /\ Len(SubSeq(d, 1, k)) = k  BY <1>1
    <2>2. \A i \in 1..k : SubSeq(d, 1, k)[i] = d[i]  BY <1>1
    <2>3. QED  BY <1>2, <2>1, <2>2, Zenon
  <1>4. b \in Seq(T) /\ Len(b) = n - k /\ \A i \in 1..n-k : b[i] = d[k + i]
    <2>1. SubSeq(d, k + 1, n) \in Seq(T) /\ Len(SubSeq(d, k + 1, n)) = n - k  BY <1>1
    <2>2. \A i \in 1..n-k : SubSeq(d, k + 1, n)[i] = d[k + i]  BY <1>1
    <2>3. QED  BY <1>2, <2>1, <2>2, Zenon
  <1>5. PICK c \in Seq(T) : c = a \o b  BY <1>3, <1>4, ConcatFacts, Zenon
  <1>6. Len(c) = n /\ \A i \in 1..n : c[i] = IF i <= k THEN a[i] ELSE b[i - k]
    BY <1>1, <1>3, <1>4, <1>5
  <1>7. \A i \in 1..n : c[i] = d[i]
    <2>1. TAKE i \in 1..n
    <2>2. CASE i <= k  BY <1>3, <1>6, <2>2
    <2>3. CASE ~(i <= k)
      <3>1. i - k \in 1..n-k /\ k + (i - k) = i  BY <1>1, <2>3
      <3>2. QED  BY <1>4, <1>6, <2>3, <3>1
    <2>4. QED  BY <2>2, <2>3
  <1>8. c = d
    <2>1. \A x, y \in Seq(T) : Len(x) = Len(y) /\ (\A i \in 1..Len(x) : x[i] = y[i]) => x = y
      OBVIOUS
    <2>2. QED  BY <1>1, <1>6, <1>7, <2>1
  <1>9. QED  BY <1>1, <1>2, <1>3, <1>4, <1>5, <1>8

LEMMA ConcatAppend ==
  ASSUME NEW T, NEW q \in Seq(T), NEW r \in Seq(T), NEW e \in T
  PROVE  q \o Append(r, e) = Append(q \o r, e)
  OBVIOUS

Chains(z, x, y) ==
  /\ Len(z) = Len(x) + Len(y)
  /\ \A k \in 1..Len(x) : z[k] = x[k]
  /\ \A k \in 1..Len(y) : z[Len(x) + k] = y[k]

LEMMA ConcatIs ==
  ASSUME NEW T, NEW x \in Seq(T), NEW y \in Seq(T)
  PROVE  x \o y \in Seq(T) /\ Chains(x \o y, x, y)
  BY DEF Chains
-----------------------------------------------------------------------------
(* FlattenSeq, from its definition by recursion.                             *)
Joins(f, seqs, n) ==
  f = [i \in 1..n |-> IF i = 1 THEN seqs[i] ELSE f[i-1] \o seqs[i]]

LEMMA JoinsExists ==
  ASSUME NEW seqs, NEW n \in Nat
  PROVE  \E f : Joins(f, seqs, n)
  <1> DEFINE Good == {k \in Nat : \E f : Joins(f, seqs, k)}
  <1>1. 0 \in Good
    <2>1. Joins([i \in 1..0 |-> 0], seqs, 0)  BY DEF Joins
    <2>2. QED  BY <2>1
  <1>2. ASSUME NEW k \in Nat, k \in Good PROVE k + 1 \in Good
    <2>1. PICK f : Joins(f, seqs, k)  BY <1>2
    <2>2. PICK x : x = IF k + 1 = 1 THEN seqs[k + 1] ELSE f[k] \o seqs[k + 1]  OBVIOUS
    <2>3. PICK g : g = [i \in 1..k+1 |-> IF i = k + 1 THEN x ELSE f[i]]  OBVIOUS
    <2>4. ASSUME NEW i \in 1..k+1
          PROVE  g[i] = IF i = 1 THEN seqs[i] ELSE g[i-1] \o seqs[i]
      <3>1. CASE i = k + 1
        <4>1. g[i] = x  BY <2>3, <3>1
        <4>2. i # 1 => g[i-1] = f[k]  BY <2>3, <3>1
        <4>3. QED  BY <2>2, <3>1, <4>1, <4>2, Zenon
      <3>2. CASE i # k + 1
        <4>1. i \in 1..k /\ (i # 1 => i - 1 \in 1..k)  BY <3>2
        <4>2. g[i] = f[i] /\ (i # 1 => g[i-1] = f[i-1])  BY <2>3, <3>2, <4>1
        <4>3. f[i] = IF i = 1 THEN seqs[i] ELSE f[i-1] \o seqs[i]
          BY <2>1, <4>1, Zenon DEF Joins
        <4>4. QED  BY <4>2, <4>3, Zenon
      <3>3. QED  BY <3>1, <3>2
    <2>5. Joins(g, seqs, k + 1)  BY <2>3, <2>4, Zenon DEF Joins
    <2>6. QED  BY <2>5
  <1> HIDE DEF Good
  <1>3. Nat \subseteq Good  BY <1>1, <1>2, AllNumbers
  <1>4. QED  BY <1>3 DEF Good

JoinsNext(f, seqs, k) == f[k+1] = IF k + 1 = 1 THEN seqs[k+1] ELSE f[k] \o seqs[k+1]

LEMMA JoinsAt ==
  ASSUME NEW f, NEW seqs, NEW n \in Nat, Joins(f, seqs, n), NEW k \in Nat, k + 1 \in 1..n
  PROVE  JoinsNext(f, seqs, k)
  <1>1. (k + 1) - 1 = k  OBVIOUS
  <1>2. f[k+1] = IF k + 1 = 1 THEN seqs[k+1] ELSE f[(k+1)-1] \o seqs[k+1]
    BY Zenon DEF Joins
  <1>3. QED  BY <1>1, <1>2, Zenon DEF JoinsNext

LEMMA JoinsAgree ==
  ASSUME NEW m \in Nat, NEW a, NEW b, NEW f, NEW g, NEW n \in Nat, NEW l \in Nat,
         Joins(f, a, n), Joins(g, b, l), m <= n, m <= l, \A i \in 1..m : a[i] = b[i],
         m > 0
  PROVE  f[m] = g[m]
  <1> DEFINE Good == {k \in Nat : k \in 1..m => f[k] = g[k]}
  <1>1. 0 \in Good  OBVIOUS
  <1>2. ASSUME NEW k \in Nat, k \in Good PROVE k + 1 \in Good
    <2>1. SUFFICES ASSUME k + 1 \in 1..m PROVE f[k+1] = g[k+1]  OBVIOUS
    <2>2. k + 1 \in 1..n /\ k + 1 \in 1..l /\ (k + 1) - 1 = k  BY <2>1
    <2>3. JoinsNext(f, a, k) /\ JoinsNext(g, b, k)  BY <2>2, JoinsAt
    <2>4. k + 1 = 1 \/ f[k] = g[k]  BY <1>2, <2>1
    <2>5. a[k+1] = b[k+1]  BY <2>1
    <2>6. QED  BY <2>3, <2>4, <2>5, Zenon DEF JoinsNext
  <1> HIDE DEF Good
  <1>3. Nat \subseteq Good  BY <1>1, <1>2, AllNumbers
  <1>4. QED  BY <1>3 DEF Good

LEMMA FlattenJoins ==
  ASSUME NEW S, NEW seqs \in Seq(S), seqs # <<>>
  PROVE  \E f : Joins(f, seqs, Len(seqs)) /\ FlattenSeq(seqs) = f[Len(seqs)]
  <1>1. Len(seqs) \in Nat /\ Len(seqs) # 0  OBVIOUS
  <1>2. PICK f : f = CHOOSE g : Joins(g, seqs, Len(seqs))  OBVIOUS
  <1>3. Joins(f, seqs, Len(seqs))  BY <1>1, <1>2, JoinsExists, Zenon
  <1>4. FlattenSeq(seqs) = f[Len(seqs)]
    BY <1>1, <1>2, Zenon DEF FlattenSeq, Joins
  <1>5. QED  BY <1>3, <1>4

LEMMA FlattenEmpty == FlattenSeq(<<>>) = <<>>
  BY DEF FlattenSeq

LEMMA FlattenOne ==
  ASSUME NEW S, NEW x \in Seq(S)
  PROVE  FlattenSeq(<<x>>) = x
  <1>1. <<x>> \in Seq(Seq(S)) /\ <<x>> # <<>> /\ Len(<<x>>) = 1  OBVIOUS
  <1>2. PICK f : Joins(f, <<x>>, 1) /\ FlattenSeq(<<x>>) = f[1]
    BY <1>1, FlattenJoins
  <1>3. f[1] = <<x>>[1]  BY <1>2 DEF Joins
  <1>4. QED  BY <1>2, <1>3

LEMMA FlattenAppend ==
  ASSUME NEW S, NEW seqs \in Seq(Seq(S)), NEW x \in Seq(S)
  PROVE  FlattenSeq(Append(seqs, x)) = FlattenSeq(seqs) \o x
  <1>1. CASE seqs = <<>>
    <2>1. Append(seqs, x) = <<x>>  BY <1>1
    <2>2. FlattenSeq(Append(seqs, x)) = x  BY <2>1, FlattenOne
    <2>3. FlattenSeq(seqs) \o x = x  BY <1>1, FlattenEmpty
    <2>4. QED  BY <2>2, <2>3
  <1>2. CASE seqs # <<>>
    <2>1. PICK more \in Seq(Seq(S)) : more = Append(seqs, x) /\ Extends(more, seqs, x)
      BY AppendExtends, Zenon
    <2>2. PICK n \in Nat : n = Len(seqs) /\ n > 0  BY <1>2
    <2>3. more # <<>> /\ Len(more) = n + 1 /\ more[n + 1] = x
          /\ \A i \in 1..n : seqs[i] = more[i]
      BY <2>1, <2>2, Zenon DEF Extends
    <2>4. PICK f : Joins(f, seqs, n) /\ FlattenSeq(seqs) = f[n]
      BY <1>2, <2>2, FlattenJoins
    <2>5. PICK g : Joins(g, more, n + 1) /\ FlattenSeq(more) = g[n + 1]
      BY <2>1, <2>3, FlattenJoins
    <2>6. f[n] = g[n]
      <3>1. n + 1 \in Nat /\ n <= n + 1 /\ n <= n /\ n > 0  BY <2>2
      <3>2. \A i \in 1..n : seqs[i] = more[i]  BY <2>3
      <3>3. QED  BY <2>4, <2>5, <3>1, <3>2, JoinsAgree
    <2>7. g[n + 1] = g[n] \o x
      <3>1. n + 1 \in 1..n+1 /\ n + 1 # 1 /\ (n + 1) - 1 = n  BY <2>2
      <3>2. g[n + 1] = IF n + 1 = 1 THEN more[n + 1] ELSE g[n] \o more[n + 1]
        BY <2>5, <3>1, Zenon DEF Joins
      <3>3. QED  BY <2>3, <3>1, <3>2, Zenon
    <2>8. QED  BY <2>1, <2>4, <2>5, <2>6, <2>7
  <1>3. QED  BY <1>1, <1>2

LEMMA FlattenType ==
  ASSUME NEW S, NEW seqs \in Seq(Seq(S))
  PROVE  FlattenSeq(seqs) \in Seq(S)
  <1> DEFINE Good == {q \in Seq(Seq(S)) : FlattenSeq(q) \in Seq(S)}
  <1>1. <<>> \in Good  BY FlattenEmpty, EmptyIsSeq, Zenon
  <1>2. ASSUME NEW q \in Seq(Seq(S)), NEW e \in Seq(S), q \in Good
        PROVE  Append(q, e) \in Good
    <2>1. FlattenSeq(Append(q, e)) = FlattenSeq(q) \o e  BY FlattenAppend
    <2>2. FlattenSeq(q) \in Seq(S)  BY <1>2
    <2>3. PICK r \in Seq(Seq(S)) : r = Append(q, e)  BY AppendFacts, Zenon
    <2>4. FlattenSeq(r) \in Seq(S)  BY <2>1, <2>2, <2>3, ConcatFacts, Zenon
    <2>5. QED  BY <2>3, <2>4
  <1> HIDE DEF Good
  <1>3. Seq(Seq(S)) \subseteq Good  BY <1>1, <1>2, AllSequences
  <1>4. QED  BY <1>3 DEF Good

LEMMA FlattenConcat ==
  ASSUME NEW S, NEW a \in Seq(Seq(S)), NEW b \in Seq(Seq(S))
  PROVE  FlattenSeq(a \o b) = FlattenSeq(a) \o FlattenSeq(b)
  <1> DEFINE Good == {q \in Seq(Seq(S)) : FlattenSeq(a \o q) = FlattenSeq(a) \o FlattenSeq(q)}
  <1>1. <<>> \in Good
    <2>1. a \o <<>> = a /\ FlattenSeq(a) \o <<>> = FlattenSeq(a)
      BY FlattenType, ConcatFacts, Zenon
    <2>2. QED  BY <2>1, FlattenEmpty, EmptyIsSeq, Zenon
  <1>2. ASSUME NEW q \in Seq(Seq(S)), NEW e \in Seq(S), q \in Good
        PROVE  Append(q, e) \in Good
    <2>1. PICK r \in Seq(Seq(S)) : r = Append(q, e)  BY AppendFacts, Zenon
    <2>2. a \o r = Append(a \o q, e) /\ a \o q \in Seq(Seq(S))
      <3>1. a \o Append(q, e) = Append(a \o q, e)  BY ConcatAppend, SMTT(30)
      <3>2. a \o q \in Seq(Seq(S))  BY ConcatFacts, Zenon
      <3>3. QED  BY <2>1, <3>1, <3>2, Zenon
    <2>3. FlattenSeq(a \o r) = FlattenSeq(a \o q) \o e  BY <2>2, FlattenAppend
    <2>4. FlattenSeq(r) = FlattenSeq(q) \o e  BY <2>1, FlattenAppend
    <2>5. FlattenSeq(a \o q) = FlattenSeq(a) \o FlattenSeq(q)  BY <1>2
    <2>6. FlattenSeq(a) \in Seq(S) /\ FlattenSeq(q) \in Seq(S)  BY FlattenType
    <2>7. Associates(FlattenSeq(a), FlattenSeq(q), e)
      BY <2>6, ConcatAssoc, Zenon
    <2>8. FlattenSeq(a \o r) = FlattenSeq(a) \o FlattenSeq(r)
      BY <2>3, <2>4, <2>5, <2>7, Zenon DEF Associates
    <2>9. QED  BY <2>1, <2>8
  <1> HIDE DEF Good
  <1>3. Seq(Seq(S)) \subseteq Good  BY <1>1, <1>2, AllSequences
  <1>4. QED  BY <1>3 DEF Good

(* A map over a sequence, extended.                                          *)
Mapped(f, q) == [k \in DOMAIN q |-> f[q[k]]]

LEMMA MappedType ==
  ASSUME NEW T, NEW U, NEW f, \A i \in T : f[i] \in U, NEW q \in Seq(T)
  PROVE  Mapped(f, q) \in Seq(U)
  BY DEF Mapped

LEMMA MappedAppend ==
  ASSUME NEW T, NEW q \in Seq(T), NEW e \in T, NEW f
  PROVE  Mapped(f, Append(q, e)) = Append(Mapped(f, q), f[e])
  BY DEF Mapped

-----------------------------------------------------------------------------
(* What a sequence holds, and how often.                                     *)
Members(x) == {x[i] : i \in DOMAIN x}
CountIn(x, J) == Cardinality({i \in DOMAIN x : x[i] \in J})

LEMMA ConcatElements ==
  ASSUME NEW T, NEW x \in Seq(T), NEW y \in Seq(T)
  PROVE  \A i \in DOMAIN (x \o y) :
           \/ i \in DOMAIN x /\ (x \o y)[i] = x[i]
           \/ i - Len(x) \in DOMAIN y /\ (x \o y)[i] = y[i - Len(x)] /\ i > Len(x)
  <1>1. x \o y \in Seq(T) /\ Len(x \o y) = Len(x) + Len(y)  OBVIOUS
  <1>2. \A i \in 1..Len(x) + Len(y) : (x \o y)[i] = IF i <= Len(x) THEN x[i] ELSE y[i - Len(x)]
    OBVIOUS
  <1>3. DOMAIN (x \o y) = 1..Len(x) + Len(y) /\ DOMAIN x = 1..Len(x) /\ DOMAIN y = 1..Len(y)
        /\ Len(x) \in Nat /\ Len(y) \in Nat
    BY <1>1
  <1>4. QED  BY <1>2, <1>3

LEMMA MembersConcat ==
  ASSUME NEW T, NEW x \in Seq(T), NEW y \in Seq(T)
  PROVE  Members(x \o y) = Members(x) \cup Members(y)
  <1>1. Members(x \o y) \subseteq Members(x) \cup Members(y)
    <2>1. \A i \in DOMAIN (x \o y) :
             \/ i \in DOMAIN x /\ (x \o y)[i] = x[i]
             \/ i - Len(x) \in DOMAIN y /\ (x \o y)[i] = y[i - Len(x)]
      BY ConcatElements
    <2>2. PICK z : z = x \o y  OBVIOUS
    <2>3. Members(z) \subseteq Members(x) \cup Members(y)
      <3>1. \A i \in DOMAIN z :
               \/ i \in DOMAIN x /\ z[i] = x[i]
               \/ i - Len(x) \in DOMAIN y /\ z[i] = y[i - Len(x)]
        BY <2>1, <2>2, Zenon
      <3>2. QED  BY <3>1 DEF Members
    <2>4. QED  BY <2>2, <2>3
  <1>2. DOMAIN (x \o y) = 1..Len(x) + Len(y) /\ DOMAIN x = 1..Len(x) /\ DOMAIN y = 1..Len(y)
        /\ Len(x) \in Nat /\ Len(y) \in Nat
    OBVIOUS
  <1>3. \A i \in 1..Len(x) + Len(y) : (x \o y)[i] = IF i <= Len(x) THEN x[i] ELSE y[i - Len(x)]
    OBVIOUS
  <1>4. ASSUME NEW i \in DOMAIN x PROVE x[i] \in Members(x \o y)
    <2>1. i \in DOMAIN (x \o y) /\ (x \o y)[i] = x[i]  BY <1>2, <1>3
    <2>2. QED  BY <2>1 DEF Members
  <1>5. ASSUME NEW i \in DOMAIN y PROVE y[i] \in Members(x \o y)
    <2>1. i + Len(x) \in DOMAIN (x \o y) /\ ~(i + Len(x) <= Len(x)) /\ (i + Len(x)) - Len(x) = i
      BY <1>2
    <2>2. (x \o y)[i + Len(x)] = y[i]  BY <1>2, <1>3, <2>1
    <2>3. QED  BY <2>1, <2>2 DEF Members
  <1>6. QED  BY <1>1, <1>4, <1>5, Zenon DEF Members

LEMMA MembersAppend ==
  ASSUME NEW T, NEW x \in Seq(T), NEW e \in T
  PROVE  Members(Append(x, e)) = Members(x) \cup {e}
  <1>1. PICK n \in Nat : n = Len(x)  OBVIOUS
  <1>2. DOMAIN Append(x, e) = 1..n+1 /\ DOMAIN x = 1..n /\ Append(x, e)[n + 1] = e
        /\ \A i \in 1..n : Append(x, e)[i] = x[i]
    BY <1>1
  <1>3. PICK y : y = Append(x, e)  OBVIOUS
  <1>4. DOMAIN y = 1..n+1 /\ y[n + 1] = e /\ \A i \in 1..n : y[i] = x[i]
    BY <1>2, <1>3, Zenon
  <1>5. Members(y) = Members(x) \cup {e}  BY <1>2, <1>4 DEF Members
  <1>6. QED  BY <1>3, <1>5

LEMMA MembersType ==
  ASSUME NEW T, NEW x \in Seq(T)
  PROVE  Members(x) \subseteq T
  BY DEF Members

LEMMA CountAppend ==
  ASSUME NEW T, NEW x \in Seq(T), NEW e \in T, NEW J
  PROVE  /\ CountIn(x, J) \in Nat
         /\ CountIn(Append(x, e), J) = CountIn(x, J) + IF e \in J THEN 1 ELSE 0
  <1>1. PICK n \in Nat : n = Len(x)  OBVIOUS
  <1>2. PICK A : A = {i \in DOMAIN x : x[i] \in J}  OBVIOUS
  <1>3. A \subseteq 1..n  BY <1>1, <1>2
  <1>4. IsFiniteSet(A) /\ Cardinality(A) \in Nat
    <2>1. IsFiniteSet(1..n)  BY FS_Interval
    <2>2. IsFiniteSet(A)  BY <1>3, <2>1, FS_Subset
    <2>3. QED  BY <2>2, FS_CardinalityType
  <1>5. {i \in DOMAIN Append(x, e) : Append(x, e)[i] \in J} = IF e \in J THEN A \cup {n + 1} ELSE A
    <2>1. DOMAIN Append(x, e) = 1..n+1 /\ DOMAIN x = 1..n  BY <1>1
    <2>2. \A i \in 1..n : Append(x, e)[i] = x[i]  BY <1>1
    <2>3. Append(x, e)[n + 1] = e  BY <1>1
    <2>4. PICK y : y = Append(x, e)  OBVIOUS
    <2>5. {i \in DOMAIN y : y[i] \in J} = IF e \in J THEN A \cup {n + 1} ELSE A
      <3>1. DOMAIN y = 1..n+1 /\ y[n + 1] = e /\ \A i \in 1..n : y[i] = x[i]
        BY <2>1, <2>2, <2>3, <2>4, Zenon
      <3>2. QED  BY <1>2, <2>1, <3>1
    <2>6. QED  BY <2>4, <2>5
  <1>6. n + 1 \notin A  BY <1>3
  <1>7. Cardinality(A \cup {n + 1}) = Cardinality(A) + 1  BY <1>4, <1>6, FS_AddElement
  <1>8. CountIn(x, J) = Cardinality(A)  BY <1>2 DEF CountIn
  <1>9. CountIn(Append(x, e), J) = Cardinality(IF e \in J THEN A \cup {n + 1} ELSE A)
    BY <1>5, Zenon DEF CountIn
  <1>10. CASE e \in J  BY <1>4, <1>7, <1>8, <1>9, <1>10
  <1>11. CASE e \notin J  BY <1>4, <1>8, <1>9, <1>11
  <1>12. QED  BY <1>10, <1>11

LEMMA CountEmpty == \A J : CountIn(<<>>, J) = 0
  <1>1. TAKE J
  <1>2. {i \in DOMAIN <<>> : <<>>[i] \in J} = {}  OBVIOUS
  <1>3. QED  BY <1>2, FS_EmptySet DEF CountIn

LEMMA CountType ==
  ASSUME NEW T, NEW x \in Seq(T), NEW J
  PROVE  CountIn(x, J) \in Nat /\ (CountIn(x, J) > 0 <=> \E e \in Members(x) : e \in J)
  <1>1. PICK n \in Nat : n = Len(x)  OBVIOUS
  <1>2. PICK A : A = {i \in DOMAIN x : x[i] \in J}  OBVIOUS
  <1>3. A \subseteq 1..n /\ IsFiniteSet(1..n)  BY <1>1, <1>2, FS_Interval
  <1>4. IsFiniteSet(A)  BY <1>3, FS_Subset
  <1>5. Cardinality(A) \in Nat /\ (Cardinality(A) = 0 <=> A = {})
    BY <1>4, FS_CardinalityType, FS_EmptySet
  <1>6. A # {} <=> \E e \in Members(x) : e \in J  BY <1>2 DEF Members
  <1>7. CountIn(x, J) = Cardinality(A)  BY <1>2 DEF CountIn
  <1>8. QED  BY <1>5, <1>6, <1>7

LEMMA CountConcat ==
  ASSUME NEW T, NEW x \in Seq(T), NEW y \in Seq(T), NEW J
  PROVE  CountIn(x \o y, J) = CountIn(x, J) + CountIn(y, J)
  <1> DEFINE Good == {q \in Seq(T) : CountIn(x \o q, J) = CountIn(x, J) + CountIn(q, J)}
  <1>1. <<>> \in Good
    <2>1. x \o <<>> = x /\ <<>> \in Seq(T)  BY ConcatFacts, EmptyIsSeq, Zenon
    <2>2. CountIn(x, J) + 0 = CountIn(x, J)  BY CountType
    <2>3. CountIn(x \o <<>>, J) = CountIn(x, J) + CountIn(<<>>, J)  BY <2>1, <2>2, CountEmpty, Zenon
    <2>4. QED  BY <2>1, <2>3, Zenon
  <1>2. ASSUME NEW q \in Seq(T), NEW e \in T, q \in Good
        PROVE  Append(q, e) \in Good
    <2>1. PICK r \in Seq(T) : r = Append(q, e)  BY AppendFacts, Zenon
    <2>2. PICK z \in Seq(T) : z = x \o q  BY ConcatFacts, Zenon
    <2>3. x \o r = Append(z, e)  BY <2>1, <2>2, ConcatAppend
    <2>4. PICK d : d = IF e \in J THEN 1 ELSE 0  OBVIOUS
    <2>5. CountIn(x \o r, J) = CountIn(z, J) + d  BY <2>3, <2>4, CountAppend
    <2>6. CountIn(r, J) = CountIn(q, J) + d  BY <2>1, <2>4, CountAppend
    <2>7. CountIn(z, J) = CountIn(x, J) + CountIn(q, J)  BY <1>2, <2>2
    <2>8. CountIn(x, J) \in Nat /\ CountIn(q, J) \in Nat /\ d \in Nat  BY <2>4, CountType
    <2>9. CountIn(x \o r, J) = CountIn(x, J) + CountIn(r, J)
      <3>1. PICK a \in Nat, b \in Nat : a = CountIn(x, J) /\ b = CountIn(q, J)  BY <2>8
      <3>2. (a + b) + d = a + (b + d)  BY <2>8
      <3>3. QED  BY <2>5, <2>6, <2>7, <3>1, <3>2
    <2>10. r \in Good  BY <2>9
    <2> HIDE DEF Good
    <2>11. QED  BY <2>1, <2>10
  <1> HIDE DEF Good
  <1>3. Seq(T) \subseteq Good  BY <1>1, <1>2, AllSequences
  <1>4. QED  BY <1>3 DEF Good

LEMMA InjectiveAppend ==
  ASSUME NEW T, NEW r \in Seq(T), NEW e \in T, IsInjective(Append(r, e))
  PROVE  IsInjective(r) /\ e \notin Members(r)
  <1>0. PICK n \in Nat : n = Len(r)  OBVIOUS
  <1>1. PICK t \in Seq(T) : t = Append(r, e)  BY AppendFacts, Zenon
  <1>2. DOMAIN t = 1..n+1 /\ DOMAIN r = 1..n /\ t[n + 1] = e /\ \A i \in 1..n : t[i] = r[i]
    BY <1>0, <1>1, AppendFacts
  <1>3. \A a, b \in 1..n+1 : t[a] = t[b] => a = b  BY <1>1, <1>2 DEF IsInjective
  <1>4. IsInjective(r)  BY <1>2, <1>3 DEF IsInjective
  <1>5. \A i \in 1..n : i \in 1..n+1 /\ n + 1 \in 1..n+1 /\ i # n + 1  OBVIOUS
  <1>6. e \notin Members(r)  BY <1>2, <1>3, <1>5 DEF Members
  <1>7. QED  BY <1>4, <1>6
-----------------------------------------------------------------------------
(* Sums over a finite set, from the definition of MapThenSumSet by recursion *)
(* over its subsets: the values are those of a function.                     *)
Sums(g, v, S) ==
  g = [s \in SUBSET S |-> IF s = {} THEN 0
                          ELSE v[CHOOSE x \in s : TRUE] + g[s \ {CHOOSE x \in s : TRUE}]]

SumOf(v, S) == MapThenSumSet(LAMBDA x : v[x], S)

LEMMA SumOfDef ==
  ASSUME NEW v, NEW S
  PROVE  SumOf(v, S) = (CHOOSE g : Sums(g, v, S))[S]
  BY Zenon DEF SumOf, MapThenSumSet, MapThenFoldSet, Sums

SumsNext(g, v, s) == g[s] = v[CHOOSE x \in s : TRUE] + g[s \ {CHOOSE x \in s : TRUE}]

LEMMA SumsAt ==
  ASSUME NEW g, NEW v, NEW S, Sums(g, v, S)
  PROVE  g[{}] = 0 /\ \A s \in SUBSET S : s # {} => SumsNext(g, v, s)
  <1>1. \A s \in SUBSET S : g[s] = IF s = {} THEN 0
                                   ELSE v[CHOOSE x \in s : TRUE] + g[s \ {CHOOSE x \in s : TRUE}]
    BY Zenon DEF Sums
  <1>2. {} \in SUBSET S  OBVIOUS
  <1>3. g[{}] = 0  BY <1>1, <1>2, Zenon
  <1>4. QED  BY <1>1, <1>3, Zenon DEF SumsNext

(* The subset that is left when an element is taken out is smaller.          *)
LEMMA Smaller ==
  ASSUME NEW S, IsFiniteSet(S), NEW s \in SUBSET S, s # {}, NEW x \in s
  PROVE  /\ IsFiniteSet(s) /\ Cardinality(s) \in Nat /\ Cardinality(s) > 0
         /\ s \ {x} \in SUBSET S /\ Cardinality(s \ {x}) = Cardinality(s) - 1
  <1>1. IsFiniteSet(s)  BY FS_Subset
  <1>2. Cardinality(s) \in Nat /\ Cardinality(s) # 0  BY <1>1, FS_CardinalityType, FS_EmptySet
  <1>3. Cardinality(s \ {x}) = Cardinality(s) - 1  BY <1>1, FS_RemoveElement
  <1>4. QED  BY <1>1, <1>2, <1>3

LEMMA SumsExists ==
  ASSUME NEW v, NEW S, IsFiniteSet(S)
  PROVE  \E g : Sums(g, v, S)
  <1> DEFINE Upto(n) == {s \in SUBSET S : Cardinality(s) <= n}
             Least(s) == CHOOSE x \in s : TRUE
             Part(g, n) == g = [s \in Upto(n) |->
                                  IF s = {} THEN 0 ELSE v[Least(s)] + g[s \ {Least(s)}]]
             Good == {n \in Nat : \E g : Part(g, n)}
  <1>0. \A s \in SUBSET S : s # {} => Least(s) \in s  OBVIOUS
  <1>1. \A s \in SUBSET S : IsFiniteSet(s) /\ Cardinality(s) \in Nat /\ (Cardinality(s) = 0 <=> s = {})
    BY FS_Subset, FS_CardinalityType, FS_EmptySet
  <1>2. 0 \in Good
    <2>1. \A s \in Upto(0) : s = {}  BY <1>1
    <2>2. PICK g : g = [s \in Upto(0) |-> 0]  OBVIOUS
    <2>3. \A s \in Upto(0) : g[s] = IF s = {} THEN 0 ELSE v[Least(s)] + g[s \ {Least(s)}]
      BY <2>1, <2>2, Zenon
    <2> HIDE DEF Upto, Least
    <2>4. Part(g, 0)  BY <2>2, <2>3, Zenon
    <2>5. QED  BY <2>4
  <1>3. ASSUME NEW n \in Nat, n \in Good PROVE n + 1 \in Good
    <2>1. PICK h : Part(h, n)  BY <1>3
    <2>2. PICK g : g = [s \in Upto(n + 1) |->
                          IF s = {} THEN 0 ELSE v[Least(s)] + h[s \ {Least(s)}]]
      OBVIOUS
    <2>3. ASSUME NEW s \in Upto(n) PROVE s \in Upto(n + 1) /\ g[s] = h[s]
      <3>1. s \in Upto(n + 1)  BY <1>1, <1>3
      <3> HIDE DEF Upto, Least
      <3>2. QED  BY <2>1, <2>2, <3>1, Zenon
    <2>4. ASSUME NEW s \in Upto(n + 1), s # {} PROVE s \ {Least(s)} \in Upto(n)
      <3>1. PICK x : x = Least(s) /\ x \in s  BY <1>0, <2>4
      <3>2. s \ {x} \in SUBSET S /\ Cardinality(s \ {x}) = Cardinality(s) - 1 /\ Cardinality(s) \in Nat
        BY <2>4, <3>1, Smaller
      <3>3. s \ {x} \in Upto(n)  BY <3>2, <1>3
      <3>4. QED  BY <3>1, <3>3
    <2> HIDE DEF Upto, Least
    <2>5. \A s \in Upto(n + 1) : g[s] = IF s = {} THEN 0 ELSE v[Least(s)] + g[s \ {Least(s)}]
      BY <2>2, <2>3, <2>4, Zenon
    <2>6. Part(g, n + 1)  BY <2>2, <2>5, Zenon
    <2>7. n + 1 \in Nat  OBVIOUS
    <2> HIDE DEF Part
    <2>8. \E f : Part(f, n + 1)  BY <2>6, Zenon
    <2>9. QED  BY <2>7, <2>8, Zenon
  <1>4. Nat \subseteq Good
    <2> HIDE DEF Good
    <2>1. QED  BY <1>2, <1>3, AllNumbers
  <1>5. PICK n \in Nat : n = Cardinality(S)  BY FS_CardinalityType
  <1>6. Upto(n) = SUBSET S
    <2>1. \A s \in SUBSET S : Cardinality(s) <= n  BY <1>5, FS_Subset
    <2>2. QED  BY <2>1
  <1>7. PICK g : Part(g, n)  BY <1>4, <1>5
  <1> HIDE DEF Upto, Good
  <1>8. Sums(g, v, S)  BY <1>6, <1>7, Zenon DEF Sums
  <1>9. QED  BY <1>8

LEMMA SumsAgree ==
  ASSUME NEW v, NEW w, NEW S, IsFiniteSet(S), NEW T, IsFiniteSet(T), NEW R,
         R \subseteq S, R \subseteq T, \A x \in R : v[x] = w[x],
         NEW g, NEW h, Sums(g, v, S), Sums(h, w, T)
  PROVE  g[R] = h[R]
  <1> DEFINE Good == {n \in Nat : \A s \in SUBSET R : Cardinality(s) = n => g[s] = h[s]}
  <1>0. IsFiniteSet(R)  BY FS_Subset
  <1>1. g[{}] = 0 /\ h[{}] = 0
        /\ (\A s \in SUBSET S : s # {} => SumsNext(g, v, s))
        /\ (\A s \in SUBSET T : s # {} => SumsNext(h, w, s))
    BY SumsAt, Zenon
  <1>2. 0 \in Good
    <2>1. \A s \in SUBSET R : Cardinality(s) = 0 => s = {}  BY <1>0, FS_Subset, FS_EmptySet
    <2>2. QED  BY <1>1, <2>1
  <1>3. ASSUME NEW n \in Nat, n \in Good PROVE n + 1 \in Good
    <2>1. SUFFICES ASSUME NEW s \in SUBSET R, Cardinality(s) = n + 1 PROVE g[s] = h[s]
      BY <1>3
    <2>2. s # {}
      <3>1. Cardinality({}) = 0  BY FS_EmptySet
      <3>2. n + 1 # 0  OBVIOUS
      <3>3. QED  BY <2>1, <3>1, <3>2, Zenon
    <2>3. PICK x : x = (CHOOSE y \in s : TRUE) /\ x \in s  BY <2>2
    <2>4. s \ {x} \in SUBSET R /\ Cardinality(s \ {x}) = n
      <3>1. Cardinality(s \ {x}) = Cardinality(s) - 1  BY <1>0, <2>2, <2>3, Smaller
      <3>2. QED  BY <2>1, <3>1
    <2>5. g[s \ {x}] = h[s \ {x}]  BY <1>3, <2>4
    <2>6. v[x] = w[x] /\ s \in SUBSET S /\ s \in SUBSET T  BY <2>3
    <2>7. SumsNext(g, v, s) /\ SumsNext(h, w, s)  BY <1>1, <2>2, <2>6
    <2>8. QED  BY <2>3, <2>5, <2>6, <2>7, Zenon DEF SumsNext
  <1> HIDE DEF Good
  <1>4. Nat \subseteq Good  BY <1>2, <1>3, AllNumbers
  <1>5. Cardinality(R) \in Nat  BY <1>0, FS_CardinalityType
  <1>6. QED  BY <1>4, <1>5 DEF Good

LEMMA SumsType ==
  ASSUME NEW v, NEW S, IsFiniteSet(S), \A x \in S : v[x] \in Nat, NEW g, Sums(g, v, S)
  PROVE  \A s \in SUBSET S : g[s] \in Nat
  <1> DEFINE Good == {n \in Nat : \A s \in SUBSET S : Cardinality(s) = n => g[s] \in Nat}
  <1>1. g[{}] = 0 /\ \A s \in SUBSET S : s # {} => SumsNext(g, v, s)  BY SumsAt, Zenon
  <1>2. 0 \in Good
    <2>1. \A s \in SUBSET S : Cardinality(s) = 0 => s = {}  BY FS_Subset, FS_EmptySet
    <2>2. QED  BY <1>1, <2>1
  <1>3. ASSUME NEW n \in Nat, n \in Good PROVE n + 1 \in Good
    <2>1. SUFFICES ASSUME NEW s \in SUBSET S, Cardinality(s) = n + 1 PROVE g[s] \in Nat
      BY <1>3
    <2>2. s # {}
      <3>1. Cardinality({}) = 0  BY FS_EmptySet
      <3>2. n + 1 # 0  OBVIOUS
      <3>3. QED  BY <2>1, <3>1, <3>2, Zenon
    <2>3. PICK x : x = (CHOOSE y \in s : TRUE) /\ x \in s  BY <2>2
    <2>4. s \ {x} \in SUBSET S /\ Cardinality(s \ {x}) = n
      <3>1. Cardinality(s \ {x}) = Cardinality(s) - 1  BY <2>2, <2>3, Smaller
      <3>2. QED  BY <2>1, <3>1
    <2>5. g[s \ {x}] \in Nat /\ v[x] \in Nat  BY <1>3, <2>3, <2>4
    <2>6. g[s] = v[x] + g[s \ {x}]
      <3>1. SumsNext(g, v, s)  BY <1>1, <2>2
      <3>2. QED  BY <2>3, <3>1, Zenon DEF SumsNext
    <2>7. QED  BY <2>5, <2>6
  <1> HIDE DEF Good
  <1>4. Nat \subseteq Good  BY <1>2, <1>3, AllNumbers
  <1>5. ASSUME NEW s \in SUBSET S PROVE g[s] \in Nat
    <2>1. Cardinality(s) \in Nat  BY FS_Subset, FS_CardinalityType
    <2>2. QED  BY <1>4, <2>1 DEF Good
  <1>6. QED  BY <1>5

(* The sum does not depend on the order in which the elements are taken.     *)
SumsAny(g, v, s) == g[s] \in Nat /\ \A x \in s : g[s] = v[x] + g[s \ {x}]

LEMMA SumsRemove ==
  ASSUME NEW v, NEW S, IsFiniteSet(S), \A x \in S : v[x] \in Nat, NEW g, Sums(g, v, S)
  PROVE  \A s \in SUBSET S : SumsAny(g, v, s)
  <1> DEFINE Good == {n \in Nat : \A s \in SUBSET S : Cardinality(s) = n => SumsAny(g, v, s)}
  <1>1. g[{}] = 0 /\ \A s \in SUBSET S : s # {} => SumsNext(g, v, s)  BY SumsAt, Zenon
  <1>2. 0 \in Good
    <2>1. \A s \in SUBSET S : Cardinality(s) = 0 => s = {}  BY FS_Subset, FS_EmptySet
    <2>2. SumsAny(g, v, {})  BY <1>1 DEF SumsAny
    <2>3. QED  BY <2>1, <2>2
  <1>3. ASSUME NEW n \in Nat, n \in Good PROVE n + 1 \in Good
    <2>1. SUFFICES ASSUME NEW s \in SUBSET S, Cardinality(s) = n + 1 PROVE SumsAny(g, v, s)
      BY <1>3
    <2>2. s # {}
      <3>1. Cardinality({}) = 0  BY FS_EmptySet
      <3>2. n + 1 # 0  OBVIOUS
      <3>3. QED  BY <2>1, <3>1, <3>2, Zenon
    <2>3. \A x \in s : s \ {x} \in SUBSET S /\ Cardinality(s \ {x}) = n
      <3>1. TAKE x \in s
      <3>2. Cardinality(s \ {x}) = Cardinality(s) - 1  BY <2>2, Smaller
      <3>3. QED  BY <2>1, <3>2
    <2>4. \A x \in s : SumsAny(g, v, s \ {x})  BY <1>3, <2>3
    <2>5. PICK c : c = (CHOOSE y \in s : TRUE) /\ c \in s  BY <2>2
    <2>6. g[s] = v[c] + g[s \ {c}]
      <3>1. SumsNext(g, v, s)  BY <1>1, <2>2
      <3>2. QED  BY <2>5, <3>1, Zenon DEF SumsNext
    <2>7. v[c] \in Nat /\ g[s \ {c}] \in Nat
      <3>1. g[s \ {c}] \in Nat  BY <2>4, <2>5, Zenon DEF SumsAny
      <3>2. QED  BY <2>5, <3>1
    <2>8. g[s] \in Nat  BY <2>6, <2>7
    <2>9. ASSUME NEW x \in s PROVE g[s] = v[x] + g[s \ {x}]
      <3>1. CASE x = c  BY <2>6, <3>1
      <3>2. CASE x # c
        <4>1. x \in s \ {c} /\ c \in s \ {x}  BY <2>5, <3>2
        <4>2. g[s \ {c}] = v[x] + g[(s \ {c}) \ {x}]
          BY <2>4, <2>5, <4>1, Zenon DEF SumsAny
        <4>3. g[s \ {x}] = v[c] + g[(s \ {x}) \ {c}]
          BY <2>4, <4>1, Zenon DEF SumsAny
        <4>4. (s \ {c}) \ {x} = (s \ {x}) \ {c}  OBVIOUS
        <4>5. PICK r \in Nat : r = g[(s \ {x}) \ {c}]
          <5>1. (s \ {x}) \ {c} \in SUBSET S  OBVIOUS
          <5>2. QED  BY <5>1, SumsType
        <4>6. v[x] \in Nat /\ v[c] \in Nat  BY <2>7
        <4>7. g[s] = v[c] + (v[x] + r) /\ g[s \ {x}] = v[c] + r
          BY <2>6, <4>2, <4>3, <4>4, <4>5, Zenon
        <4>8. QED  BY <4>6, <4>7
      <3>3. QED  BY <3>1, <3>2
    <2>10. QED  BY <2>8, <2>9, Zenon DEF SumsAny
  <1> HIDE DEF Good
  <1>4. Nat \subseteq Good  BY <1>2, <1>3, AllNumbers
  <1>5. ASSUME NEW s \in SUBSET S PROVE SumsAny(g, v, s)
    <2>1. Cardinality(s) \in Nat  BY FS_Subset, FS_CardinalityType
    <2>2. QED  BY <1>4, <2>1 DEF Good
  <1>6. QED  BY <1>5

(* The sum over the empty set, over one element more, and over values that   *)
(* are the same.                                                             *)
LEMMA SumOfIs ==
  ASSUME NEW v, NEW w, NEW S, IsFiniteSet(S), \A x \in S : v[x] = w[x], NEW g, Sums(g, v, S)
  PROVE  g[S] = SumOf(w, S)
  <1>1. PICK h : h = CHOOSE f : Sums(f, w, S)  OBVIOUS
  <1>2. Sums(h, w, S)  BY <1>1, SumsExists, Zenon
  <1>3. SumOf(w, S) = h[S]  BY <1>1, SumOfDef, Zenon
  <1>4. S \subseteq S  OBVIOUS
  <1>5. g[S] = h[S]  BY <1>2, <1>4, SumsAgree
  <1>6. QED  BY <1>3, <1>5

LEMMA SumOfEmpty == \A v : SumOf(v, {}) = 0
  <1>1. TAKE v
  <1>2. PICK g : Sums(g, v, {})  BY SumsExists, FS_EmptySet
  <1>3. g[{}] = SumOf(v, {})  BY <1>2, SumOfIs, FS_EmptySet
  <1>4. g[{}] = 0  BY <1>2, SumsAt
  <1>5. QED  BY <1>3, <1>4

LEMMA SumOfSame ==
  ASSUME NEW v, NEW w, NEW S, IsFiniteSet(S), \A x \in S : v[x] = w[x]
  PROVE  SumOf(v, S) = SumOf(w, S)
  <1>1. PICK g : Sums(g, v, S)  BY SumsExists
  <1>2. g[S] = SumOf(v, S)  BY <1>1, SumOfIs
  <1>3. g[S] = SumOf(w, S)  BY <1>1, SumOfIs
  <1>4. QED  BY <1>2, <1>3

LEMMA SumOfRemove ==
  ASSUME NEW v, NEW S, IsFiniteSet(S), \A x \in S : v[x] \in Nat
  PROVE  /\ SumOf(v, S) \in Nat
         /\ \A x \in S : SumOf(v, S) = v[x] + SumOf(v, S \ {x})
  <1>1. PICK g : Sums(g, v, S)  BY SumsExists
  <1>2. g[S] = SumOf(v, S)  BY <1>1, SumOfIs
  <1>3. SumsAny(g, v, S)
    <2>1. S \in SUBSET S  OBVIOUS
    <2>2. QED  BY <1>1, <2>1, SumsRemove
  <1>4. ASSUME NEW x \in S PROVE g[S \ {x}] = SumOf(v, S \ {x})
    <2>1. IsFiniteSet(S \ {x}) /\ S \ {x} \subseteq S  BY FS_Subset
    <2>2. PICK h : Sums(h, v, S \ {x})  BY <2>1, SumsExists
    <2>3. h[S \ {x}] = SumOf(v, S \ {x})  BY <2>1, <2>2, SumOfIs
    <2>4. g[S \ {x}] = h[S \ {x}]
      <3>1. PICK R : R = S \ {x}  OBVIOUS
      <3>2. IsFiniteSet(R) /\ R \subseteq S /\ R \subseteq R /\ Sums(h, v, R)  BY <2>1, <2>2, <3>1
      <3>3. g[R] = h[R]  BY <1>1, <3>2, SumsAgree
      <3>4. QED  BY <3>1, <3>3
    <2>5. QED  BY <2>3, <2>4
  <1>5. QED  BY <1>2, <1>3, <1>4, Zenon DEF SumsAny

LEMMA SumOfAdd ==
  ASSUME NEW v, NEW S, IsFiniteSet(S), NEW x, x \notin S, \A y \in S \cup {x} : v[y] \in Nat
  PROVE  SumOf(v, S \cup {x}) = v[x] + SumOf(v, S)
  <1>1. IsFiniteSet(S \cup {x}) /\ x \in S \cup {x} /\ (S \cup {x}) \ {x} = S
    BY FS_AddElement
  <1>2. PICK T : T = S \cup {x}  OBVIOUS
  <1>3. SumOf(v, T) = v[x] + SumOf(v, T \ {x})  BY <1>1, <1>2, SumOfRemove
  <1>4. QED  BY <1>1, <1>2, <1>3

(* One value changes.                                                        *)
OneMore(v, w, S, x, d) ==
  /\ \A y \in S : v[y] \in Nat
  /\ \A y \in S \ {x} : w[y] = v[y]
  /\ w[x] = v[x] + d
SumsMore(v, w, S, d) == SumOf(v, S) \in Nat /\ SumOf(w, S) = SumOf(v, S) + d

LEMMA SumOfChange ==
  ASSUME NEW v, NEW w, NEW S, IsFiniteSet(S), NEW x \in S, NEW d \in Nat, OneMore(v, w, S, x, d)
  PROVE  SumsMore(v, w, S, d)
  <1>0. /\ \A y \in S : v[y] \in Nat
        /\ \A y \in S \ {x} : w[y] = v[y]
        /\ w[x] = v[x] + d
    BY Zenon DEF OneMore
  <1>1. IsFiniteSet(S \ {x})  BY FS_Subset
  <1>2. \A y \in S : w[y] \in Nat
    <2>1. w[x] \in Nat  BY <1>0
    <2>2. QED  BY <1>0, <2>1
  <1>3. SumOf(w, S \ {x}) = SumOf(v, S \ {x})  BY <1>0, <1>1, SumOfSame
  <1>4. SumOf(v, S) = v[x] + SumOf(v, S \ {x}) /\ SumOf(v, S) \in Nat  BY <1>0, SumOfRemove
  <1>5. SumOf(w, S) = w[x] + SumOf(w, S \ {x})  BY <1>2, SumOfRemove
  <1>6. SumOf(v, S \ {x}) \in Nat /\ v[x] \in Nat  BY <1>0, <1>1, SumOfRemove
  <1>7. QED  BY <1>0, <1>3, <1>4, <1>5, <1>6 DEF SumsMore

(* Each is at most B.                                                        *)
LEMMA SumOfAtMost ==
  ASSUME NEW v, NEW S, IsFiniteSet(S), \A x \in S : v[x] \in Nat, NEW B \in Nat, \A x \in S : v[x] <= B
  PROVE  SumOf(v, S) <= Cardinality(S) * B
  <1> DEFINE Good == {n \in Nat : \A s \in SUBSET S : Cardinality(s) = n => SumOf(v, s) <= n * B}
  <1>1. \A s \in SUBSET S : IsFiniteSet(s)  BY FS_Subset
  <1>2. 0 \in Good
    <2>1. \A s \in SUBSET S : Cardinality(s) = 0 => s = {}  BY <1>1, FS_EmptySet
    <2>2. SumOf(v, {}) = 0  BY SumOfEmpty
    <2>3. \A s \in SUBSET S : Cardinality(s) = 0 => SumOf(v, s) = 0  BY <2>1, <2>2, Zenon
    <2>4. 0 * B = 0  OBVIOUS
    <2>5. QED  BY <2>3, <2>4
  <1>3. ASSUME NEW n \in Nat, n \in Good PROVE n + 1 \in Good
    <2>1. SUFFICES ASSUME NEW s \in SUBSET S, Cardinality(s) = n + 1 PROVE SumOf(v, s) <= (n + 1) * B
      BY <1>3
    <2>2. IsFiniteSet(s)  BY <1>1
    <2>3. s # {}
      <3>1. Cardinality({}) = 0  BY FS_EmptySet
      <3>2. n + 1 # 0  OBVIOUS
      <3>3. QED  BY <2>1, <3>1, <3>2, Zenon
    <2>4. PICK x \in s : TRUE  BY <2>3
    <2>5. s \ {x} \in SUBSET S /\ Cardinality(s \ {x}) = n /\ IsFiniteSet(s \ {x})
      <3>1. Cardinality(s \ {x}) = Cardinality(s) - 1  BY <2>2, <2>4, FS_RemoveElement
      <3>2. (n + 1) - 1 = n  OBVIOUS
      <3>3. s \ {x} \in SUBSET S  OBVIOUS
      <3>4. QED  BY <1>1, <2>1, <3>1, <3>2, <3>3, Zenon
    <2>6. SumOf(v, s \ {x}) <= n * B /\ SumOf(v, s \ {x}) \in Nat
      <3>1. SumOf(v, s \ {x}) <= n * B  BY <1>3, <2>5
      <3>2. \A y \in s \ {x} : v[y] \in Nat  OBVIOUS
      <3>3. QED  BY <2>5, <3>1, <3>2, SumOfRemove
    <2>7. SumOf(v, s) = v[x] + SumOf(v, s \ {x})
      <3>1. \A y \in s : v[y] \in Nat  OBVIOUS
      <3>2. QED  BY <2>2, <2>4, <3>1, SumOfRemove
    <2>8. v[x] \in Nat /\ v[x] <= B  BY <2>4
    <2>9. (n + 1) * B = n * B + B /\ n * B \in Nat  OBVIOUS
    <2>10. QED  BY <2>6, <2>7, <2>8, <2>9
  <1> HIDE DEF Good
  <1>4. Nat \subseteq Good  BY <1>2, <1>3, AllNumbers
  <1>5. Cardinality(S) \in Nat  BY FS_CardinalityType
  <1>6. QED  BY <1>4, <1>5 DEF Good
=============================================================================
