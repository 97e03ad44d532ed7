----------------------------- MODULE DataLemmas -----------------------------
(***************************************************************************)
(* What the proofs about several components need of numbers, finite sets   *)
(* and sequences.  The library's induction theorems speak of a predicate   *)
(* P(_); those here speak of sets, so that {n \in Nat : ...} can be used in *)
(* the place of P, for instance to show that a recursive function exists.  *)
(***************************************************************************)
EXTENDS Totals, Sequences, FiniteSets, SequencesExt,
        TLAPS, WellFoundedInduction, FiniteSetTheorems, SequenceTheorems

-----------------------------------------------------------------------------
(* Induction.                                                              *)

Below == {x \in Nat \X Nat : x[1] < x[2]}

\* The order of the natural numbers, as a set of pairs, is well-founded.
LEMMA BelowIsWellFounded == IsWellFoundedOn(Below, Nat)
<1>1. IsWellFoundedOn(OpToRel(<, Nat), Nat)
  BY NatLessThanWellFounded
<1>2. OpToRel(<, Nat) = Below
  BY DEF OpToRel, Below
<1>3. QED BY <1>1, <1>2

\* A set of natural numbers that is not empty has a least element.
LEMMA LeastNumber ==
  ASSUME NEW T, T \subseteq Nat, T # {}
  PROVE  \E n \in T : \A k \in T : n <= k
<1>1. PICK n \in T : \A k \in T : <<k, n>> \notin Below
  BY BelowIsWellFounded, WFMin, Zenon
<1>2. ASSUME NEW k \in T PROVE n <= k
  <2>1. k \in Nat /\ n \in Nat
    OBVIOUS
  <2>2. k < n => <<k, n>> \in Below
    BY <2>1 DEF Below
  <2>3. QED BY <1>1, <2>1, <2>2
<1>3. QED BY <1>2

\* Induction up to a bound: the form recursion over the places of a sequence
\* calls for.
LEMMA SegmentInduction ==
  ASSUME NEW n \in Nat, NEW S, 0 \in S, \A k \in 0 .. n - 1 : k \in S => k + 1 \in S
  PROVE  0 .. n \subseteq S
<1> DEFINE T == 0 .. n \ S
<1>1. SUFFICES ASSUME T # {} PROVE FALSE
  OBVIOUS
<1>2. PICK k \in T : \A j \in T : k <= j
  <2>1. T \subseteq Nat
    OBVIOUS
  <2>2. QED BY <1>1, <2>1, LeastNumber, Zenon
<1>3. k \in 0 .. n /\ k # 0 /\ k - 1 \in 0 .. n - 1
  OBVIOUS
<1>4. k - 1 \in S
  BY <1>2, <1>3
<1>5. (k - 1) + 1 \in S
  BY <1>3, <1>4
<1>6. QED BY <1>3, <1>5

\* Among subsets of a finite set one that is a proper part of none of them.
LEMMA MaximalSubset ==
  ASSUME NEW F, IsFiniteSet(F), NEW W, W \subseteq SUBSET F, W # {}
  PROVE  \E x \in W : \A y \in W : x \subseteq y => y = x
<1> DEFINE size(x) == Cardinality(F \ x)
           T == {size(x) : x \in W}
<1>1. \A x \in W : IsFiniteSet(F \ x) /\ size(x) \in Nat
  BY FS_Subset, FS_CardinalityType
<1>2. PICK n \in T : \A k \in T : n <= k
  <2>1. T \subseteq Nat /\ T # {}
    BY <1>1
  <2> HIDE DEF T
  <2>2. QED BY <2>1, LeastNumber, Zenon
<1>3. PICK x \in W : n = size(x)
  BY <1>2
<1>4. ASSUME NEW y \in W, x \subseteq y, y # x PROVE FALSE
  <2>1. F \ y \subseteq F \ x /\ F \ y # F \ x
    BY <1>4
  <2>2. Cardinality(F \ y) <= Cardinality(F \ x)
        /\ (Cardinality(F \ x) = Cardinality(F \ y) => F \ x = F \ y)
    BY <1>1, <2>1, FS_Subset, Zenon
  <2>3. size(x) <= size(y)
    BY <1>2, <1>3
  <2>4. size(x) \in Nat /\ size(y) \in Nat
    BY <1>1
  <2>5. QED BY <2>1, <2>2, <2>3, <2>4
<1>5. QED BY <1>4

\* Induction over the elements of a finite set.
LEMMA FiniteInduction ==
  ASSUME NEW D, IsFiniteSet(D), NEW W, {} \in W,
         \A T \in SUBSET D : \A x \in D \ T : T \in W => T \cup {x} \in W
  PROVE  D \in W
<1> DEFINE V == W \cap SUBSET D
<1>1. PICK T \in V : \A y \in V : T \subseteq y => y = T
  <2>1. V \subseteq SUBSET D /\ V # {}
    OBVIOUS
  <2> HIDE DEF V
  <2>2. QED BY <2>1, MaximalSubset
<1>2. ASSUME NEW x \in D \ T PROVE FALSE
  <2>1. T \cup {x} \in V
    OBVIOUS
  <2>2. T \subseteq T \cup {x} /\ T \cup {x} # T
    OBVIOUS
  <2>3. QED BY <1>1, <2>1, <2>2, Zenon
<1>3. T = D
  BY <1>2
<1>4. QED BY <1>3

\* g begins with b and goes from g[k - 1] to g[k] by F.
IsRunOf(g, b, n, F) == g[0] = b /\ \A k \in 1 .. n : g[k] = F[<<g[k - 1], k>>]

\* A recursion over 1 .. n whose step stays in V defines a function.
LEMMA RecursionExists ==
  ASSUME NEW V, NEW b \in V, NEW n \in Nat, NEW F,
         \A v \in V : \A k \in 1 .. n : F[<<v, k>>] \in V
  PROVE  \E g \in [0 .. n -> V] : IsRunOf(g, b, n, F)
<1> DEFINE Value(g, k) == IF k = 0 THEN b ELSE F[<<g[k - 1], k>>]
           IsRun(g, m) == \A k \in 0 .. m : g[k] = Value(g, k)
           S == {m \in 0 .. n : \E g \in [0 .. m -> V] : IsRun(g, m)}
<1>1. 0 \in S
  <2> DEFINE g == [k \in 0 .. 0 |-> b]
  <2>1. g \in [0 .. 0 -> V] /\ IsRun(g, 0)
    OBVIOUS
  <2> HIDE DEF IsRun, g
  <2>2. QED BY <2>1
<1>2. ASSUME NEW m \in 0 .. n - 1, m \in S PROVE m + 1 \in S
  <2>1. PICK g \in [0 .. m -> V] : IsRun(g, m)
    BY <1>2
  <2> DEFINE h == [k \in 0 .. m + 1 |-> IF k = m + 1 THEN Value(g, k) ELSE g[k]]
  <2>2. m + 1 \in 1 .. n /\ m + 1 \in 0 .. n /\ (m + 1) - 1 = m /\ m \in 0 .. m
    OBVIOUS
  <2>3. Value(g, m + 1) \in V
    BY <2>1, <2>2
  <2>4. h \in [0 .. m + 1 -> V]
    <3>1. \A k \in 0 .. m + 1 : k = m + 1 \/ k \in 0 .. m
      OBVIOUS
    <3> HIDE DEF Value
    <3>2. QED BY <2>1, <2>3, <3>1
  <2>5. \A k \in 0 .. m : h[k] = g[k]
    OBVIOUS
  <2>6. h[m + 1] = Value(g, m + 1)
    OBVIOUS
  <2> HIDE DEF h
  <2>7. ASSUME NEW k \in 0 .. m + 1 PROVE h[k] = Value(h, k)
    <3>1. CASE k = 0
      <4>1. k \in 0 .. m
        BY <3>1
      <4>2. h[k] = g[k] /\ g[k] = Value(g, k)
        BY <2>1, <2>5, <4>1
      <4>3. QED BY <3>1, <4>2
    <3>2. CASE k \in 1 .. m
      <4>1. k - 1 \in 0 .. m /\ k \in 0 .. m
        BY <3>2
      <4>2. h[k] = g[k] /\ h[k - 1] = g[k - 1] /\ g[k] = Value(g, k)
        BY <2>1, <2>5, <4>1
      <4>3. QED BY <4>2
    <3>3. CASE k = m + 1
      <4>1. h[k - 1] = g[k - 1]
        BY <2>2, <2>5, <3>3
      <4>2. QED BY <2>6, <3>3, <4>1
    <3>4. QED BY <3>1, <3>2, <3>3
  <2>8. IsRun(h, m + 1)
    BY <2>7
  <2>9. QED BY <2>2, <2>4, <2>8
<1>3. 0 .. n \subseteq S
  <2> HIDE DEF S
  <2>1. QED BY <1>1, <1>2, SegmentInduction
<1>4. PICK g \in [0 .. n -> V] : IsRun(g, n)
  <2> HIDE DEF IsRun
  <2>1. n \in 0 .. n
    OBVIOUS
  <2>2. n \in S
    BY <1>3, <2>1, Zenon
  <2>3. QED BY <2>2, Zenon
<1>5. g[0] = b /\ \A k \in 1 .. n : g[k] = F[<<g[k - 1], k>>]
  <2>1. 0 \in 0 .. n /\ \A k \in 1 .. n : k \in 0 .. n /\ k # 0
    OBVIOUS
  <2>2. QED BY <1>4, <2>1
<1>6. IsRunOf(g, b, n, F)
  BY <1>5 DEF IsRunOf
<1>7. QED BY <1>6

-----------------------------------------------------------------------------
(* Sequences.                                                              *)

IsSeq(s) == s \in Seq(ToSet(s))

\* A function on 1 .. n is a sequence of length n.
LEMMA PlacesMakeSeq ==
  ASSUME NEW n \in Nat, NEW s, s = [i \in 1 .. n |-> s[i]]
  PROVE  IsSeq(s) /\ Len(s) = n /\ DOMAIN s = 1 .. n
<1>1. s \in [1 .. n -> ToSet(s)]
  BY DEF ToSet
<1>2. s \in Seq(ToSet(s))
  BY <1>1
<1>3. QED BY <1>1, <1>2 DEF IsSeq

\* What a sequence is.
LEMMA SeqPlaces ==
  ASSUME NEW s, IsSeq(s)
  PROVE  Len(s) \in Nat /\ DOMAIN s = 1 .. Len(s) /\ s = [i \in 1 .. Len(s) |-> s[i]]
  BY LenProperties DEF IsSeq

\* One sequence after another.
LEMMA ConcatPlaces ==
  ASSUME NEW s, NEW t, IsSeq(s), IsSeq(t)
  PROVE  /\ IsSeq(s \o t)
         /\ Len(s \o t) = Len(s) + Len(t)
         /\ \A i \in 1 .. Len(s) : (s \o t)[i] = s[i]
         /\ \A i \in 1 .. Len(t) : (s \o t)[Len(s) + i] = t[i]
<1> DEFINE T == ToSet(s) \cup ToSet(t)
<1>1. s \in Seq(T) /\ t \in Seq(T)
  BY SeqMonotonic DEF IsSeq
<1>2. Len(s) \in Nat /\ Len(t) \in Nat
  BY <1>1
<1> HIDE DEF T
<1>3. /\ s \o t \in Seq(T)
      /\ Len(s \o t) = Len(s) + Len(t)
      /\ \A i \in 1 .. Len(s) + Len(t) : (s \o t)[i] = IF i <= Len(s) THEN s[i] ELSE t[i - Len(s)]
  BY <1>1, ConcatProperties, Zenon
<1>4. IsSeq(s \o t)
  BY <1>3, LenProperties, PlacesMakeSeq
<1>5. QED BY <1>2, <1>3, <1>4

\* SetToSeq lists each element of a finite set once.
LEMMA SetToSeqPlaces ==
  ASSUME NEW S, IsFiniteSet(S)
  PROVE  LET s == SetToSeq(S)
         IN  /\ IsSeq(s) /\ Len(s) = Cardinality(S) /\ ToSet(s) = S
             /\ \A i, j \in 1 .. Len(s) : s[i] = s[j] => i = j
<1> DEFINE n == Cardinality(S)
           s == SetToSeq(S)
<1>1. n \in Nat /\ ExistsBijection(1 .. n, S)
  BY FS_CardinalityType
<1>2. \E f \in [1 .. n -> S] : IsInjective(f)
  BY <1>1 DEF ExistsBijection, Bijection, Injection, IsInjective
<1>3. s \in [1 .. n -> S] /\ IsInjective(s)
  BY <1>2 DEF SetToSeq
<1>4. \A i, j \in 1 .. n : s[i] = s[j] => i = j
  BY <1>3 DEF IsInjective
<1>5. s \in Injection(1 .. n, S)
  BY <1>3, <1>4 DEF Injection
<1>6. Cardinality(1 .. n) = n
  BY <1>1, FS_Interval
<1>7. s \in Surjection(1 .. n, S)
  BY <1>5, <1>6, FS_Injection
<1>8. ToSet(s) = S
  BY <1>3, <1>7 DEF ToSet, Surjection
<1>9. IsSeq(s) /\ Len(s) = n
  BY <1>1, <1>3, PlacesMakeSeq
<1>10. QED BY <1>4, <1>8, <1>9
\* The values of a function on a finite set are finitely many.
LEMMA ImageFinite ==
  ASSUME NEW S, IsFiniteSet(S), NEW f
  PROVE  IsFiniteSet({f[x] : x \in S})
<1> DEFINE T == {f[x] : x \in S}
           g == [x \in S |-> f[x]]
<1>1. g \in Surjection(S, T)
  BY DEF Surjection
<1> HIDE DEF g, T
<1>2. IsFiniteSet(T)
  BY <1>1, FS_Surjection
<1>3. QED BY <1>2 DEF T

\* It is as large as the set if it has a place for each of its elements.
LEMMA ImageSize ==
  ASSUME NEW S, IsFiniteSet(S), NEW f
  PROVE  Cardinality({f[x] : x \in S}) = Cardinality(S) <=> \A x, y \in S : f[x] = f[y] => x = y
<1> DEFINE T == {f[x] : x \in S}
           g == [x \in S |-> f[x]]
<1>1. g \in Surjection(S, T)
  BY DEF Surjection
<1>2. Cardinality(T) = Cardinality(S) <=> g \in Injection(S, T)
  <2> HIDE DEF g, T
  <2>1. QED BY <1>1, FS_Surjection
<1>3. g \in Injection(S, T) <=> \A x, y \in S : f[x] = f[y] => x = y
  <2>1. g \in [S -> T] /\ \A x \in S : g[x] = f[x]
    OBVIOUS
  <2> HIDE DEF g, T
  <2>2. QED BY <2>1 DEF Injection, IsInjective
<1>4. QED BY <1>2, <1>3

\* What is in a sequence, and how many.
LEMMA ToSetFinite ==
  ASSUME NEW T, NEW s \in Seq(T)
  PROVE  /\ ToSet(s) \subseteq T /\ IsFiniteSet(ToSet(s))
         /\ Cardinality(ToSet(s)) \in Nat /\ Cardinality(ToSet(s)) <= Len(s)
         /\ Cardinality(ToSet(s)) = Len(s) => \A i, j \in 1 .. Len(s) : s[i] = s[j] => i = j
<1> DEFINE S == 1 .. Len(s)
<1>1. Len(s) \in Nat /\ ToSet(s) = {s[i] : i \in S} /\ \A i \in S : s[i] \in T
  BY DEF ToSet
<1>2. s \in [S -> ToSet(s)]
  BY <1>1
<1>3. s \in Surjection(S, ToSet(s))
  BY <1>1, <1>2 DEF Surjection
<1>4. IsFiniteSet(S) /\ Cardinality(S) = Len(s)
  <2>1. 1 \in Int /\ Len(s) \in Int /\ (IF 1 > Len(s) THEN 0 ELSE Len(s) - 1 + 1) = Len(s)
    BY <1>1
  <2>2. QED BY <2>1, FS_Interval, Zenon
<1> HIDE DEF S
<1>5. /\ IsFiniteSet(ToSet(s)) /\ Cardinality(ToSet(s)) <= Cardinality(S)
      /\ Cardinality(ToSet(s)) = Cardinality(S) <=> s \in Injection(S, ToSet(s))
  BY <1>3, <1>4, FS_Surjection
<1>6. Cardinality(ToSet(s)) \in Nat
  BY <1>5, FS_CardinalityType
<1>7. s \in Injection(S, ToSet(s)) => \A i, j \in S : s[i] = s[j] => i = j
  BY DEF Injection, IsInjective
<1>8. QED BY <1>1, <1>4, <1>5, <1>6, <1>7 DEF S

LEMMA ToSetAppend ==
  ASSUME NEW T, NEW s \in Seq(T), NEW x \in T
  PROVE  ToSet(Append(s, x)) = ToSet(s) \cup {x}
<1> DEFINE u == Append(s, x)
<1>1. /\ Len(s) \in Nat /\ u \in Seq(T) /\ Len(u) = Len(s) + 1 /\ u[Len(s) + 1] = x
      /\ \A i \in 1 .. Len(s) : u[i] = s[i]
  BY AppendProperties
<1> HIDE DEF u
<1>2. ToSet(u) = {u[i] : i \in 1 .. Len(u)} /\ ToSet(s) = {s[i] : i \in 1 .. Len(s)}
  BY <1>1 DEF ToSet
<1>3. \A i \in 1 .. Len(u) : i \in 1 .. Len(s) \/ i = Len(s) + 1
  BY <1>1
<1>4. 1 .. Len(s) \subseteq 1 .. Len(u) /\ Len(s) + 1 \in 1 .. Len(u)
  BY <1>1
<1>5. ToSet(u) \subseteq ToSet(s) \cup {x}
  BY <1>1, <1>2, <1>3
<1>6. ToSet(s) \cup {x} \subseteq ToSet(u)
  BY <1>1, <1>2, <1>4
<1>7. QED BY <1>5, <1>6 DEF u

\* A finite set of numbers that is not empty has a greatest element.
LEMMA GreatestNumber ==
  ASSUME NEW R, R \subseteq Nat, IsFiniteSet(R), R # {}
  PROVE  \E m \in R : \A x \in R : x <= m
<1> DEFINE upTo(m) == {x \in R : x <= m}
           W == {upTo(m) : m \in R}
<1>1. W \subseteq SUBSET R /\ W # {}
  OBVIOUS
<1> HIDE DEF W
<1>2. PICK w \in W : \A y \in W : w \subseteq y => y = w
  <2>1. W \subseteq SUBSET R /\ W # {} /\ IsFiniteSet(R)
    BY <1>1
  <2>2. ASSUME NEW F, F = R PROVE \E x \in W : \A y \in W : x \subseteq y => y = x
    <3>1. IsFiniteSet(F) /\ W \subseteq SUBSET F /\ W # {}
      BY <2>1, <2>2
    <3>2. QED BY <3>1, MaximalSubset
  <2>3. QED BY <2>2
<1>3. PICK m \in R : w = upTo(m)
  BY <1>2 DEF W
<1>4. ASSUME NEW x \in R, ~ x <= m PROVE FALSE
  <2>1. upTo(m) \subseteq upTo(x) /\ x \in upTo(x) /\ ~ x \in upTo(m)
    <3>1. x \in Nat /\ m \in Nat /\ m < x /\ \A y \in R : y \in Nat
      BY <1>4
    <3>2. \A y \in R : y <= m => y <= x
      BY <3>1
    <3>3. x <= x /\ ~ x <= m
      BY <3>1
    <3>4. QED BY <1>4, <3>2, <3>3, Zenon
  <2>2. upTo(x) \in W
    BY DEF W
  <2>3. QED BY <1>2, <1>3, <2>1, <2>2
<1>5. QED BY <1>4

\* Of numbers that are given bounded numbers, one has the greatest, and of those
\* that have it one is the first.
LEMMA GreatestFirst ==
  ASSUME NEW R, R \subseteq Nat, R # {}, NEW b \in Nat, NEW f \in [R -> 0 .. b]
  PROVE  \E i \in R : \A j \in R : f[i] > f[j] \/ (f[i] = f[j] /\ i <= j)
<1> DEFINE T == {n \in Nat : \A j \in R : f[j] <= n}
<1>1. T \subseteq Nat /\ b \in T
  OBVIOUS
<1>2. PICK n \in T : \A k \in T : n <= k
  <2> HIDE DEF T
  <2>1. QED BY <1>1, LeastNumber
<1>3. \E i \in R : f[i] = n
  <2>1. SUFFICES ASSUME \A i \in R : f[i] # n PROVE FALSE
    OBVIOUS
  <2>2. n # 0
    <3>1. PICK j \in R : TRUE
      OBVIOUS
    <3>2. f[j] \in Nat /\ f[j] <= n /\ f[j] # n
      BY <1>2, <2>1, <3>1
    <3>3. QED BY <3>2
  <2>3. n - 1 \in T
    <3>1. n - 1 \in Nat
      BY <1>2, <2>2
    <3>2. \A j \in R : f[j] <= n - 1
      BY <1>2, <2>1
    <3>3. QED BY <3>1, <3>2
  <2>4. QED BY <1>2, <2>3
<1> DEFINE U == {i \in R : f[i] = n}
<1>4. U \subseteq Nat /\ U # {}
  BY <1>3
<1>5. PICK i \in U : \A k \in U : i <= k
  <2> HIDE DEF U
  <2>1. QED BY <1>4, LeastNumber
<1>6. ASSUME NEW j \in R PROVE f[i] > f[j] \/ (f[i] = f[j] /\ i <= j)
  <2>1. f[i] = n /\ f[j] <= n /\ f[j] \in Nat /\ n \in Nat
    BY <1>2, <1>5
  <2>2. CASE f[j] = n
    BY <1>5, <2>1, <2>2
  <2>3. CASE f[j] # n
    BY <2>1, <2>3
  <2>4. QED BY <2>2, <2>3
<1>7. QED BY <1>5, <1>6

-----------------------------------------------------------------------------
(* FlattenSeq.                                                             *)

\* The first places of a sequence.
LEMMA FirstPlaces ==
  ASSUME NEW T, NEW s \in Seq(T), NEW m \in 0 .. Len(s)
  PROVE  LET t == SubSeq(s, 1, m)
         IN  t \in Seq(T) /\ Len(t) = m /\ \A i \in 1 .. m : t[i] = s[i]
<1>1. Len(s) \in Nat /\ m \in Nat /\ \A i \in 1 .. m : s[i] \in T
  OBVIOUS
<1>2. /\ SubSeq(s, 1, m) \in Seq(T)
      /\ Len(SubSeq(s, 1, m)) = IF 1 <= m THEN m - 1 + 1 ELSE 0
      /\ \A i \in 1 .. m - 1 + 1 : SubSeq(s, 1, m)[i] = s[1 + i - 1]
  BY <1>1, SubSeqProperties
<1>3. QED BY <1>1, <1>2

\* They grow by one place.
LEMMA FirstPlacesGrow ==
  ASSUME NEW T, NEW s \in Seq(T), NEW m \in 0 .. Len(s) - 1
  PROVE  SubSeq(s, 1, m + 1) = Append(SubSeq(s, 1, m), s[m + 1])
<1> DEFINE t == SubSeq(s, 1, m)
           u == SubSeq(s, 1, m + 1)
<1>1. Len(s) \in Nat /\ m \in 0 .. Len(s) /\ m + 1 \in 0 .. Len(s) /\ m + 1 \in 1 .. Len(s) /\ m \in Nat
  OBVIOUS
<1>2. t \in Seq(T) /\ Len(t) = m /\ \A i \in 1 .. m : t[i] = s[i]
  BY <1>1, FirstPlaces
<1>3. u \in Seq(T) /\ Len(u) = m + 1 /\ \A i \in 1 .. m + 1 : u[i] = s[i]
  BY <1>1, FirstPlaces
<1>4. s[m + 1] \in T
  BY <1>1
<1> HIDE DEF t, u
<1>5. /\ Append(t, s[m + 1]) \in Seq(T) /\ Len(Append(t, s[m + 1])) = m + 1
      /\ \A i \in 1 .. m : Append(t, s[m + 1])[i] = t[i]
      /\ Append(t, s[m + 1])[m + 1] = s[m + 1]
  BY <1>2, <1>4, AppendProperties
<1>6. \A i \in 1 .. m + 1 : u[i] = Append(t, s[m + 1])[i]
  BY <1>1, <1>2, <1>3, <1>5
<1>7. u = Append(t, s[m + 1])
  BY <1>3, <1>5, <1>6, SeqEqual
<1>8. QED BY <1>7 DEF t, u

\* What is in one sequence after another.
LEMMA ToSetConcat ==
  ASSUME NEW T, NEW s \in Seq(T), NEW t \in Seq(T)
  PROVE  ToSet(s \o t) = ToSet(s) \cup ToSet(t)
<1> DEFINE u == s \o t
<1>1. Len(s) \in Nat /\ Len(t) \in Nat
  OBVIOUS
<1>2. /\ Len(u) = Len(s) + Len(t) /\ u \in Seq(T)
      /\ \A i \in 1 .. Len(s) + Len(t) : u[i] = IF i <= Len(s) THEN s[i] ELSE t[i - Len(s)]
  BY ConcatProperties
<1> HIDE DEF u
<1>3. /\ ToSet(u) = {u[i] : i \in 1 .. Len(u)}
      /\ ToSet(s) = {s[i] : i \in 1 .. Len(s)}
      /\ ToSet(t) = {t[i] : i \in 1 .. Len(t)}
  BY <1>2 DEF ToSet
<1>4. ASSUME NEW i \in 1 .. Len(s) PROVE i \in 1 .. Len(u) /\ u[i] = s[i]
  BY <1>1, <1>2
<1>5. ASSUME NEW i \in 1 .. Len(t) PROVE Len(s) + i \in 1 .. Len(u) /\ u[Len(s) + i] = t[i]
  <2>1. /\ Len(s) + i \in 1 .. Len(s) + Len(t) /\ ~ Len(s) + i <= Len(s)
        /\ (Len(s) + i) - Len(s) = i
    BY <1>1
  <2>2. QED BY <1>2, <2>1
<1>6. ASSUME NEW i \in 1 .. Len(u) PROVE u[i] \in ToSet(s) \cup ToSet(t)
  <2>1. CASE i <= Len(s)
    BY <1>1, <1>2, <1>3, <2>1
  <2>2. CASE ~ i <= Len(s)
    <3>1. i - Len(s) \in 1 .. Len(t) /\ u[i] = t[i - Len(s)]
      BY <1>1, <1>2, <2>2
    <3>2. QED BY <1>3, <3>1
  <2>3. QED BY <2>1, <2>2
<1>7. ToSet(s) \subseteq ToSet(u)
  BY <1>3, <1>4
<1>8. ToSet(t) \subseteq ToSet(u)
  BY <1>3, <1>5
<1>9. QED BY <1>3, <1>6, <1>7, <1>8 DEF u

\* g puts the first sequences of seqs one after the other, for each number of them.
IsFlat(g, seqs) == g[0] = <<>> /\ \A k \in 1 .. Len(seqs) : g[k] = g[k - 1] \o seqs[k]

\* Two such functions agree as far as their sequences do.
LEMMA FlatUnique ==
  ASSUME NEW g, NEW h, NEW s, NEW t, IsFlat(g, s), IsFlat(h, t), NEW n \in Nat,
         Len(s) \in Nat, Len(t) \in Nat, n <= Len(s), n <= Len(t),
         \A k \in 1 .. n : s[k] = t[k]
  PROVE  \A k \in 0 .. n : g[k] = h[k]
<1> DEFINE S == {k \in 0 .. n : g[k] = h[k]}
<1>1. 0 \in S
  BY DEF IsFlat
<1>2. ASSUME NEW k \in 0 .. n - 1, k \in S PROVE k + 1 \in S
  <2>1. k + 1 \in 1 .. n /\ k + 1 \in 1 .. Len(s) /\ k + 1 \in 1 .. Len(t) /\ k + 1 \in 0 .. n /\ (k + 1) - 1 = k
    OBVIOUS
  <2>2. g[k + 1] = g[k] \o s[k + 1] /\ h[k + 1] = h[k] \o t[k + 1]
    BY <2>1 DEF IsFlat
  <2>3. QED BY <1>2, <2>1, <2>2
<1>3. 0 .. n \subseteq S
  <2> HIDE DEF S
  <2>1. QED BY <1>1, <1>2, SegmentInduction
<1>4. QED BY <1>3

\* FlattenSeq computes such a function.
LEMMA FlattenIs ==
  ASSUME NEW T, NEW seqs \in Seq(Seq(T))
  PROVE  \E g \in [0 .. Len(seqs) -> Seq(T)] : IsFlat(g, seqs) /\ FlattenSeq(seqs) = g[Len(seqs)]
<1> DEFINE n == Len(seqs)
           F == [x \in Seq(T) \X (1 .. n) |-> x[1] \o seqs[x[2]]]
           Value(h, i) == IF i = 1 THEN seqs[i] ELSE h[i - 1] \o seqs[i]
           IsFlatten(h) == h = [i \in 1 .. n |-> Value(h, i)]
<1>1. n \in Nat /\ (\A k \in 1 .. n : seqs[k] \in Seq(T)) /\ <<>> \in Seq(T)
  OBVIOUS
<1>2. \A v \in Seq(T), k \in 1 .. n : F[<<v, k>>] = v \o seqs[k]
  OBVIOUS
<1>3. FlattenSeq(seqs) = IF n = 0 THEN seqs ELSE (CHOOSE h : IsFlatten(h))[n]
  BY DEF FlattenSeq
<1>4. n = 0 => seqs = <<>>
  OBVIOUS
<1> HIDE DEF F, n, IsFlatten
<1>5. \A v \in Seq(T) : \A k \in 1 .. n : F[<<v, k>>] \in Seq(T)
  BY <1>1, <1>2, ConcatProperties
<1>6. PICK g \in [0 .. n -> Seq(T)] : IsRunOf(g, <<>>, n, F)
  BY <1>1, <1>5, RecursionExists
<1>7. \A k \in 1 .. n : g[k] = g[k - 1] \o seqs[k]
  <2>1. \A k \in 1 .. n : k - 1 \in 0 .. n
    BY <1>1
  <2>2. QED BY <1>2, <1>6, <2>1 DEF IsRunOf
<1>8. IsFlat(g, seqs)
  BY <1>6, <1>7 DEF IsFlat, IsRunOf, n
<1>9. CASE n = 0
  BY <1>3, <1>4, <1>6, <1>8, <1>9 DEF IsFlat, n
<1>10. CASE n # 0
  <2> DEFINE f == [i \in 1 .. n |-> g[i]]
  <2>1. ASSUME NEW i \in 1 .. n PROVE f[i] = Value(f, i)
    <3>1. CASE i = 1
      <4>1. g[1] = g[0] \o seqs[1] /\ g[0] = <<>> /\ seqs[1] \in Seq(T)
        <5>1. 1 \in 1 .. n /\ 1 - 1 = 0
          BY <3>1
        <5>2. g[1] = g[1 - 1] \o seqs[1]
          BY <1>7, <5>1
        <5>3. QED BY <1>1, <1>6, <5>1, <5>2 DEF IsRunOf
      <4>2. g[1] = seqs[1]
        BY <4>1, ConcatEmptySeq
      <4>3. QED BY <3>1, <4>2
    <3>2. CASE i # 1
      <4>1. i - 1 \in 1 .. n
        BY <1>1, <3>2
      <4>2. QED BY <1>7, <3>2, <4>1
    <3>3. QED BY <3>1, <3>2
  <2>2. IsFlatten(f)
    <3>1. f = [i \in 1 .. n |-> f[i]]
      OBVIOUS
    <3> HIDE DEF f, Value
    <3>2. QED BY <2>1, <3>1, Zenon DEF IsFlatten
  <2> HIDE DEF f
  <2> DEFINE h == CHOOSE h : IsFlatten(h)
  <2>3. IsFlatten(h)
    BY <2>2
  <2> HIDE DEF h
  <2>4. \A i \in 1 .. n : h[i] = Value(h, i)
    BY <2>3 DEF IsFlatten
  <2>5. IsFlat([k \in 0 .. n |-> IF k = 0 THEN <<>> ELSE h[k]], seqs)
    <3> DEFINE e == [k \in 0 .. n |-> IF k = 0 THEN <<>> ELSE h[k]]
    <3>1. e[0] = <<>> /\ \A k \in 1 .. n : e[k] = h[k]
      BY <1>1
    <3> HIDE DEF e
    <3>2. ASSUME NEW k \in 1 .. n PROVE e[k] = e[k - 1] \o seqs[k]
      <4>1. CASE k = 1
        <5>1. e[1] = seqs[1] /\ e[0] = <<>> /\ seqs[1] \in Seq(T)
          BY <1>1, <2>4, <3>1, <4>1
        <5>2. <<>> \o seqs[1] = seqs[1] /\ 1 - 1 = 0
          BY <5>1, ConcatEmptySeq
        <5>3. QED BY <4>1, <5>1, <5>2
      <4>2. CASE k # 1
        <5>1. k - 1 \in 1 .. n
          BY <1>1, <4>2
        <5>2. QED BY <2>4, <3>1, <4>2, <5>1
      <4>3. QED BY <4>1, <4>2
    <3>3. IsFlat(e, seqs)
      BY <3>1, <3>2 DEF IsFlat, n
    <3>4. QED BY <3>3 DEF e
  <2>6. h[n] = g[n]
    <3> DEFINE e == [k \in 0 .. n |-> IF k = 0 THEN <<>> ELSE h[k]]
    <3>1. e[n] = h[n] /\ IsFlat(e, seqs)
      BY <1>1, <1>10, <2>5
    <3> HIDE DEF e
    <3>2. \A k \in 0 .. n : e[k] = g[k]
      BY <1>1, <1>8, <3>1, FlatUnique DEF n
    <3>3. QED BY <1>1, <3>1, <3>2
  <2>7. QED BY <1>3, <1>6, <1>8, <1>10, <2>6 DEF n, h
<1>11. QED BY <1>9, <1>10

\* What is put together is of the same elements.
LEMMA FlattenTyped ==
  ASSUME NEW T, NEW seqs \in Seq(Seq(T))
  PROVE  FlattenSeq(seqs) \in Seq(T)
<1>1. PICK g \in [0 .. Len(seqs) -> Seq(T)] : FlattenSeq(seqs) = g[Len(seqs)]
  BY FlattenIs
<1>2. Len(seqs) \in 0 .. Len(seqs)
  OBVIOUS
<1>3. QED BY <1>1, <1>2

\* No sequences at all.
LEMMA FlattenNone == FlattenSeq(<<>>) = <<>>
  BY DEF FlattenSeq

\* One sequence more.
LEMMA FlattenAppend ==
  ASSUME NEW T, NEW seqs \in Seq(Seq(T)), NEW x \in Seq(T)
  PROVE  FlattenSeq(Append(seqs, x)) = FlattenSeq(seqs) \o x
<1> DEFINE t == Append(seqs, x)
           n == Len(seqs)
<1>1. /\ t \in Seq(Seq(T)) /\ Len(t) = n + 1 /\ n \in Nat /\ t[n + 1] = x
      /\ \A i \in 1 .. n : t[i] = seqs[i]
  OBVIOUS
<1>2. PICK g \in [0 .. Len(seqs) -> Seq(T)] : IsFlat(g, seqs) /\ FlattenSeq(seqs) = g[Len(seqs)]
  BY FlattenIs
<1> HIDE DEF t
<1>3. PICK h \in [0 .. Len(t) -> Seq(T)] : IsFlat(h, t) /\ FlattenSeq(t) = h[Len(t)]
  BY <1>1, FlattenIs
<1>4. \A k \in 0 .. n : g[k] = h[k]
  <2>1. n \in Nat /\ Len(seqs) \in Nat /\ Len(t) \in Nat /\ n <= Len(seqs) /\ n <= Len(t)
        /\ \A k \in 1 .. n : seqs[k] = t[k]
    BY <1>1
  <2> HIDE DEF n
  <2>2. QED BY <1>2, <1>3, <2>1, FlatUnique
<1>5. h[n + 1] = h[n] \o x
  <2>1. n + 1 \in 1 .. Len(t) /\ (n + 1) - 1 = n
    BY <1>1
  <2>2. QED BY <1>1, <1>3, <2>1 DEF IsFlat
<1>6. FlattenSeq(t) = h[n + 1] /\ FlattenSeq(seqs) = g[n] /\ g[n] = h[n]
  <2>1. n \in 0 .. n
    BY <1>1
  <2>2. QED BY <1>1, <1>2, <1>3, <1>4, <2>1
<1>7. QED BY <1>5, <1>6 DEF t

\* The elements of each sequence are there.
LEMMA FlattenCovers ==
  ASSUME NEW T, NEW seqs \in Seq(Seq(T))
  PROVE  \A k \in 1 .. Len(seqs) : ToSet(seqs[k]) \subseteq ToSet(FlattenSeq(seqs))
<1> DEFINE n == Len(seqs)
<1>1. PICK g \in [0 .. Len(seqs) -> Seq(T)] : IsFlat(g, seqs) /\ FlattenSeq(seqs) = g[Len(seqs)]
  BY FlattenIs
<1>2. n \in Nat /\ \A k \in 1 .. n : seqs[k] \in Seq(T)
  OBVIOUS
<1> DEFINE S == {k \in 0 .. n : \A j \in 1 .. k : ToSet(seqs[j]) \subseteq ToSet(g[k])}
<1>3. 0 \in S
  BY <1>2
<1>4. ASSUME NEW k \in 0 .. n - 1, k \in S PROVE k + 1 \in S
  <2>1. k + 1 \in 1 .. n /\ k + 1 \in 0 .. n /\ (k + 1) - 1 = k /\ k \in 0 .. n
    BY <1>2
  <2>2. g[k + 1] = g[k] \o seqs[k + 1] /\ g[k] \in Seq(T) /\ seqs[k + 1] \in Seq(T)
    BY <1>1, <1>2, <2>1 DEF IsFlat
  <2>3. ToSet(g[k + 1]) = ToSet(g[k]) \cup ToSet(seqs[k + 1])
    BY <2>2, ToSetConcat
  <2>4. \A j \in 1 .. k + 1 : j \in 1 .. k \/ j = k + 1
    BY <1>2
  <2>5. QED BY <1>4, <2>1, <2>3, <2>4
<1>5. 0 .. n \subseteq S
  <2> HIDE DEF S, n
  <2>1. QED BY <1>2, <1>3, <1>4, SegmentInduction
<1>6. n \in 0 .. n
  BY <1>2
<1>7. n \in S
  <2> HIDE DEF S
  <2>1. QED BY <1>5, <1>6
<1>8. QED BY <1>1, <1>7

\* Concatenation is associative, in the form the provers match.
LEMMA Associative ==
  ASSUME NEW V, NEW a \in Seq(V), NEW b \in Seq(V), NEW c \in Seq(V)
  PROVE  (a \o b) \o c = a \o (b \o c)
  BY ConcatAssociative

LEMMA ConcatAppend ==
  ASSUME NEW V, NEW a \in Seq(V), NEW b \in Seq(V), NEW c \in V
  PROVE  a \o Append(b, c) = Append(a \o b, c)
<1>1. a \o b \in Seq(V) /\ <<c>> \in Seq(V)
  BY ConcatProperties
<1>2. Append(b, c) = b \o <<c>> /\ Append(a \o b, c) = (a \o b) \o <<c>>
  BY <1>1, AppendIsConcat
<1> DEFINE y == <<c>>
<1> HIDE DEF y
<1>3. (a \o b) \o y = a \o (b \o y)
  BY <1>1, Associative DEF y
<1>4. QED BY <1>2, <1>3 DEF y

\* First the ones, then the others.
LEMMA FlattenConcat ==
  ASSUME NEW T, NEW s \in Seq(Seq(T)), NEW t \in Seq(Seq(T))
  PROVE  FlattenSeq(s \o t) = FlattenSeq(s) \o FlattenSeq(t)
<1> DEFINE n == Len(t)
           S == {k \in 0 .. n : FlattenSeq(s \o SubSeq(t, 1, k)) = FlattenSeq(s) \o FlattenSeq(SubSeq(t, 1, k))}
<1>1. n \in Nat /\ \A k \in 1 .. n : t[k] \in Seq(T)
  OBVIOUS
<1>2. FlattenSeq(s) \in Seq(T)
  BY FlattenTyped
<1>3. 0 \in S
  <2>1. SubSeq(t, 1, 0) = <<>>
    BY SubSeqEmpty
  <2>2. s \o <<>> = s /\ FlattenSeq(s) \o <<>> = FlattenSeq(s)
    BY <1>2, ConcatEmptySeq
  <2>3. 0 \in 0 .. n
    BY <1>1
  <2>4. FlattenSeq(s \o SubSeq(t, 1, 0)) = FlattenSeq(s) \o FlattenSeq(SubSeq(t, 1, 0))
    BY <2>1, <2>2, FlattenNone
  <2>5. QED BY <2>3, <2>4
<1>4. ASSUME NEW k \in 0 .. n - 1, k \in S PROVE k + 1 \in S
  <2> DEFINE u == SubSeq(t, 1, k)
             x == t[k + 1]
  <2>1. k \in 0 .. Len(t) - 1 /\ k \in 0 .. Len(t) /\ k + 1 \in 0 .. n /\ x \in Seq(T)
    BY <1>1
  <2>2. SubSeq(t, 1, k + 1) = Append(u, x) /\ u \in Seq(Seq(T))
    BY <2>1, FirstPlaces, FirstPlacesGrow
  <2>3. FlattenSeq(s \o u) = FlattenSeq(s) \o FlattenSeq(u)
    BY <1>4
  <2> HIDE DEF u, x, n
  <2>4. s \o Append(u, x) = Append(s \o u, x) /\ s \o u \in Seq(Seq(T))
    <3>1. s \o u \in Seq(Seq(T))
      BY <2>2, ConcatProperties
    <3>2. s \o Append(u, x) = Append(s \o u, x)
      BY <2>1, <2>2, ConcatAppend
    <3>3. QED BY <3>1, <3>2
  <2>5. FlattenSeq(Append(s \o u, x)) = FlattenSeq(s \o u) \o x
    BY <2>1, <2>4, FlattenAppend
  <2>6. FlattenSeq(Append(u, x)) = FlattenSeq(u) \o x /\ FlattenSeq(u) \in Seq(T)
    BY <2>1, <2>2, FlattenAppend, FlattenTyped
  <2>7. (FlattenSeq(s) \o FlattenSeq(u)) \o x = FlattenSeq(s) \o (FlattenSeq(u) \o x)
    <3> DEFINE a == FlattenSeq(s)
               b == FlattenSeq(u)
    <3>1. a \in Seq(T) /\ b \in Seq(T) /\ x \in Seq(T)
      BY <1>2, <2>1, <2>6
    <3> HIDE DEF a, b, S
    <3>2. (a \o b) \o x = a \o (b \o x)
      BY <3>1, Associative
    <3>3. QED BY <3>2 DEF a, b
  <2>8. FlattenSeq(s \o SubSeq(t, 1, k + 1)) = FlattenSeq(s) \o FlattenSeq(SubSeq(t, 1, k + 1))
    BY <2>2, <2>3, <2>4, <2>5, <2>6, <2>7, Zenon
  <2>9. QED BY <2>1, <2>8
<1>5. 0 .. n \subseteq S
  <2> HIDE DEF S, n
  <2>1. QED BY <1>1, <1>3, <1>4, SegmentInduction
<1>6. SubSeq(t, 1, n) = t /\ n \in 0 .. n
  BY <1>1, SubSeqFull
<1>7. QED BY <1>5, <1>6

-----------------------------------------------------------------------------
(* Sums.                                                                   *)

Some(T) == CHOOSE x \in T : TRUE

\* g gives the sums of f over the subsets of D, as Total computes them.
AreSums(g, f, D) ==
  \A T \in SUBSET D : g[T] = IF T = {} THEN 0 ELSE f[Some(T)] + g[T \ {Some(T)}]

LEMMA SomeIn == ASSUME NEW T, T # {} PROVE Some(T) \in T
BY DEF Some

\* The recursion of Total defines a function.
LEMMA SumsExist ==
  ASSUME NEW D, IsFiniteSet(D), NEW f, \A x \in D : f[x] \in Int
  PROVE  \E g \in [SUBSET D -> Int] : AreSums(g, f, D)
<1> DEFINE n == Cardinality(D)
           Value(g, T) == IF T = {} THEN 0 ELSE f[Some(T)] + g[T \ {Some(T)}]
           Upto(g, k) == \A T \in SUBSET D : Cardinality(T) <= k => g[T] = Value(g, T)
           S == {k \in 0 .. n : \E g \in [SUBSET D -> Int] : Upto(g, k)}
<1>1. n \in Nat /\ \A T \in SUBSET D : IsFiniteSet(T) /\ Cardinality(T) \in 0 .. n
  BY FS_Subset, FS_CardinalityType
<1>2. ASSUME NEW T \in SUBSET D, T # {}
      PROVE  /\ Some(T) \in D /\ T \ {Some(T)} \in SUBSET D
             /\ Cardinality(T \ {Some(T)}) = Cardinality(T) - 1
  <2>1. Some(T) \in T
    BY <1>2, SomeIn
  <2>2. QED BY <1>1, <2>1, FS_RemoveElement
<1>3. \A T \in SUBSET D : Cardinality(T) = 0 => T = {}
  BY <1>1, FS_EmptySet
<1> HIDE DEF n
<1>4. 0 \in S
  <2> DEFINE g == [T \in SUBSET D |-> 0]
  <2>1. g \in [SUBSET D -> Int]
    OBVIOUS
  <2>2. Upto(g, 0)
    BY <1>1, <1>3
  <2> HIDE DEF g, Upto
  <2>3. QED BY <1>1, <2>1, <2>2
<1>5. ASSUME NEW k \in 0 .. n - 1, k \in S PROVE k + 1 \in S
  <2>1. PICK g \in [SUBSET D -> Int] : Upto(g, k)
    BY <1>5
  <2> DEFINE h == [T \in SUBSET D |-> IF Cardinality(T) = k + 1 THEN Value(g, T) ELSE g[T]]
  <2>2. ASSUME NEW T \in SUBSET D PROVE Value(g, T) \in Int
    <3>1. CASE T = {}
      BY <3>1
    <3>2. CASE T # {}
      <4>1. f[Some(T)] \in Int /\ g[T \ {Some(T)}] \in Int
        BY <1>2, <3>2
      <4>2. QED BY <3>2, <4>1
    <3>3. QED BY <3>1, <3>2
  <2>3. h \in [SUBSET D -> Int]
    <3> HIDE DEF Value
    <3>1. QED BY <2>2
  <2>4. \A T \in SUBSET D : Cardinality(T) <= k => h[T] = g[T]
    BY <1>1
  <2>5. \A T \in SUBSET D : Cardinality(T) = k + 1 => h[T] = Value(g, T)
    OBVIOUS
  <2> HIDE DEF h
  <2>6. ASSUME NEW T \in SUBSET D, Cardinality(T) <= k + 1 PROVE h[T] = Value(h, T)
    <3>1. CASE T = {}
      <4>1. Cardinality(T) = 0
        BY <3>1, FS_EmptySet
      <4>2. h[T] = g[T] /\ g[T] = Value(g, T)
        BY <1>1, <2>1, <2>4, <4>1
      <4>3. QED BY <3>1, <4>2
    <3>2. CASE T # {}
      <4> DEFINE U == T \ {Some(T)}
      <4>1. U \in SUBSET D /\ Cardinality(U) <= k
        BY <1>1, <1>2, <2>6, <3>2
      <4>2. h[U] = g[U]
        BY <2>4, <4>1
      <4>3. h[T] = Value(g, T)
        <5>1. CASE Cardinality(T) = k + 1
          BY <2>5, <5>1
        <5>2. CASE Cardinality(T) # k + 1
          <6>1. Cardinality(T) <= k
            BY <1>1, <2>6, <5>2
          <6>2. QED BY <2>1, <2>4, <6>1
        <5>3. QED BY <5>1, <5>2
      <4>4. QED BY <3>2, <4>2, <4>3
    <3>3. QED BY <3>1, <3>2
  <2>7. Upto(h, k + 1)
    BY <2>6
  <2>8. k + 1 \in 0 .. n
    BY <1>1
  <2> HIDE DEF Upto
  <2>9. QED BY <2>3, <2>7, <2>8
<1>6. n \in S
  <2> HIDE DEF S
  <2>1. 0 .. n \subseteq S
    BY <1>1, <1>4, <1>5, SegmentInduction
  <2>2. QED BY <1>1, <2>1
<1>7. PICK g \in [SUBSET D -> Int] : Upto(g, n)
  <2> HIDE DEF Upto
  <2>1. QED BY <1>6
<1>8. \A T \in SUBSET D : g[T] = Value(g, T)
  <2>1. \A T \in SUBSET D : Cardinality(T) <= n
    BY <1>1
  <2> HIDE DEF Value
  <2>2. QED BY <1>7, <2>1, Zenon
<1>9. AreSums(g, f, D)
  BY <1>8 DEF AreSums
<1>10. QED BY <1>9

\* Functions that agree on a set have the same sums over its subsets.
LEMMA SumsAgree ==
  ASSUME NEW D, IsFiniteSet(D), NEW f, NEW g, NEW e, NEW h,
         AreSums(g, f, D), AreSums(h, e, D), \A x \in D : f[x] = e[x]
  PROVE  \A T \in SUBSET D : g[T] = h[T]
<1> DEFINE n == Cardinality(D)
           S == {k \in 0 .. n : \A T \in SUBSET D : Cardinality(T) <= k => g[T] = h[T]}
<1>1. n \in Nat /\ \A T \in SUBSET D : IsFiniteSet(T) /\ Cardinality(T) \in 0 .. n
  BY FS_Subset, FS_CardinalityType
<1>2. g[{}] = h[{}]
  BY DEF AreSums
<1>3. 0 \in S
  <2>1. ASSUME NEW T \in SUBSET D, Cardinality(T) <= 0 PROVE T = {}
    <3>1. Cardinality(T) = 0
      BY <1>1, <2>1
    <3>2. QED BY <1>1, <3>1, FS_EmptySet
  <2>2. QED BY <1>1, <1>2, <2>1
<1>4. ASSUME NEW k \in 0 .. n - 1, k \in S PROVE k + 1 \in S
  <2>1. ASSUME NEW T \in SUBSET D, Cardinality(T) <= k + 1 PROVE g[T] = h[T]
    <3>1. CASE T # {}
      <4> DEFINE x == Some(T)
                 U == T \ {x}
      <4>1. x \in T
        BY <3>1, SomeIn
      <4>2. U \in SUBSET D /\ Cardinality(U) <= k
        BY <1>1, <2>1, <4>1, FS_RemoveElement
      <4>3. g[U] = h[U]
        BY <1>4, <4>2
      <4>4. g[T] = f[x] + g[U] /\ h[T] = e[x] + h[U]
        BY <3>1 DEF AreSums
      <4>5. f[x] = e[x]
        BY <4>1
      <4>6. QED BY <4>3, <4>4, <4>5
    <3>2. QED BY <1>2, <3>1
  <2>2. QED BY <1>1, <2>1
<1>5. n \in S
  <2> HIDE DEF S, n
  <2>1. 0 .. n \subseteq S
    BY <1>1, <1>3, <1>4, SegmentInduction
  <2>2. QED BY <1>1, <2>1
<1>6. QED BY <1>1, <1>5

\* What Total is.
LEMMA TotalIs ==
  ASSUME NEW D, IsFiniteSet(D), NEW f, \A x \in D : f[x] \in Int
  PROVE  \E g \in [SUBSET D -> Int] : AreSums(g, f, D) /\ Total(f, D) = g[D]
<1> DEFINE Value(g, T) == IF T = {} THEN 0 ELSE f[Some(T)] + g[T \ {Some(T)}]
           IsIt(g) == g = [T \in SUBSET D |-> Value(g, T)]
           sum == CHOOSE g : IsIt(g)
<1>1. Total(f, D) = sum[D]
  BY DEF Total, Some
<1>2. PICK g \in [SUBSET D -> Int] : AreSums(g, f, D)
  BY SumsExist
<1>3. IsIt(g)
  BY <1>2 DEF AreSums
<1> HIDE DEF IsIt
<1>4. IsIt(sum)
  BY <1>3
<1> HIDE DEF sum
<1>5. sum = [T \in SUBSET D |-> Value(sum, T)]
  BY <1>4 DEF IsIt
<1>6. AreSums(sum, f, D)
  BY <1>5 DEF AreSums
<1>7. \A T \in SUBSET D : sum[T] = g[T]
  BY <1>2, <1>6, SumsAgree
<1>8. Total(f, D) = g[D]
  BY <1>1, <1>7
<1>9. QED BY <1>2, <1>8

\* g gives what Total computes of each part of D.
AreTotals(g, f, D) == \A T \in SUBSET D : Total(f, T) = g[T]

\* The sums over the parts of a set, each computed on its own.
LEMMA TotalsAre ==
  ASSUME NEW D, IsFiniteSet(D), NEW f, \A x \in D : f[x] \in Int
  PROVE  \E g \in [SUBSET D -> Int] : AreSums(g, f, D) /\ AreTotals(g, f, D)
<1>1. PICK g \in [SUBSET D -> Int] : AreSums(g, f, D)
  BY SumsExist
<1>2. ASSUME NEW T \in SUBSET D PROVE Total(f, T) = g[T]
  <2>1. IsFiniteSet(T) /\ \A x \in T : f[x] \in Int
    BY FS_Subset
  <2>2. PICK h \in [SUBSET T -> Int] : AreSums(h, f, T) /\ Total(f, T) = h[T]
    BY <2>1, TotalIs
  <2>3. AreSums(g, f, T)
    <3>1. SUBSET T \subseteq SUBSET D
      OBVIOUS
    <3>2. QED BY <1>1, <3>1 DEF AreSums
  <2>4. g[T] = h[T]
    BY <2>1, <2>2, <2>3, SumsAgree
  <2>5. QED BY <2>2, <2>4
<1>3. AreTotals(g, f, D)
  BY <1>2 DEF AreTotals
<1>4. QED BY <1>1, <1>3

\* A sum is that of nothing, or of any element and the others.
LEMMA TotalStep ==
  ASSUME NEW D, IsFiniteSet(D), NEW f, \A x \in D : f[x] \in Int
  PROVE  /\ Total(f, D) \in Int
         /\ D = {} => Total(f, D) = 0
         /\ \A x \in D : Total(f, D) = f[x] + Total(f, D \ {x})
<1>1. PICK g \in [SUBSET D -> Int] : AreSums(g, f, D) /\ AreTotals(g, f, D)
  BY TotalsAre
<1> DEFINE n == Cardinality(D)
           Splits(T) == \A x \in T : g[T] = f[x] + g[T \ {x}]
           S == {k \in 0 .. n : \A T \in SUBSET D : Cardinality(T) <= k => Splits(T)}
<1>2. n \in Nat /\ \A T \in SUBSET D : IsFiniteSet(T) /\ Cardinality(T) \in 0 .. n
  BY FS_Subset, FS_CardinalityType
<1>3. 0 \in S
  <2>1. ASSUME NEW T \in SUBSET D, Cardinality(T) <= 0 PROVE T = {}
    <3>1. Cardinality(T) = 0
      BY <1>2, <2>1
    <3>2. QED BY <1>2, <3>1, FS_EmptySet
  <2>2. QED BY <1>2, <2>1
<1>4. ASSUME NEW k \in 0 .. n - 1, k \in S PROVE k + 1 \in S
  <2>1. ASSUME NEW T \in SUBSET D, Cardinality(T) <= k + 1, NEW x \in T
        PROVE  g[T] = f[x] + g[T \ {x}]
    <3> DEFINE y == Some(T)
    <3>1. y \in T /\ g[T] = f[y] + g[T \ {y}]
      BY <1>1, SomeIn DEF AreSums
    <3> HIDE DEF y
    <3>2. CASE x # y
      <4> DEFINE U == T \ {x}
                 V == T \ {y}
                 W == T \ {x, y}
      <4>1. /\ U \in SUBSET D /\ Cardinality(U) <= k /\ y \in U
            /\ V \in SUBSET D /\ Cardinality(V) <= k /\ x \in V
            /\ W = U \ {y} /\ W = V \ {x} /\ W \in SUBSET D
        BY <1>2, <2>1, <3>1, <3>2, FS_RemoveElement
      <4>2. g[U] = f[y] + g[W] /\ g[V] = f[x] + g[W]
        <5>1. Splits(U) /\ Splits(V)
          <6> HIDE DEF Splits, U, V
          <6>1. QED BY <1>4, <4>1
        <5>2. QED BY <4>1, <5>1
      <4>3. f[x] \in Int /\ f[y] \in Int /\ g[W] \in Int
        BY <3>1, <4>1
      <4> HIDE DEF U, V, W
      <4>4. g[T] = f[y] + (f[x] + g[W])
        BY <3>1, <4>2 DEF V
      <4>5. g[T] = f[x] + g[U]
        BY <4>2, <4>3, <4>4
      <4>6. QED BY <4>5 DEF U
    <3>3. CASE x = y
      BY <3>1, <3>3
    <3>4. QED BY <3>2, <3>3
  <2>2. QED BY <1>2, <2>1
<1>5. n \in S
  <2> HIDE DEF S, n
  <2>1. 0 .. n \subseteq S
    BY <1>2, <1>3, <1>4, SegmentInduction
  <2>2. QED BY <1>2, <2>1
<1>6. D \in SUBSET D /\ {} \in SUBSET D /\ \A x \in D : D \ {x} \in SUBSET D
  OBVIOUS
<1>7. Splits(D)
  BY <1>2, <1>5, <1>6
<1>8. Total(f, D) = g[D] /\ \A x \in D : Total(f, D \ {x}) = g[D \ {x}]
  BY <1>1, <1>6 DEF AreTotals
<1>9. D = {} => g[D] = 0
  BY <1>1, <1>6 DEF AreSums
<1> HIDE DEF n
<1>10. QED BY <1>1, <1>6, <1>7, <1>8, <1>9

\* A sum with one element more.
LEMMA TotalAdd ==
  ASSUME NEW D, IsFiniteSet(D), NEW f, \A x \in D : f[x] \in Int,
         NEW T \in SUBSET D, NEW x \in D \ T
  PROVE  /\ Total(f, T) \in Int
         /\ Total(f, T \cup {x}) = f[x] + Total(f, T)
<1> DEFINE U == T \cup {x}
<1>1. IsFiniteSet(U) /\ IsFiniteSet(T) /\ x \in U /\ U \ {x} = T /\ \A y \in U : f[y] \in Int
  BY FS_Subset
<1> HIDE DEF U
<1>2. Total(f, U) = f[x] + Total(f, U \ {x})
  BY <1>1, TotalStep
<1>3. Total(f, T) \in Int
  BY <1>1, TotalStep
<1>4. QED BY <1>1, <1>2, <1>3 DEF U

LEMMA TotalNone == ASSUME NEW f PROVE Total(f, {}) = 0
<1>1. IsFiniteSet({}) /\ \A x \in {} : f[x] \in Int
  BY FS_EmptySet
<1>2. QED BY <1>1, TotalStep, Zenon

\* Sums of the same are the same.
LEMMA TotalSame ==
  ASSUME NEW D, IsFiniteSet(D), NEW f, NEW e, \A x \in D : f[x] \in Int /\ e[x] = f[x]
  PROVE  Total(f, D) = Total(e, D)
<1>1. PICK g \in [SUBSET D -> Int] : AreSums(g, f, D) /\ Total(f, D) = g[D]
  BY TotalIs
<1>2. \A x \in D : e[x] \in Int
  OBVIOUS
<1>3. PICK h \in [SUBSET D -> Int] : AreSums(h, e, D) /\ Total(e, D) = h[D]
  BY <1>2, TotalIs
<1>4. \A T \in SUBSET D : g[T] = h[T]
  BY <1>1, <1>3, SumsAgree
<1>5. QED BY <1>1, <1>3, <1>4

\* Sums of sums, and of no more.
LEMMA TotalPlus ==
  ASSUME NEW D, IsFiniteSet(D), NEW f, NEW e, NEW h,
         \A x \in D : f[x] \in Int /\ e[x] \in Int /\ h[x] = f[x] + e[x]
  PROVE  Total(h, D) = Total(f, D) + Total(e, D)
<1> DEFINE W == {T \in SUBSET D : Total(h, T) = Total(f, T) + Total(e, T)}
<1>1. {} \in W
  BY TotalNone
<1>2. ASSUME NEW T \in SUBSET D, NEW x \in D \ T, T \in W PROVE T \cup {x} \in W
  <2>1. Total(f, T) \in Int /\ Total(f, T \cup {x}) = f[x] + Total(f, T)
    BY TotalAdd
  <2>2. Total(e, T) \in Int /\ Total(e, T \cup {x}) = e[x] + Total(e, T)
    BY TotalAdd
  <2>3. \A y \in D : h[y] \in Int
    OBVIOUS
  <2>4. Total(h, T \cup {x}) = h[x] + Total(h, T)
    BY <2>3, TotalAdd
  <2>5. Total(h, T) = Total(f, T) + Total(e, T) /\ h[x] = f[x] + e[x] /\ f[x] \in Int /\ e[x] \in Int
    BY <1>2
  <2>6. Total(h, T \cup {x}) = Total(f, T \cup {x}) + Total(e, T \cup {x})
    BY <2>1, <2>2, <2>4, <2>5
  <2>7. T \cup {x} \in SUBSET D
    OBVIOUS
  <2>8. QED BY <2>6, <2>7
<1>3. D \in W
  <2> HIDE DEF W
  <2>1. QED BY <1>1, <1>2, FiniteInduction
<1>4. QED BY <1>3

LEMMA TotalLess ==
  ASSUME NEW D, IsFiniteSet(D), NEW f, NEW e,
         \A x \in D : f[x] \in Int /\ e[x] \in Int /\ f[x] <= e[x]
  PROVE  Total(f, D) <= Total(e, D)
<1> DEFINE W == {T \in SUBSET D : Total(f, T) <= Total(e, T)}
<1>0. (\A x \in D : f[x] \in Int) /\ \A x \in D : e[x] \in Int
  OBVIOUS
<1>1. {} \in W
  BY TotalNone
<1>2. ASSUME NEW T \in SUBSET D, NEW x \in D \ T, T \in W PROVE T \cup {x} \in W
  <2>1. Total(f, T) \in Int /\ Total(f, T \cup {x}) = f[x] + Total(f, T)
    BY <1>0, TotalAdd
  <2>2. Total(e, T) \in Int /\ Total(e, T \cup {x}) = e[x] + Total(e, T)
    BY <1>0, TotalAdd
  <2>3. Total(f, T) <= Total(e, T) /\ f[x] <= e[x] /\ f[x] \in Int /\ e[x] \in Int
    BY <1>2
  <2>4. Total(f, T \cup {x}) <= Total(e, T \cup {x})
    BY <2>1, <2>2, <2>3
  <2>5. T \cup {x} \in SUBSET D
    OBVIOUS
  <2>6. QED BY <2>4, <2>5
<1>3. D \in W
  <2> HIDE DEF W
  <2>1. QED BY <1>1, <1>2, FiniteInduction
<1>4. QED BY <1>3

\* f is k on B, and nothing elsewhere.
IsOnly(f, D, k, B) == \A x \in D : f[x] = IF x \in B THEN k ELSE 0

\* A sum of the same number for some elements and of none for the others.
LEMMA TotalCount ==
  ASSUME NEW D, IsFiniteSet(D), NEW f, NEW k \in Int, NEW B, IsOnly(f, D, k, B)
  PROVE  Total(f, D) = k * Cardinality(D \cap B)
<1> DEFINE W == {T \in SUBSET D : Total(f, T) = k * Cardinality(T \cap B)}
<1>0. (\A x \in D : f[x] \in Int) /\ \A x \in D : f[x] = IF x \in B THEN k ELSE 0
  BY DEF IsOnly
<1>1. {} \in W
  <2>1. {} \cap B = {} /\ Cardinality({}) = 0 /\ k * 0 = 0
    BY FS_EmptySet
  <2>2. QED BY <2>1, TotalNone
<1>2. ASSUME NEW T \in SUBSET D, NEW x \in D \ T, T \in W PROVE T \cup {x} \in W
  <2> DEFINE c == Cardinality(T \cap B)
             d == Cardinality((T \cup {x}) \cap B)
  <2>1. Total(f, T) \in Int /\ Total(f, T \cup {x}) = f[x] + Total(f, T)
    BY <1>0, TotalAdd
  <2>2. IsFiniteSet(T \cap B) /\ c \in Nat
    BY FS_Subset, FS_CardinalityType
  <2>3. d = IF x \in B THEN c + 1 ELSE c
    <3>1. CASE x \in B
      <4>1. (T \cup {x}) \cap B = (T \cap B) \cup {x} /\ x \notin T \cap B
        BY <3>1
      <4>2. QED BY <2>2, <3>1, <4>1, FS_AddElement
    <3>2. CASE x \notin B
      <4>1. (T \cup {x}) \cap B = T \cap B
        BY <3>2
      <4>2. QED BY <3>2, <4>1
    <3>3. QED BY <3>1, <3>2
  <2>4. Total(f, T) = k * c
    BY <1>2
  <2> HIDE DEF c, d
  <2>5. k * (c + 1) = k + k * c /\ k * c = 0 + k * c
    BY <2>2
  <2>6. Total(f, T \cup {x}) = k * d
    <3>1. f[x] = IF x \in B THEN k ELSE 0
      BY <1>0
    <3>2. QED BY <2>1, <2>3, <2>4, <2>5, <3>1
  <2>7. T \cup {x} \in SUBSET D
    OBVIOUS
  <2>8. QED BY <2>6, <2>7 DEF d
<1>3. D \in W
  <2> HIDE DEF W
  <2>1. QED BY <1>1, <1>2, FiniteInduction
<1>4. QED BY <1>3

LEMMA TotalZero ==
  ASSUME NEW D, IsFiniteSet(D), NEW f, \A x \in D : f[x] = 0
  PROVE  Total(f, D) = 0
<1> DEFINE W == {T \in SUBSET D : Total(f, T) = 0}
<1>1. {} \in W
  BY TotalNone
<1>2. ASSUME NEW T \in SUBSET D, NEW x \in D \ T, T \in W PROVE T \cup {x} \in W
  <2>1. \A y \in D : f[y] \in Int
    OBVIOUS
  <2>2. Total(f, T \cup {x}) = f[x] + Total(f, T)
    BY <2>1, TotalAdd
  <2>3. T \cup {x} \in SUBSET D /\ Total(f, T) = 0 /\ f[x] = 0
    BY <1>2
  <2>4. QED BY <2>2, <2>3
<1>3. D \in W
  <2> HIDE DEF W
  <2>1. QED BY <1>1, <1>2, FiniteInduction
<1>4. QED BY <1>3

\* b gives every element of D a name of its own, by which e knows its number.
Renames(b, f, e, D) ==
  /\ \A x \in D : e[b[x]] = f[x]
  /\ \A x, y \in D : b[x] = b[y] => x = y

\* A sum does not depend on the names of what is summed.
LEMMA TotalImage ==
  ASSUME NEW D, IsFiniteSet(D), NEW f, NEW b, NEW e,
         \A x \in D : f[x] \in Int, Renames(b, f, e, D)
  PROVE  Total(f, D) = Total(e, {b[x] : x \in D})
<1> DEFINE Image(T) == {b[x] : x \in T}
           W == {T \in SUBSET D : Total(f, T) = Total(e, Image(T))}
<1>0. (\A y \in Image(D) : e[y] \in Int) /\ IsFiniteSet(Image(D))
  BY ImageFinite DEF Renames
<1>1. {} \in W
  <2>1. Image({}) = {}
    OBVIOUS
  <2> HIDE DEF Image
  <2>2. QED BY <2>1, TotalNone
<1>2. ASSUME NEW T \in SUBSET D, NEW x \in D \ T, T \in W PROVE T \cup {x} \in W
  <2>1. Total(f, T) \in Int /\ Total(f, T \cup {x}) = f[x] + Total(f, T)
    <3> HIDE DEF W, Image
    <3>1. QED BY TotalAdd
  <2>2. Image(T) \in SUBSET Image(D) /\ b[x] \in Image(D) \ Image(T) /\ Image(T \cup {x}) = Image(T) \cup {b[x]}
    BY DEF Renames
  <2> DEFINE M == Image(D)
             N == Image(T)
             z == b[x]
  <2>3. Total(e, N \cup {z}) = e[z] + Total(e, N)
    <3>1. IsFiniteSet(M) /\ (\A y \in M : e[y] \in Int) /\ N \in SUBSET M /\ z \in M \ N
      BY <1>0, <2>2
    <3> HIDE DEF M, N, z
    <3>2. QED BY <3>1, TotalAdd
  <2>4. Total(f, T) = Total(e, N) /\ e[z] = f[x]
    BY <1>2 DEF Renames
  <2>5. Total(f, T \cup {x}) = Total(e, Image(T \cup {x}))
    BY <2>1, <2>2, <2>3, <2>4
  <2>6. T \cup {x} \in SUBSET D
    OBVIOUS
  <2> HIDE DEF Image
  <2>7. QED BY <2>5, <2>6
<1>3. D \in W
  <2> HIDE DEF W
  <2>1. QED BY <1>1, <1>2, FiniteInduction
<1>4. QED BY <1>3

\* The sums of the rows and of the columns of a table.
AreRows(row, h, D, E) ==
  \A x \in D : (\A y \in E : h[x][y] \in Int) /\ row[x] = Total(h[x], E)

AreColumns(column, h, D, E) == \A y \in E : column[y] = Total([x \in D |-> h[x][y]], D)

\* A table summed by rows or by columns.
LEMMA TotalSwap ==
  ASSUME NEW D, IsFiniteSet(D), NEW E, IsFiniteSet(E), NEW h, NEW row, NEW column,
         AreRows(row, h, D, E), AreColumns(column, h, D, E)
  PROVE  Total(row, D) = Total(column, E)
<1> DEFINE at(y) == [x \in D |-> h[x][y]]
           sums(T) == [y \in E |-> Total(at(y), T)]
           W == {T \in SUBSET D : Total(row, T) = Total(sums(T), E)}
<1>a. /\ \A x \in D : (\A y \in E : h[x][y] \in Int) /\ row[x] = Total(h[x], E)
      /\ \A y \in E : column[y] = Total([x \in D |-> h[x][y]], D)
  BY DEF AreRows, AreColumns
<1>0. /\ \A x \in D : row[x] \in Int /\ row[x] = Total(h[x], E)
      /\ \A y \in E : \A x \in D : at(y)[x] \in Int /\ at(y)[x] = h[x][y]
  <2>1. ASSUME NEW x \in D PROVE Total(h[x], E) \in Int
    <3> DEFINE f == h[x]
    <3>1. \A y \in E : f[y] \in Int
      BY <1>a
    <3> HIDE DEF f
    <3>2. Total(f, E) \in Int
      BY <3>1, TotalStep
    <3>3. QED BY <3>2 DEF f
  <2>2. QED BY <1>a, <2>1
<1>1. {} \in W
  <2>1. Total(row, {}) = 0
    BY TotalNone
  <2> DEFINE f == sums({})
  <2>2. ASSUME NEW y \in E PROVE f[y] = 0
    <3> DEFINE g == at(y)
    <3>1. f[y] = Total(g, {})
      OBVIOUS
    <3> HIDE DEF f, g
    <3>2. QED BY <3>1, TotalNone
  <2> HIDE DEF f
  <2>3. Total(f, E) = 0
    <3> HIDE DEF at, sums, W
    <3>1. QED BY <2>2, TotalZero
  <2>4. QED BY <2>1, <2>3 DEF f
<1>2. ASSUME NEW T \in SUBSET D, NEW x \in D \ T, T \in W PROVE T \cup {x} \in W
  <2> DEFINE f == h[x]
             e == sums(T)
             g == sums(T \cup {x})
  <2>1. ASSUME NEW y \in E PROVE f[y] \in Int /\ e[y] \in Int /\ g[y] = f[y] + e[y]
    <3> DEFINE a == at(y)
    <3>0. \A z \in D : a[z] \in Int
      BY <1>0
    <3>1. a[x] = h[x][y]
      OBVIOUS
    <3>2. e[y] = Total(a, T) /\ g[y] = Total(a, T \cup {x}) /\ f[y] = h[x][y]
      OBVIOUS
    <3> HIDE DEF a, e, f, g
    <3>3. Total(a, T) \in Int /\ Total(a, T \cup {x}) = a[x] + Total(a, T)
      BY <3>0, TotalAdd
    <3>4. a[x] \in Int
      BY <3>0
    <3>5. QED BY <3>1, <3>2, <3>3, <3>4
  <2>2. row[x] = Total(f, E)
    BY <1>0
  <2>3. Total(row, T) = Total(e, E)
    BY <1>2
  <2> HIDE DEF f, e, g
  <2>4. Total(g, E) = Total(f, E) + Total(e, E)
    BY <2>1, TotalPlus
  <2>5. Total(row, T \cup {x}) = row[x] + Total(row, T)
    <3>1. \A z \in D : row[z] \in Int
      BY <1>0
    <3>2. QED BY <3>1, TotalAdd
  <2>6. Total(row, T \cup {x}) = Total(g, E)
    BY <2>2, <2>3, <2>4, <2>5
  <2>7. T \cup {x} \in SUBSET D
    OBVIOUS
  <2> HIDE DEF sums
  <2>8. QED BY <2>6, <2>7 DEF g
<1>3. D \in W
  <2> HIDE DEF W
  <2>1. QED BY <1>1, <1>2, FiniteInduction
<1> DEFINE s == sums(D)
<1>4. Total(row, D) = Total(s, E)
  BY <1>3
<1>5. \A y \in E : s[y] = column[y]
  BY <1>a
<1>6. ASSUME NEW y \in E PROVE s[y] \in Int
  <2> DEFINE a == at(y)
  <2>1. s[y] = Total(a, D) /\ \A z \in D : a[z] \in Int
    BY <1>0
  <2> HIDE DEF a, s
  <2>2. QED BY <2>1, TotalStep
<1> HIDE DEF s
<1>7. Total(s, E) = Total(column, E)
  BY <1>5, <1>6, TotalSame
<1>8. QED BY <1>4, <1>7

=============================================================================
